--------------------------- MODULE ContentTables ---------------------------
(***************************************************************************)
(* What the mobile app downloads to be read offline: rituals, duas and     *)
(* locations, each with a text per language; a ritual also with circuits   *)
(* (ritual_substeps and their texts) and du'as (ritual_duas and theirs).   *)
(*                                                                         *)
(* The columns of a row are abstracted to the change that wrote them: an   *)
(* edit of staff, a removal or a migration, numbered as they begin.  One   *)
(* circuit, and one du'a of a circuit, stands for all that one change      *)
(* inserts.  Rituals are umrah.  Audio files are left out.                 *)
(***************************************************************************)
EXTENDS Naturals, Sequences, FiniteSets

CONSTANTS
  Items,       \* ids of the three tables, handed out once
  Langs,       \* CONTENT_LANGUAGES
  Edits,       \* the bodies staff send
  Sessions,    \* requests served at a time
  Migrator,    \* the process that runs the migrations
  MaxChanges, LastTick,     \* bounds: changes, the clock
  None

Kinds == {"ritual", "dua", "location"}

\* base: columns of the item itself are sent.  circuits: not sent, an empty list, or new ones.
Bodies == [base : BOOLEAN, texts : Seq(Langs), circuits : {"kept", "none", "new"}]

ASSUME ContentAssumption ==
  /\ Edits \subseteq Bodies
  /\ IsFiniteSet(Sessions) /\ Sessions # {} /\ Migrator \notin Sessions
  /\ None \notin Items \cup Kinds
  /\ MaxChanges \in Nat \ {0} /\ LastTick \in Nat

Processes == Sessions \cup {Migrator}

VARIABLES
  kind,        \* the table an id is of, None: not handed out
  base,        \* the change that wrote the row, 0: there is none
  made,        \* updated_at of the row
  removed,     \* soft-deleted items
  texts,       \* the text of an item in a language: by which change, updated_at
  circuits,    \* ritual_substeps of an item
  duas,        \* ritual_duas of an item, each of the circuit made by change of, 0: of the step
  migrated,    \* the migrations that have run
  clock, changes,
  app,         \* the download of each kind the app keeps
  call         \* the requests, and the migration, in flight

tables == <<kind, base, made, removed, texts, circuits, duas>>
contentVars == <<tables, migrated, clock, changes, app, call>>

NoText == [by |-> 0, at |-> 0]
Exists(i) == base[i] # 0
Live(i) == Exists(i) /\ i \notin removed
All(k) == {i \in Items : kind[i] = k /\ Exists(i)}
LiveOf(k) == {i \in All(k) : Live(i)}

-----------------------------------------------------------------------------
(* Requests.  written, seen, dropped and fresh are the texts the open       *)
(* transaction of an edit has upserted and the circuits it has seen,        *)
(* deleted and inserted.  got is what a download has read; first is the     *)
(* last change begun before it, open those in flight then.                  *)

Nothing == [base |-> FALSE, texts |-> <<>>, circuits |-> "kept"]
NoRows == [rows |-> {}, texts |-> {}, circuits |-> {}, told |-> {}, duas |-> {}]
NoCall == [op |-> "idle", at |-> "idle", kind |-> None, item |-> None, change |-> 0,
           began |-> 0, since |-> 0, body |-> Nothing, left |-> <<>>, written |-> {},
           seen |-> {}, dropped |-> {}, fresh |-> {}, first |-> 0, open |-> {}, got |-> NoRows]

Running(s, op, at) == call[s].op = op /\ call[s].at = at
Reply(s) == call' = [call EXCEPT ![s] = NoCall]

NewChange == changes < MaxChanges /\ changes' = changes + 1

InTransaction(s) == call[s].op \in {"create", "update"} /\ call[s].at # "find"

\* Ids nobody has been given.
Fresh == {i \in Items : kind[i] = None /\ \A s \in Processes : call[s].item # i}

\* The rows the transaction of s has written, which others wait for.
HoldsBase(s, i) == /\ InTransaction(s) /\ call[s].item = i
                   /\ call[s].body.base /\ call[s].at # "base"
HoldsText(s, i, l) == call[s].item = i /\ \E w \in call[s].written : w.lang = l
HoldsCircuits(s, i, rows) == call[s].item = i /\ call[s].dropped \cap rows # {}

\* The foreign keys of what it has inserted hold the row of the item as well.
Holds(s, i) == \/ HoldsBase(s, i)
               \/ call[s].item = i /\ call[s].written \cup call[s].dropped \cup call[s].fresh # {}

=============================================================================
