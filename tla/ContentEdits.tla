--------------------------- MODULE ContentEdits ---------------------------
(***************************************************************************)
(* Staff create, edit and remove rituals, duas and locations               *)
(* (references/rituals, duas, locations).  create and update are one       *)
(* transaction each, a step one statement of it.                           *)
(***************************************************************************)
EXTENDS ContentTables

\* The statement after the row's own: a text for each language of the body, then the circuits.
After(c) == IF c.left # <<>> THEN "texts" ELSE IF c.body.circuits # "kept" THEN "look" ELSE "commit"

Begin(s, op, k, i, body) ==
  /\ call[s] = NoCall
  /\ NewChange
  /\ LET c == [NoCall EXCEPT !.op = op, !.kind = k, !.item = i, !.change = changes',
                             !.began = clock, !.since = clock, !.body = body,
                             !.left = body.texts]
     IN call' = [call EXCEPT ![s] = [c EXCEPT !.at = IF op = "create" THEN After(c) ELSE "find"]]
  /\ UNCHANGED <<tables, migrated, clock, app>>

BodiesOf(k) == IF k = "ritual" THEN Edits ELSE {e \in Edits : e.circuits = "kept"}

\* The insert, of a row nobody else sees, is the first statement.
Create(s, k) == \E i \in Fresh, e \in BodiesOf(k) : e.base /\ Begin(s, "create", k, i, e)
CreateRitual(s) == Create(s, "ritual")
CreateDua(s) == Create(s, "dua")
CreateLocation(s) == Create(s, "location")

Update(s, k) == \E i \in All(k), e \in BodiesOf(k) : Begin(s, "update", k, i, e)
UpdateRitual(s) == Update(s, "ritual")
UpdateDua(s) == Update(s, "dua")
UpdateLocation(s) == Update(s, "location")

-----------------------------------------------------------------------------

FindItem(s) ==
  /\ Running(s, "update", "find")
  /\ IF Live(call[s].item) THEN call' = [call EXCEPT ![s].at = "base"] ELSE Reply(s)
  /\ UNCHANGED <<tables, migrated, clock, changes, app>>

\* updateById, when columns are sent: it waits for whoever has written the row, and writes none
\* when the row has been deleted.
WriteBase(s) ==
  /\ Running(s, "update", "base")
  /\ call[s].body.base => \A t \in Sessions \ {s} : ~HoldsBase(t, call[s].item)
  /\ call' = [call EXCEPT ![s].at = After(call[s]), ![s].since = clock]
  /\ UNCHANGED <<tables, migrated, clock, changes, app>>

\* The row an insert of s refers to is there.
Refers(s) == call[s].op = "create" \/ Exists(call[s].item)

\* Keeps the time of the text it overwrites. \* mutant
UpsertedKeepingTime(s, t) ==
  LET old == texts[call[s].item][Head(call[s].left)]
  IN [lang |-> Head(call[s].left), by |-> call[s].change,
      at |-> IF old = NoText THEN t ELSE old.at]

\* updated_at is the time the statement was sent.
Upserted(s, t) == [lang |-> Head(call[s].left), by |-> call[s].change, at |-> t]

UpsertText(s, t) ==
  /\ InTransaction(s) /\ call[s].at = "texts" /\ t \in call[s].since .. clock
  /\ \A u \in Sessions \ {s} : ~HoldsText(u, call[s].item, Head(call[s].left))
  /\ IF Refers(s)
     THEN LET c == [call[s] EXCEPT !.left = Tail(@), !.since = clock,
                      !.written = {w \in @ : w.lang # Head(call[s].left)} \cup {Upserted(s, t)}]
          IN call' = [call EXCEPT ![s] = [c EXCEPT !.at = After(c)]]
     ELSE Reply(s)
  /\ UNCHANGED <<tables, migrated, clock, changes, app>>

\* deleteByRitual begins: it deletes, of the rows it sees now, those nobody deletes before.
LookAtCircuits(s) ==
  /\ InTransaction(s) /\ call[s].at = "look"
  /\ call' = [call EXCEPT ![s].at = "replace", ![s].seen = circuits[call[s].item]]
  /\ UNCHANGED <<tables, migrated, clock, changes, app>>

\* Inserts without the delete. \* mutant
NoneToDrop(s) == {}

ToDrop(s) == call[s].seen \cap circuits[call[s].item]

ReplaceCircuits(s, t) ==
  /\ InTransaction(s) /\ call[s].at = "replace" /\ t \in call[s].since .. clock
  /\ \A u \in Sessions \ {s} : ~HoldsCircuits(u, call[s].item, call[s].seen)
  /\ \/ /\ call[s].body.circuits = "new" => Refers(s)
        /\ call' = [call EXCEPT ![s].at = "commit", ![s].dropped = ToDrop(s),
                      ![s].fresh = IF call[s].body.circuits = "new"
                                   THEN {[by |-> call[s].change, at |-> t]} ELSE {}]
     \/ /\ call[s].body.circuits = "new" /\ ~Refers(s)
        /\ Reply(s)
  /\ UNCHANGED <<tables, migrated, clock, changes, app>>

\* du'as without a foreign key to their circuit. \* mutant
NotCascaded(rows, kept) == rows

\* du'as go with their circuit (066).
WithCircuits(rows, kept) == {d \in rows : d.of = 0 \/ \E c \in kept : c.by = d.of}

Commit(s) ==
  /\ InTransaction(s) /\ call[s].at = "commit"
  /\ LET c == call[s]
         i == c.item
         kept == (circuits[i] \ c.dropped) \cup c.fresh
         text(l) == CHOOSE w \in c.written : w.lang = l
     IN /\ kind' = [kind EXCEPT ![i] = c.kind]
        /\ base' = IF c.body.base /\ Refers(s) THEN [base EXCEPT ![i] = c.change] ELSE base
        /\ made' = IF c.op = "create" THEN [made EXCEPT ![i] = c.began] ELSE made
        /\ texts' = [texts EXCEPT ![i] = [l \in Langs |->
             IF HoldsText(s, i, l) THEN [by |-> text(l).by, at |-> text(l).at] ELSE @[l]]]
        /\ circuits' = [circuits EXCEPT ![i] = kept]
        /\ duas' = [duas EXCEPT ![i] = WithCircuits(@, kept)]
  /\ Reply(s)
  /\ UNCHANGED <<removed, migrated, clock, changes, app>>

\* A value is too long for its column, or PostgreSQL ends one of two edits that wait for each
\* other: rolled back.
Fail(s) ==
  /\ InTransaction(s)
  /\ Reply(s)
  /\ UNCHANGED <<tables, migrated, clock, changes, app>>

\* BaseDao.deleteById: one statement, which leaves updated_at.
Remove(i) ==
  /\ Exists(i) /\ \A s \in Sessions : ~HoldsBase(s, i)
  /\ NewChange
  /\ removed' = removed \cup {i}
  /\ UNCHANGED <<kind, base, made, texts, circuits, duas, migrated, clock, app, call>>

\* The statements of the request that is served, and the routes by controller.
GoOn(s) == \/ FindItem(s) \/ WriteBase(s) \/ LookAtCircuits(s) \/ Commit(s) \/ Fail(s)
           \/ \E t \in 0..LastTick : UpsertText(s, t) \/ ReplaceCircuits(s, t)
RitualRoutes(s) == CreateRitual(s) \/ UpdateRitual(s)
DuaRoutes(s) == CreateDua(s) \/ UpdateDua(s)
LocationRoutes(s) == CreateLocation(s) \/ UpdateLocation(s)

Editing(s) == RitualRoutes(s) \/ DuaRoutes(s) \/ LocationRoutes(s) \/ GoOn(s)

=============================================================================
