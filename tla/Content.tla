------------------------------ MODULE Content ------------------------------
(***************************************************************************)
(* The app's downloads (mobile/rituals, duas, locations), beside the edits *)
(* of staff and the migrations.  A download is two queries, of rituals six *)
(* (five steps: the texts of du'as are read with them), outside any        *)
(* transaction.  The version it carries is the latest updated_at among     *)
(* what it has read.                                                       *)
(***************************************************************************)
EXTENDS ContentEdits, ContentSeeds

NoApp == [got |-> NoRows, version |-> 0, first |-> 0, last |-> 0, open |-> {}]

InFlight == {call[s].change : s \in Processes} \ {0}

\* findAllOrdered.
FindAll(s, k) ==
  /\ call[s] = NoCall
  /\ call' = [call EXCEPT ![s] = [NoCall EXCEPT !.op = "findAll", !.at = "texts", !.kind = k,
        !.first = changes, !.open = InFlight,
        !.got.rows = {[item |-> i, by |-> base[i], at |-> made[i]] : i \in LiveOf(k)}]]
  /\ UNCHANGED <<tables, migrated, clock, changes, app>>
FindAllRituals(s) == FindAll(s, "ritual")
FindAllDuas(s) == FindAll(s, "dua")
FindAllLocations(s) == FindAll(s, "location")

TextsOf(i) == {[item |-> i, lang |-> l, by |-> texts[i][l].by, at |-> texts[i][l].at] :
                 l \in {l \in Langs : texts[i][l] # NoText}}
CircuitsOf(i) == {[item |-> i, by |-> c.by, at |-> c.at] : c \in circuits[i]}
DuasOf(i) == {[item |-> i, of |-> d.of, by |-> d.by, at |-> d.at] : d \in duas[i]}

Rows(s) == {r.item : r \in call[s].got.rows}

\* computeVersion: the latest updated_at, 0 for none.
Latest(got) ==
  LET stamps == {r.at : r \in got.rows \cup got.texts \cup got.circuits \cup got.told \cup got.duas}
  IN IF stamps = {} THEN 0 ELSE CHOOSE t \in stamps : \A u \in stamps : u <= t

\* The answer, after the last query.
Answer(s, got) ==
  /\ app' = [app EXCEPT ![call[s].kind] =
       [got |-> got, version |-> Latest(got), first |-> call[s].first, last |-> changes,
        open |-> call[s].open]]
  /\ Reply(s)

ReadTexts(s) ==
  /\ Running(s, "findAll", "texts")
  /\ LET got == [call[s].got EXCEPT !.texts = UNION {TextsOf(i) : i \in Rows(s)}]
     IN IF call[s].kind = "ritual"
        THEN /\ call' = [call EXCEPT ![s].at = "circuits", ![s].got = got]
             /\ UNCHANGED app
        ELSE Answer(s, got)
  /\ UNCHANGED <<tables, migrated, clock, changes>>

ReadCircuits(s) ==
  /\ Running(s, "findAll", "circuits")
  /\ call' = [call EXCEPT ![s].at = "told",
                          ![s].got.circuits = UNION {CircuitsOf(i) : i \in Rows(s)}]
  /\ UNCHANGED <<tables, migrated, clock, changes, app>>

\* The texts of the circuits it has read: they go with their circuit.
ReadCircuitTexts(s) ==
  /\ Running(s, "findAll", "told")
  /\ call' = [call EXCEPT ![s].at = "duas",
        ![s].got.told = call[s].got.circuits \cap UNION {CircuitsOf(i) : i \in Items}]
  /\ UNCHANGED <<tables, migrated, clock, changes, app>>

\* ready(): the tables are there once 066 has run.
ReadDuas(s) ==
  /\ Running(s, "findAll", "duas")
  /\ Answer(s, [call[s].got EXCEPT
       !.duas = IF "066" \in migrated THEN UNION {DuasOf(i) : i \in Rows(s)} ELSE {}])
  /\ UNCHANGED <<tables, migrated, clock, changes>>

Downloading(s) == \/ FindAllRituals(s) \/ FindAllDuas(s) \/ FindAllLocations(s)
                  \/ ReadTexts(s) \/ ReadCircuits(s) \/ ReadCircuitTexts(s) \/ ReadDuas(s)

-----------------------------------------------------------------------------

Tick == /\ clock < LastTick /\ clock' = clock + 1
        /\ UNCHANGED <<tables, migrated, changes, app, call>>

\* The processes stop: open transactions roll back.
Restart == /\ call' = [s \in Processes |-> NoCall]
           /\ UNCHANGED <<tables, migrated, clock, changes, app>>

\* Some duas or locations are there from the first seeds, with an English text (053, 056), or a
\* ritual with circuits that staff made, before 060 or after 066.
Init ==
  /\ \E old \in SUBSET Items, k \in Kinds, en \in Langs, done \in {{}, {"060", "063", "066"}} :
       /\ k = "ritual" => Cardinality(old) = 1
       /\ done # {} => k = "ritual"
       /\ migrated = done
       /\ circuits = [i \in Items |->
            IF i \in old /\ k = "ritual" THEN {[by |-> 1, at |-> 0]} ELSE {}]
       /\ kind = [i \in Items |-> IF i \in old THEN k ELSE None]
       /\ base = [i \in Items |-> IF i \in old THEN 1 ELSE 0]
       /\ texts = [i \in Items |-> [l \in Langs |->
                     IF i \in old /\ l = en THEN [by |-> 1, at |-> 0] ELSE NoText]]
  /\ made = [i \in Items |-> 0] /\ removed = {}
  /\ duas = [i \in Items |-> {}]
  /\ clock = 0 /\ changes = 1
  /\ app = [k \in Kinds |-> NoApp]
  /\ call = [s \in Processes |-> NoCall]

Next == \/ Migrating \/ Tick \/ Restart
        \/ \E i \in Items : Remove(i)
        \/ \E s \in Sessions : Editing(s) \/ Downloading(s)

Spec == Init /\ [][Next]_contentVars

-----------------------------------------------------------------------------
(* Properties *)

Stamps == 0..LastTick
Numbers == 0..MaxChanges

\* Numbers and times stay in range, a circuit's du'a has its circuit, and a request says what
\* it is about.
ContentTypeOK ==
  /\ kind \in [Items -> Kinds \cup {None}]
  /\ base \in [Items -> Numbers] /\ made \in [Items -> Stamps]
  /\ removed \subseteq Items
  /\ texts \in [Items -> [Langs -> [by : Numbers, at : Stamps]]]
  /\ \A i \in Items :
       /\ circuits[i] \subseteq [by : Numbers, at : Stamps]
       /\ duas[i] \subseteq [of : Numbers, by : Numbers, at : Stamps]
       /\ \A d \in duas[i] : d.of # 0 => \E c \in circuits[i] : c.by = d.of
       /\ texts[i] # NoTexts \/ circuits[i] # {} => Exists(i)
       /\ Exists(i) => kind[i] # None
  /\ migrated \subseteq Ledger /\ clock \in Stamps /\ changes \in Numbers
  /\ \A s \in Sessions : call[s].op \in {"create", "update"} => call[s].item \in Items

\* Circuits are replaced by a delete and inserts, and the delete does not see what an
\* overlapping replacement inserts, so both lists stay: but never more lists than there are
\* requests, and one of a migration that ran beside them (replaceSubsteps).
ReplacementsBounded ==
  \A i \in Items :
    Cardinality({c.by : c \in circuits[i]})
      <= Cardinality(Sessions) + (IF "063" \in migrated THEN 1 ELSE 0)

\* What a download of kind k would give now.
Stored(k) ==
  LET live == LiveOf(k) IN
    [rows |-> {[item |-> i, by |-> base[i], at |-> made[i]] : i \in live},
     texts |-> UNION {TextsOf(i) : i \in live},
     circuits |-> UNION {CircuitsOf(i) : i \in live},
     told |-> UNION {CircuitsOf(i) : i \in live},
     duas |-> UNION {DuasOf(i) : i \in live}]

\* The queries of a download see different moments, so it may show circuits without texts or
\* texts of two edits.  But whatever is stored and missing in it was written by a change begun
\* after it, or in flight when it began; and when the change began after its last query, its
\* time, if it has one, is not before the version of the download, so that a newer version
\* tells of it (computeVersion; a row that is only updated keeps its time).
MissedIsNewer ==
  \A k \in Kinds :
    LET p == app[k]
        stored == Stored(k)
        missed == UNION {stored[part] \ p.got[part] : part \in DOMAIN stored}
        stamped == UNION {stored[part] \ p.got[part] : part \in DOMAIN stored \ {"rows"}}
    IN /\ \A m \in missed : m.by > p.first \/ m.by \in p.open
       /\ \A m \in stamped : m.by > p.last => m.at >= p.version

=============================================================================
