---------------------------- MODULE ContentSeeds ----------------------------
(***************************************************************************)
(* The migrations that fill the content tables.  They are run by hand      *)
(* while the server may be serving, each in a release and a transaction of *)
(* its own.  Rows are matched by their text, which staff may have edited:  *)
(* any live row may match, or none.  One row stands for the list a         *)
(* migration inserts.                                                      *)
(***************************************************************************)
EXTENDS ContentTables

Seeds == [ritual |-> <<"060", "063", "066", "067">>, dua |-> <<"055", "074">>,
          location |-> <<"057", "068">>]
Ledger == UNION {{Seeds[k][n] : n \in DOMAIN Seeds[k]} : k \in Kinds}

\* Migrations run in order; those of another kind touch none of its rows.
IsNext(k, m) == \E n \in DOMAIN Seeds[k] :
  m = Seeds[k][n] /\ migrated \cap {Seeds[k][j] : j \in DOMAIN Seeds[k]} = {Seeds[k][j] : j \in 1..n-1}

BeginMigration ==
  /\ call[Migrator] = NoCall
  /\ NewChange
  /\ \E k \in Kinds, m \in Ledger :
       /\ IsNext(k, m)
       /\ call' = [call EXCEPT ![Migrator] = [NoCall EXCEPT !.op = m, !.at = "run", !.kind = k,
                                                !.change = changes', !.began = clock]]
  /\ UNCHANGED <<tables, migrated, clock, app>>

me == call[Migrator].change
now == call[Migrator].began

Runs(m) == /\ Running(Migrator, m, "run")
           /\ migrated' = migrated \cup {m}
           /\ Reply(Migrator)
           /\ UNCHANGED <<clock, changes, app>>

Seed == [by |-> me, at |-> now]
Seeded == [l \in Langs |-> Seed]
NoTexts == [l \in Langs |-> NoText]

\* The tables after the rows of gone have been deleted, with all that refers to them, and the
\* row new inserted, with the texts t.
Insert(new, gone, k, t) ==
  /\ kind' = [kind EXCEPT ![new] = k]
  /\ base' = [i \in Items |-> IF i = new THEN me ELSE IF i \in gone THEN 0 ELSE base[i]]
  /\ made' = [made EXCEPT ![new] = now]
  /\ texts' = [i \in Items |-> IF i = new THEN t ELSE IF i \in gone THEN NoTexts ELSE texts[i]]

Unheld(rows) == \A i \in rows, s \in Sessions : ~Holds(s, i)
Unwritten(rows) == \A i \in rows, s \in Sessions : ~HoldsBase(s, i)
Untexted(i) == \A s \in Sessions, l \in Langs : ~HoldsText(s, i, l)

-----------------------------------------------------------------------------
(* Rituals *)

\* STEPS of 060: the steps of umrah, in every language.
UmrahSteps == Seeded

SeedRituals ==
  /\ Runs("060")
  /\ \/ /\ LiveOf("ritual") = {}
        /\ \E i \in Fresh : Insert(i, {}, "ritual", UmrahSteps)
     \/ /\ LiveOf("ritual") # {}
        /\ UNCHANGED <<kind, base, made, texts>>
  /\ UNCHANGED <<removed, circuits, duas>>

\* CIRCUITS of 063.
TawafCircuits == {Seed}

\* A ritual that matches gets the circuits of the migration for those it has.
SeedCircuits ==
  /\ Runs("063")
  /\ \/ \E i \in LiveOf("ritual") :
          /\ \A s \in Sessions : ~HoldsCircuits(s, i, circuits[i])
          /\ circuits' = [circuits EXCEPT ![i] = TawafCircuits]
     \/ UNCHANGED circuits
  /\ UNCHANGED <<kind, base, made, removed, texts, duas>>

CreateRitualDuas == Runs("066") /\ UNCHANGED tables

\* STEPS, CIRCUITS and STEP_DUAS of 067, and the duas its circuits bring along.
Steps == Seeded
Circuits == {Seed}
StepDuas == {[of |-> 0, by |-> me, at |-> now]}
CircuitDuas == {[of |-> me, by |-> me, at |-> now]}

\* Full replace.
ReseedRituals ==
  /\ Runs("067")
  /\ Unheld(All("ritual"))
  /\ \E i \in Fresh :
       /\ Insert(i, All("ritual"), "ritual", Steps)
       /\ circuits' = [j \in Items |-> IF j = i THEN Circuits ELSE {}]
       /\ duas' = [j \in Items |-> IF j = i THEN StepDuas \cup CircuitDuas ELSE {}]
  /\ removed' = removed \ All("ritual")

-----------------------------------------------------------------------------
(* Duas *)

\* SEEDS of 055.
GuideDuas == Seeded

\* Not again (the guard looks for one of its own texts); else for the old English ones.
ReseedDuas ==
  /\ Runs("055")
  /\ \/ UNCHANGED <<kind, base, made, texts, removed>>
     \/ \E i \in Fresh, old \in SUBSET All("dua") :
          Unheld(old) /\ Insert(i, old, "dua", GuideDuas) /\ removed' = removed \ old
  /\ UNCHANGED <<circuits, duas>>

\* SEEDS of 074, whose Latin texts withLatin makes, and MASJID, the one it upgrades.
JourneyDuas == Seeded
Masjid == Seeded

\* Renumbers some duas, which leaves their updated_at, upgrades one if it is there, and inserts
\* the others.
SeedJourneyDuas ==
  /\ Runs("074")
  /\ \/ UNCHANGED <<kind, base, made, texts>>
     \/ \E i \in Fresh, up \in LiveOf("dua") \cup {None} :
          \E renumbered \in SUBSET (LiveOf("dua") \ {up}) :
            /\ Unwritten(renumbered)
            /\ up # None => Unwritten({up}) /\ Untexted(up)
            /\ LET written == renumbered \cup {i, up}
               IN /\ kind' = [kind EXCEPT ![i] = "dua"]
                  /\ base' = [j \in Items |-> IF j \in written THEN me ELSE base[j]]
                  /\ made' = [j \in Items |-> IF j \in {i, up} THEN now ELSE made[j]]
                  /\ texts' = [j \in Items |-> IF j = i THEN JourneyDuas
                                             ELSE IF j = up THEN Masjid ELSE texts[j]]
  /\ UNCHANGED <<removed, circuits, duas>>

-----------------------------------------------------------------------------
(* Locations *)

\* SEEDS of 057, with a name in each language.
Places == Seeded

SeedLocations ==
  /\ Runs("057")
  /\ \/ UNCHANGED <<kind, base, made, texts>>
     \/ \E i \in Fresh : Insert(i, {}, "location", Places)
  /\ UNCHANGED <<removed, circuits, duas>>

\* UPDATES and NEW_PLACES of 068.
FixedPlaces == Seeded

\* Soft-deletes the first seed, writes one place anew and inserts another, where they are missing.
FixLocations ==
  /\ Runs("068")
  /\ \E old \in SUBSET LiveOf("location") :
       \E up \in SUBSET (LiveOf("location") \ old), new \in {{}} \cup {{i} : i \in Fresh} :
         /\ Cardinality(up) <= 1
         /\ Unwritten(old \cup up) /\ \A i \in up : Untexted(i)
         /\ removed' = removed \cup old
         /\ kind' = [i \in Items |-> IF i \in new THEN "location" ELSE kind[i]]
         /\ base' = [i \in Items |-> IF i \in up \cup new THEN me ELSE base[i]]
         /\ made' = [i \in Items |-> IF i \in old \cup up \cup new THEN now ELSE made[i]]
         /\ texts' = [i \in Items |-> IF i \in up \cup new THEN FixedPlaces ELSE texts[i]]
  /\ UNCHANGED <<circuits, duas>>

Migrating == \/ BeginMigration
             \/ SeedRituals \/ SeedCircuits \/ CreateRitualDuas \/ ReseedRituals
             \/ ReseedDuas \/ SeedJourneyDuas \/ SeedLocations \/ FixLocations

=============================================================================
