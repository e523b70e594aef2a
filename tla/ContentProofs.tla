---------------------------- MODULE ContentProofs ----------------------------
(***************************************************************************)
(* Theorems about Content, for any items, languages and bodies, any number *)
(* of changes and any finite set of sessions.                              *)
(***************************************************************************)
EXTENDS Content, TLAPS, FiniteSetTheorems, WellFoundedInduction

-----------------------------------------------------------------------------
(* Types *)

CircuitRows == [by : Numbers, at : Stamps]
DuaRows == [of : Numbers, by : Numbers, at : Stamps]
TextRows == [lang : Langs, by : Numbers, at : Stamps]

Gots == [rows : SUBSET [item : Items, by : Numbers, at : Stamps],
         texts : SUBSET [item : Items, lang : Langs, by : Numbers, at : Stamps],
         circuits : SUBSET [item : Items, by : Numbers, at : Stamps],
         told : SUBSET [item : Items, by : Numbers, at : Stamps],
         duas : SUBSET [item : Items, of : Numbers, by : Numbers, at : Stamps]]

Ats == {"idle", "find", "base", "texts", "look", "replace", "commit",
        "circuits", "told", "duas", "run"}

Calls == [op : {"idle", "create", "update", "findAll"} \cup Ledger,
          at : Ats, kind : Kinds \cup {None}, item : Items \cup {None},
          change : Numbers, began : Stamps, since : Stamps, body : Bodies, left : Seq(Langs),
          written : SUBSET TextRows, seen : SUBSET CircuitRows, dropped : SUBSET CircuitRows,
          fresh : SUBSET CircuitRows, first : Numbers, open : SUBSET Numbers, got : Gots]

Types ==
  /\ kind \in [Items -> Kinds \cup {None}]
  /\ base \in [Items -> Numbers] /\ made \in [Items -> Stamps] /\ removed \subseteq Items
  /\ texts \in [Items -> [Langs -> CircuitRows]]
  /\ circuits \in [Items -> SUBSET CircuitRows] /\ duas \in [Items -> SUBSET DuaRows]
  /\ migrated \subseteq Ledger /\ clock \in Stamps /\ changes \in Numbers
  /\ call \in [Processes -> Calls]

-----------------------------------------------------------------------------
(* What the tables hold: nothing of an item that is not there, circuits    *)
(* and du'as of rituals only, du'as of circuits that are there, and no     *)
(* change or time that is still to come.                                   *)

Past(n, t) == n \in 1..changes /\ t <= clock

ItemFine(i) ==
  /\ base[i] <= changes /\ made[i] <= clock
  /\ \A l \in Langs : texts[i][l] = NoText \/ Past(texts[i][l].by, texts[i][l].at)
  /\ \A c \in circuits[i] : Past(c.by, c.at)
  /\ \A d \in duas[i] : /\ Past(d.by, d.at)
                        /\ d.of # 0 => \E c \in circuits[i] : c.by = d.of
  /\ Exists(i) => kind[i] # None
  /\ ~Exists(i) => texts[i] = NoTexts /\ circuits[i] = {} /\ duas[i] = {}
  /\ circuits[i] # {} \/ duas[i] # {} => kind[i] = "ritual"
  /\ duas[i] # {} => {"066", "067"} \subseteq migrated

\* A request of a session.  An item that a transaction has written to is there: its row is held.
Written(c) == c.written # {} \/ c.dropped # {} \/ c.fresh # {}

Fine(c) ==
  /\ c.op \in {"idle", "findAll", "create", "update"}
  /\ c.op \in {"idle", "findAll"} => c.item = None /\ c.change = 0
  /\ c.op \in {"create", "update"} =>
       c.item \in Items /\ c.kind \in Kinds /\ c.change \in 1..changes
  /\ c.op = "create" => kind[c.item] = None /\ c.body.base /\ c.at \notin {"find", "base"}
  /\ c.op = "update" => kind[c.item] = c.kind /\ (Written(c) => Exists(c.item))
  /\ c.op \in {"create", "update"} /\ c.at = "texts" => c.left # <<>>
  /\ c.body.circuits # "kept" => c.kind = "ritual"
  /\ c.fresh # {} => c.body.circuits = "new"
  /\ c.at \notin {"replace", "commit"} \/ c.body.circuits = "kept" =>
       c.seen = {} /\ c.dropped = {} /\ c.fresh = {}
  /\ c.at \in {"look", "replace"} => c.body.circuits # "kept"
  /\ c.at = "replace" => c.dropped = {} /\ c.fresh = {}
  /\ \A r \in c.written \cup c.fresh : r.by = c.change /\ r.at \in c.began .. clock
  /\ c.began <= c.since /\ c.since <= clock

\* The migration in flight.
MigrationFine(c) ==
  /\ c.op \in {"idle"} \cup Ledger
  /\ c.item = None /\ c.began <= clock
  /\ IF c.op = "idle" THEN c.change = 0 ELSE c.change \in 1..changes
  /\ c.op = "063" => "067" \notin migrated
  /\ c.op = "067" => {"063", "066"} \subseteq migrated

\* Changes have numbers of their own, and a row that is created is nobody else's.
Apart ==
  \A t \in Processes : \A u \in Processes \ {t} :
    /\ call[t].change # 0 => call[u].change # call[t].change
    /\ call[t].op = "create" => call[u].item # call[t].item

Fit == /\ Types
       /\ \A i \in Items : ItemFine(i)
       /\ \A s \in Sessions : Fine(call[s])
       /\ MigrationFine(call[Migrator])
       /\ Apart

-----------------------------------------------------------------------------
(* Small facts *)

LEMMA Strings == Ledger = {"060", "063", "066", "067", "055", "074", "057", "068"}
  <1>1. Ledger = {Seeds["ritual"][n] : n \in 1..4} \cup {Seeds["dua"][n] : n \in 1..2}
                   \cup {Seeds["location"][n] : n \in 1..2}
    BY DEF Ledger, Kinds, Seeds
  <1> QED BY <1>1 DEF Seeds

LEMMA InOrder ==
  ASSUME NEW k \in Kinds, NEW m \in Ledger, IsNext(k, m)
  PROVE  /\ m = "063" => "067" \notin migrated
         /\ m = "067" => {"063", "066"} \subseteq migrated
  <1>1. PICK n \in DOMAIN Seeds[k] : /\ m = Seeds[k][n]
            /\ migrated \cap {Seeds[k][j] : j \in DOMAIN Seeds[k]} = {Seeds[k][j] : j \in 1..n-1}
    BY DEF IsNext
  <1>2. CASE k = "ritual"
    <2>1. DOMAIN Seeds[k] = 1..4 /\ Seeds[k][1] = "060" /\ Seeds[k][2] = "063"
            /\ Seeds[k][3] = "066" /\ Seeds[k][4] = "067"
      BY <1>2 DEF Seeds
    <2>2. n \in {1, 2, 3, 4} BY <2>1
    <2>3. m = "063" => n = 2 BY <1>1, <2>1, <2>2
    <2>4. m = "067" => n = 4 BY <1>1, <2>1, <2>2
    <2> QED BY <1>1, <2>1, <2>3, <2>4
  <1>3. CASE k = "dua" BY <1>1, <1>3 DEF Seeds
  <1>4. CASE k = "location" BY <1>1, <1>4 DEF Seeds
  <1> QED BY <1>2, <1>3, <1>4 DEF Kinds

LEMMA Sequences ==
  /\ <<>> \in Seq(Langs)
  /\ \A s \in Seq(Langs) : s # <<>> => Head(s) \in Langs /\ Tail(s) \in Seq(Langs)
  OBVIOUS

\* A call with another value of a field is a call.
LEMMA UpdatedCall ==
  ASSUME NEW c \in Calls
  PROVE  /\ \A x \in Ats : [c EXCEPT !.at = x] \in Calls
         /\ \A x \in Stamps : [c EXCEPT !.since = x] \in Calls
         /\ \A x \in Seq(Langs) : [c EXCEPT !.left = x] \in Calls
         /\ \A x \in SUBSET TextRows : [c EXCEPT !.written = x] \in Calls
         /\ \A x \in SUBSET CircuitRows : /\ [c EXCEPT !.seen = x] \in Calls
                                          /\ [c EXCEPT !.dropped = x] \in Calls
                                          /\ [c EXCEPT !.fresh = x] \in Calls
         /\ \A x \in Gots : [c EXCEPT !.got = x] \in Calls
  BY DEF Calls

\* Some time of a set is the latest.
LEMMA SomeLatest ==
  ASSUME NEW T, NEW n \in Nat, T \subseteq 0..n, T # {}
  PROVE  \E t \in T : \A u \in T : u <= t
  <1> DEFINE D == {n - t : t \in T}
  <1>0. \A t \in T : t \in Nat /\ n - t \in Nat
    <2>1. ASSUME NEW t \in T PROVE t \in Nat /\ n - t \in Nat
      <3>1. t \in 0..n OBVIOUS
      <3> QED BY <3>1
    <2> QED BY <2>1
  <1>1. D \subseteq Nat /\ D # {} BY <1>0
  <1>2. IsWellFoundedOn(OpToRel(<, Nat), Nat) BY NatLessThanWellFounded
  <1>3. \E x \in D : \A y \in D : ~ (<<y, x>> \in OpToRel(<, Nat))
    <2> HIDE DEF D
    <2> QED BY <1>1, <1>2, WFMin
  <1>4. PICK x \in D : \A y \in D : ~ (y < x)
    BY <1>1, <1>3 DEF OpToRel
  <1>5. PICK t \in T : x = n - t BY <1>4
  <1>6. ASSUME NEW u \in T PROVE u <= t
    <2>1. ~ (n - u < n - t) BY <1>4, <1>5
    <2>2. t \in Nat /\ u \in Nat BY <1>0
    <2> HIDE DEF D
    <2> QED BY <2>1, <2>2
  <1> QED BY <1>6

-----------------------------------------------------------------------------
(* Steps of requests that change no table *)

LEMMA NobodyCalls ==
  ASSUME Types
  PROVE  NoCall \in Calls /\ Fine(NoCall) /\ MigrationFine(NoCall)
  <1>1. NoCall.got \in Gots BY DEF NoCall, NoRows, Gots
  <1>2. NoCall.body \in Bodies BY Sequences DEF NoCall, Nothing, Bodies
  <1>3. 0 \in Numbers /\ 0 \in Stamps BY ContentAssumption DEF Numbers, Stamps
  <1>4. NoCall \in Calls
    BY <1>1, <1>2, <1>3, Sequences DEF NoCall, Calls, Ats
  <1>5. clock \in Nat BY ContentAssumption DEF Types, Stamps
  <1> QED BY <1>4, <1>5 DEF NoCall, Nothing, Fine, MigrationFine

\* The call of a session changes, the tables stay.
Moves(s, c) == /\ call' = [call EXCEPT ![s] = c]
               /\ UNCHANGED <<tables, migrated, clock, changes>>

\* It is over, or it is the same one.
SameCall(c, d) == \/ c.op \in {"idle", "findAll"}
                  \/ c.op = d.op /\ c.item = d.item /\ c.change = d.change

LEMMA ProcessOf ==
  ASSUME NEW s \in Sessions
  PROVE  s \in Processes /\ s # Migrator /\ Migrator \in Processes
  BY ContentAssumption DEF Processes

LEMMA MovesFit ==
  ASSUME Fit, NEW s \in Sessions, NEW c \in Calls, Moves(s, c), Fine(c), SameCall(c, call[s])
  PROVE  Fit'
  <1>1. Types' BY ProcessOf DEF Fit, Types, Moves, tables
  <1>2. \A i \in Items : ItemFine(i)' BY DEF Fit, Moves, tables, ItemFine, Past, Exists
  <1>3. \A d : /\ Fine(d)' <=> Fine(d)
               /\ MigrationFine(d)' <=> MigrationFine(d)
    BY DEF Moves, tables, Fine, MigrationFine, Exists
  <1>4. ASSUME NEW t \in Sessions PROVE Fine(call[t])'
    <2>1. PICK d : d = call'[t] OBVIOUS
    <2>2. Fine(d) BY <2>1, ProcessOf DEF Fit, Types, Moves
    <2>3. Fine(d)' BY <2>2, <1>3
    <2> QED BY <2>1, <2>3 DEF Fine, Exists, Written
  <1>5. MigrationFine(call[Migrator])'
    BY ProcessOf DEF Fit, Types, Moves, MigrationFine
  <1>6. Apart'
    <2>1. Fine(call[s]) BY DEF Fit
    <2>2. c.op \in {"idle", "findAll"} => c.item = None /\ c.change = 0 BY DEF Fine
    <2>3. \A t \in Processes \ {s} : call'[t] = call[t] BY DEF Fit, Types, Moves
    <2>4. call'[s] = c BY ProcessOf DEF Fit, Types, Moves
    <2>5. \A t \in Processes : call[t].op = "create" => call[t].item # None
      <3>1. \A t \in Sessions : call[t].op = "create" => call[t].item # None
        BY ContentAssumption DEF Fit, Fine
      <3>2. call[Migrator].op # "create" BY Strings DEF Fit, MigrationFine
      <3> QED BY <3>1, <3>2 DEF Processes
    <2> QED BY <2>2, <2>3, <2>4, <2>5 DEF Fit, Apart, SameCall
  <1> QED BY <1>1, <1>2, <1>4, <1>5, <1>6 DEF Fit

LEMMA OverFits == ASSUME Fit, NEW s \in Sessions, Moves(s, NoCall) PROVE Fit'
  BY NobodyCalls, MovesFit DEF Fit, SameCall, NoCall

LEMMA CallOf ==
  ASSUME Fit, NEW s \in Sessions
  PROVE  call[s] \in Calls /\ Fine(call[s])
  BY ProcessOf DEF Fit, Types

LEMMA Times ==
  ASSUME Types
  PROVE  /\ clock \in Nat /\ LastTick \in Nat /\ clock <= LastTick
         /\ changes \in Nat /\ changes <= MaxChanges /\ MaxChanges \in Nat \ {0}
  BY ContentAssumption DEF Types, Stamps, Numbers

LEMMA FindItemFits == ASSUME Fit, NEW s \in Sessions, FindItem(s) PROVE Fit'
  <1>1. CASE Live(call[s].item)
    <2> DEFINE c == [call[s] EXCEPT !.at = "base"]
    <2>1. c \in Calls BY CallOf, UpdatedCall DEF Ats
    <2>2. Moves(s, c) BY <1>1 DEF FindItem, Moves
    <2>3. Fine(c) BY CallOf DEF FindItem, Running, Fine, Calls, Written
    <2>4. SameCall(c, call[s]) BY CallOf DEF SameCall, Calls
    <2> QED BY <2>1, <2>2, <2>3, <2>4, MovesFit
  <1>2. CASE ~Live(call[s].item)
    BY <1>2, OverFits DEF FindItem, Moves, Reply
  <1> QED BY <1>1, <1>2

LEMMA AfterAt ==
  ASSUME NEW c
  PROVE  /\ After(c) \in {"texts", "look", "commit"}
         /\ After(c) = "texts" => c.left # <<>>
         /\ c.body.circuits = "kept" => After(c) # "look"
         /\ After(c) = "commit" => c.body.circuits = "kept"
  BY DEF After

LEMMA WriteBaseFits == ASSUME Fit, NEW s \in Sessions, WriteBase(s) PROVE Fit'
  <1> DEFINE c == [call[s] EXCEPT !.at = After(call[s]), !.since = clock]
  <1>1. c \in Calls
    <2>1. clock \in Stamps BY DEF Fit, Types
    <2>2. PICK at \in {"texts", "look", "commit"} : at = After(call[s]) BY AfterAt
    <2>3. [[call[s] EXCEPT !.at = at] EXCEPT !.since = clock] \in Calls
      BY <2>1, <2>2, CallOf, UpdatedCall DEF Ats
    <2> QED BY <2>2, <2>3, CallOf DEF Calls
  <1>2. Moves(s, c) BY DEF WriteBase, Moves
  <1>3. Fine(c)
    <2>1. /\ c.op = call[s].op /\ c.item = call[s].item /\ c.kind = call[s].kind
          /\ c.change = call[s].change /\ c.body = call[s].body /\ c.written = call[s].written
          /\ c.seen = call[s].seen /\ c.dropped = call[s].dropped /\ c.fresh = call[s].fresh
          /\ c.began = call[s].began /\ c.since = clock /\ c.at = After(call[s])
          /\ c.left = call[s].left
      BY CallOf DEF Calls
    <2>2. call[s].began <= clock
      BY CallOf, Times DEF Fit, Fine, Calls, Stamps
    <2>3. call[s].op = "update" /\ call[s].at = "base" BY DEF WriteBase, Running
    <2>4. call[s].seen = {} /\ call[s].dropped = {} /\ call[s].fresh = {}
      BY <2>3, CallOf DEF Fine
    <2>5. Written(c) <=> Written(call[s]) BY <2>1 DEF Written
    <2> HIDE DEF c
    <2> QED BY <2>1, <2>2, <2>3, <2>4, <2>5, CallOf, AfterAt, Times DEF Fine, Fit
  <1>4. SameCall(c, call[s]) BY CallOf DEF SameCall, Calls
  <1> QED BY <1>1, <1>2, <1>3, <1>4, MovesFit

\* What a statement of a request leaves as it was.
SameFields(c, d) ==
  /\ c.op = d.op /\ c.item = d.item /\ c.kind = d.kind /\ c.change = d.change
  /\ c.body = d.body /\ c.began = d.began

LEMMA UpsertTextFits ==
  ASSUME Fit, NEW s \in Sessions, NEW t \in 0..LastTick, UpsertText(s, t)
  PROVE  Fit'
  <1> DEFINE w == {r \in call[s].written : r.lang # Head(call[s].left)} \cup {Upserted(s, t)}
             c0 == [call[s] EXCEPT !.left = Tail(@), !.since = clock, !.written = w]
             c == [c0 EXCEPT !.at = After(c0)]
  <1>1. /\ call[s].op \in {"create", "update"} /\ call[s].at = "texts"
        /\ call[s].left # <<>> /\ call[s].left \in Seq(Langs) /\ call[s].body \in Bodies
        /\ call[s].change \in Numbers /\ call[s].written \subseteq TextRows
        /\ call[s].began \in Nat /\ call[s].since \in Nat /\ call[s].began <= call[s].since
    BY CallOf, Times DEF UpsertText, InTransaction, Fine, Calls, Stamps
  <1>2. t \in Stamps /\ t <= clock /\ call[s].began <= t /\ clock \in Stamps
    BY <1>1, Times DEF UpsertText, Stamps, Fit, Types
  <1>3. w \subseteq TextRows
    BY <1>1, <1>2, Sequences DEF Upserted, TextRows
  <1>4. CASE Refers(s)
    <2>1. c0 \in Calls
      <3>1. [[[call[s] EXCEPT !.left = Tail(@)] EXCEPT !.since = clock] EXCEPT !.written = w]
               \in Calls
        <4>1. Tail(call[s].left) \in Seq(Langs) BY <1>1, Sequences
        <4> HIDE DEF w
        <4> QED BY <1>2, <1>3, <4>1, CallOf, UpdatedCall
      <3> HIDE DEF w
      <3> QED BY <3>1, CallOf DEF Calls
    <2>2. /\ c0.seen = call[s].seen /\ c0.dropped = call[s].dropped /\ c0.fresh = call[s].fresh
          /\ SameFields(c0, call[s]) /\ c0.since = clock /\ c0.written = w
      <3> HIDE DEF w
      <3> QED BY CallOf DEF Calls, SameFields
    <2> HIDE DEF c0
    <2>3. c \in Calls
      <3>1. PICK at \in Ats : at = After(c0) BY AfterAt DEF Ats
      <3> QED BY <2>1, <3>1, UpdatedCall
    <2>4. /\ c.seen = call[s].seen /\ c.dropped = call[s].dropped /\ c.fresh = call[s].fresh
          /\ SameFields(c, call[s]) /\ c.since = clock /\ c.written = w
          /\ c.at = After(c0) /\ c.left = c0.left
      BY <2>1, <2>2 DEF Calls, SameFields
    <2>5. Moves(s, c) BY <1>4 DEF UpsertText, Moves, c0
    <2>6. call[s].seen = {} /\ call[s].dropped = {} /\ call[s].fresh = {}
      BY <1>1, CallOf DEF Fine
    <2>7. \A r \in w : r.by = call[s].change /\ r.at \in call[s].began .. clock
      BY <1>1, <1>2, Times, CallOf DEF Upserted, Fine, Stamps
    <2>8. call[s].op = "update" => Exists(call[s].item) BY <1>1, <1>4 DEF Refers
    <2>9. /\ c.at \in {"texts", "look", "commit"}
          /\ c.at = "texts" => c.left # <<>>
          /\ c.body.circuits = "kept" => c.at # "look"
          /\ c.at = "commit" => c.body.circuits = "kept"
      BY <2>2, <2>4, AfterAt DEF SameFields
    <2> HIDE DEF c, w
    <2>10. Fine(c)
      <3>1. c.began <= c.since /\ c.since <= clock
        BY <1>1, <1>2, <2>4, Times DEF SameFields, Fit, Stamps
      <3>2. c.fresh = {} /\ c.seen = {} /\ c.dropped = {} BY <2>4, <2>6
      <3>3. \A r \in c.written \cup c.fresh : r.by = c.change /\ r.at \in c.began .. clock
        BY <2>4, <2>7, <3>2 DEF SameFields
      <3>4. c.at # "replace" /\ c.at # "find" /\ c.at # "base" BY <2>9
      <3> QED BY <1>1, <2>4, <2>8, <2>9, <3>1, <3>2, <3>3, <3>4, CallOf DEF Fine, SameFields
    <2>11. SameCall(c, call[s]) BY <1>1, <2>4 DEF SameCall, SameFields
    <2> QED BY <2>3, <2>5, <2>10, <2>11, MovesFit
  <1>5. CASE ~Refers(s)
    BY <1>5, OverFits DEF UpsertText, Moves, Reply
  <1> QED BY <1>4, <1>5

LEMMA LookAtCircuitsFits ==
  ASSUME Fit, NEW s \in Sessions, LookAtCircuits(s)
  PROVE  Fit'
  <1> DEFINE i == call[s].item
             c == [call[s] EXCEPT !.at = "replace", !.seen = circuits[i]]
  <1>1. /\ call[s].op \in {"create", "update"} /\ call[s].at = "look"
        /\ call[s].dropped = {} /\ call[s].fresh = {} /\ i \in Items
    BY CallOf DEF LookAtCircuits, InTransaction, Fine
  <1>2. call[s].body.circuits # "kept" BY <1>1, CallOf DEF Fine
  <1>3. circuits[i] \subseteq CircuitRows BY <1>1 DEF Fit, Types
  <1>4. c \in Calls
    <2>1. [[call[s] EXCEPT !.at = "replace"] EXCEPT !.seen = circuits[i]] \in Calls
      BY <1>3, CallOf, UpdatedCall DEF Ats
    <2> QED BY <2>1, CallOf DEF Calls
  <1>5. /\ SameFields(c, call[s]) /\ c.since = call[s].since /\ c.written = call[s].written
        /\ c.dropped = call[s].dropped /\ c.fresh = call[s].fresh /\ c.at = "replace"
    BY CallOf DEF Calls, SameFields
  <1>6. Moves(s, c) BY DEF LookAtCircuits, Moves
  <1> HIDE DEF c, i
  <1>7. Fine(c) BY <1>1, <1>2, <1>5, CallOf DEF Fine, SameFields, Written
  <1>8. SameCall(c, call[s]) BY <1>5 DEF SameCall, SameFields
  <1> QED BY <1>4, <1>6, <1>7, <1>8, MovesFit

LEMMA ReplaceCircuitsFits ==
  ASSUME Fit, NEW s \in Sessions, NEW t \in 0..LastTick, ReplaceCircuits(s, t)
  PROVE  Fit'
  <1> DEFINE new == IF call[s].body.circuits = "new"
                    THEN {[by |-> call[s].change, at |-> t]} ELSE {}
             c == [call[s] EXCEPT !.at = "commit", !.dropped = ToDrop(s), !.fresh = new]
  <1>1. /\ call[s].op \in {"create", "update"} /\ call[s].at = "replace"
        /\ call[s].body.circuits # "kept" /\ call[s].item \in Items
        /\ call[s].change \in Numbers /\ call[s].seen \subseteq CircuitRows
        /\ call[s].began \in Nat /\ call[s].since \in Nat /\ call[s].began <= call[s].since
    BY CallOf, Times DEF ReplaceCircuits, InTransaction, Fine, Calls, Stamps
  <1>2. t \in Stamps /\ t <= clock /\ call[s].began <= t /\ clock \in Nat
    BY <1>1, Times DEF ReplaceCircuits, Stamps, Fit
  <1>3. ToDrop(s) \subseteq CircuitRows /\ new \subseteq CircuitRows
    BY <1>1, <1>2 DEF ToDrop, CircuitRows
  <1>4. CASE call[s].body.circuits = "new" => Refers(s)
    <2>1. CASE call' = [call EXCEPT ![s] = c]
      <3>1. c \in Calls
        <4>1. [[[call[s] EXCEPT !.at = "commit"] EXCEPT !.dropped = ToDrop(s)]
                 EXCEPT !.fresh = new] \in Calls
          <5> HIDE DEF new
          <5> QED BY <1>3, CallOf, UpdatedCall DEF Ats
        <4> HIDE DEF new
        <4> QED BY <4>1, CallOf DEF Calls
      <3>2. /\ SameFields(c, call[s]) /\ c.since = call[s].since /\ c.written = call[s].written
            /\ c.seen = call[s].seen /\ c.dropped = ToDrop(s) /\ c.fresh = new /\ c.at = "commit"
        <4> HIDE DEF new
        <4> QED BY CallOf DEF Calls, SameFields
      <3>3. Moves(s, c) BY <2>1 DEF ReplaceCircuits, Moves
      <3>4. call[s].op = "update" /\ (ToDrop(s) # {} \/ new # {}) => Exists(call[s].item)
        <4>1. ToDrop(s) # {} => circuits[call[s].item] # {} BY DEF ToDrop
        <4>2. ToDrop(s) # {} => Exists(call[s].item) BY <1>1, <4>1 DEF Fit, ItemFine
        <4> QED BY <1>4, <4>2 DEF Refers
      <3>5. \A r \in new : r.by = call[s].change /\ r.at \in call[s].began .. clock
        BY <1>1, <1>2, Times DEF Stamps, Fit
      <3>6. new # {} => call[s].body.circuits = "new" OBVIOUS
      <3> HIDE DEF c, new
      <3>7. Fine(c)
        BY <1>1, <3>2, <3>4, <3>5, <3>6, CallOf DEF Fine, SameFields, Written
      <3>8. SameCall(c, call[s]) BY <3>2 DEF SameCall, SameFields
      <3> QED BY <3>1, <3>3, <3>7, <3>8, MovesFit
    <2> QED BY <1>4, <2>1 DEF ReplaceCircuits
  <1>5. CASE ~(call[s].body.circuits = "new" => Refers(s))
    BY <1>5, OverFits DEF ReplaceCircuits, Moves, Reply
  <1> QED BY <1>4, <1>5

LEMMA FailFits == ASSUME Fit, NEW s \in Sessions, Fail(s) PROVE Fit'
  BY OverFits DEF Fail, Moves, Reply

-----------------------------------------------------------------------------
(* Downloads *)

LEMMA RowTypes ==
  ASSUME Types, NEW i \in Items
  PROVE  /\ [item |-> i, by |-> base[i], at |-> made[i]]
              \in [item : Items, by : Numbers, at : Stamps]
         /\ TextsOf(i) \subseteq [item : Items, lang : Langs, by : Numbers, at : Stamps]
         /\ CircuitsOf(i) \subseteq [item : Items, by : Numbers, at : Stamps]
         /\ DuasOf(i) \subseteq [item : Items, of : Numbers, by : Numbers, at : Stamps]
  <1>1. \A l \in Langs : texts[i][l].by \in Numbers /\ texts[i][l].at \in Stamps
    BY DEF Types, CircuitRows
  <1>2. \A c \in circuits[i] : c.by \in Numbers /\ c.at \in Stamps
    BY DEF Types, CircuitRows
  <1>3. \A d \in duas[i] : d.of \in Numbers /\ d.by \in Numbers /\ d.at \in Stamps
    BY DEF Types, DuaRows
  <1>4. base[i] \in Numbers /\ made[i] \in Stamps BY DEF Types
  <1> QED BY <1>1, <1>2, <1>3, <1>4 DEF TextsOf, CircuitsOf, DuasOf

LEMMA GotTypes ==
  ASSUME Fit, NEW s \in Sessions
  PROVE  /\ call[s].got \in Gots /\ Rows(s) \subseteq Items
         /\ \A x \in SUBSET [item : Items, by : Numbers, at : Stamps] :
              /\ [call[s].got EXCEPT !.rows = x] \in Gots
              /\ [call[s].got EXCEPT !.circuits = x] \in Gots
              /\ [call[s].got EXCEPT !.told = x] \in Gots
         /\ \A x \in SUBSET [item : Items, lang : Langs, by : Numbers, at : Stamps] :
              [call[s].got EXCEPT !.texts = x] \in Gots
         /\ \A x \in SUBSET [item : Items, of : Numbers, by : Numbers, at : Stamps] :
              [call[s].got EXCEPT !.duas = x] \in Gots
  <1>1. call[s].got \in Gots BY CallOf DEF Calls
  <1>2. Rows(s) \subseteq Items BY <1>1 DEF Gots, Rows
  <1> QED BY <1>1, <1>2 DEF Gots

\* A download has changed nothing.
LEMMA DownloadFine ==
  ASSUME Fit, NEW c, NEW s \in Sessions, Fine(call[s]), SameFields(c, call[s]), c.op = "findAll",
         c.at \notin {"replace", "commit", "look"}, c.since = call[s].since,
         call[s].at \notin {"replace", "commit"},
         c.seen = call[s].seen, c.dropped = call[s].dropped, c.fresh = call[s].fresh,
         c.written = call[s].written
  PROVE  Fine(c)
  BY DEF Fine, SameFields, Written

LEMMA GoOnReading ==
  ASSUME Fit, NEW s \in Sessions, call[s].op = "findAll",
         call[s].at \in {"texts", "circuits", "told"},
         NEW at \in {"circuits", "told", "duas"}, NEW got \in Gots,
         Moves(s, [call[s] EXCEPT !.at = at, !.got = got])
  PROVE  Fit'
  <1> DEFINE c == [call[s] EXCEPT !.at = at, !.got = got]
  <1>1. c \in Calls
    <2>1. [[call[s] EXCEPT !.at = at] EXCEPT !.got = got] \in Calls
      BY CallOf, UpdatedCall DEF Ats
    <2> QED BY <2>1, CallOf DEF Calls
  <1>2. /\ SameFields(c, call[s]) /\ c.since = call[s].since /\ c.written = call[s].written
        /\ c.seen = call[s].seen /\ c.dropped = call[s].dropped /\ c.fresh = call[s].fresh
        /\ c.at = at
    BY CallOf DEF Calls, SameFields
  <1>3. Moves(s, c) OBVIOUS
  <1> HIDE DEF c
  <1>4. Fine(c)
    <2>1. c.op = "findAll" BY <1>2 DEF SameFields
    <2>2. c.at \notin {"replace", "commit", "look"} BY <1>2
    <2> QED BY <1>2, <2>1, <2>2, CallOf, DownloadFine
  <1>5. SameCall(c, call[s]) BY <1>2 DEF SameCall, SameFields
  <1> QED BY <1>1, <1>3, <1>4, <1>5, MovesFit

LEMMA FindAllFits ==
  ASSUME Fit, NEW s \in Sessions, NEW k \in Kinds, FindAll(s, k)
  PROVE  Fit'
  <1> DEFINE rows == {[item |-> i, by |-> base[i], at |-> made[i]] : i \in LiveOf(k)}
             got == [NoRows EXCEPT !.rows = rows]
             c == [NoCall EXCEPT !.op = "findAll", !.at = "texts", !.kind = k,
                     !.first = changes, !.open = InFlight, !.got = got]
  <1>1. rows \subseteq [item : Items, by : Numbers, at : Stamps]
    BY RowTypes DEF LiveOf, All, Fit
  <1>2. got \in Gots
    <2> HIDE DEF rows
    <2> QED BY <1>1 DEF NoRows, Gots
  <1>3. InFlight \subseteq Numbers /\ changes \in Numbers
    BY DEF InFlight, Fit, Types, Calls
  <1>4. c \in Calls
    <2> HIDE DEF got
    <2>1. NoCall \in Calls BY NobodyCalls DEF Fit
    <2> QED BY <1>2, <1>3, <2>1 DEF Calls, Ats
  <1>5. Moves(s, c)
    BY DEF FindAll, Moves, NoCall
  <1>6. /\ c.op = "findAll" /\ c.item = None /\ c.change = 0 /\ c.at = "texts"
        /\ c.body.circuits = "kept" /\ c.seen = {} /\ c.dropped = {} /\ c.fresh = {}
        /\ c.written = {} /\ c.began = 0 /\ c.since = 0
    BY DEF NoCall, Nothing
  <1> HIDE DEF c
  <1>7. clock \in Nat BY Times DEF Fit
  <1>8. Fine(c) BY <1>6, <1>7 DEF Fine
  <1> QED BY <1>4, <1>5, <1>6, <1>8, MovesFit DEF SameCall

LEMMA ReadTextsFits == ASSUME Fit, NEW s \in Sessions, ReadTexts(s) PROVE Fit'
  <1>1. CASE call[s].kind = "ritual"
    <2> DEFINE x == UNION {TextsOf(i) : i \in Rows(s)}
    <2>1. x \subseteq [item : Items, lang : Langs, by : Numbers, at : Stamps]
      BY GotTypes, RowTypes DEF Fit
    <2>2. [call[s].got EXCEPT !.texts = x] \in Gots BY <2>1, GotTypes
    <2>3. Moves(s, [call[s] EXCEPT !.at = "circuits", !.got = [call[s].got EXCEPT !.texts = x]])
      BY <1>1, CallOf DEF ReadTexts, Moves, Calls
    <2> HIDE DEF x
    <2> QED BY <2>2, <2>3, GoOnReading DEF ReadTexts, Running
  <1>2. CASE call[s].kind # "ritual"
    BY <1>2, OverFits DEF ReadTexts, Answer, Reply, Moves
  <1> QED BY <1>1, <1>2

LEMMA ReadCircuitsFits == ASSUME Fit, NEW s \in Sessions, ReadCircuits(s) PROVE Fit'
  <1> DEFINE x == UNION {CircuitsOf(i) : i \in Rows(s)}
  <1>1. x \subseteq [item : Items, by : Numbers, at : Stamps]
    BY GotTypes, RowTypes DEF Fit
  <1>2. [call[s].got EXCEPT !.circuits = x] \in Gots BY <1>1, GotTypes
  <1>3. Moves(s, [call[s] EXCEPT !.at = "told", !.got = [call[s].got EXCEPT !.circuits = x]])
    BY CallOf DEF ReadCircuits, Moves, Calls
  <1> HIDE DEF x
  <1> QED BY <1>2, <1>3, GoOnReading DEF ReadCircuits, Running

LEMMA ReadCircuitTextsFits == ASSUME Fit, NEW s \in Sessions, ReadCircuitTexts(s) PROVE Fit'
  <1> DEFINE x == call[s].got.circuits \cap UNION {CircuitsOf(i) : i \in Items}
  <1>1. x \subseteq [item : Items, by : Numbers, at : Stamps]
    BY GotTypes DEF Gots
  <1>2. [call[s].got EXCEPT !.told = x] \in Gots BY <1>1, GotTypes
  <1>3. Moves(s, [call[s] EXCEPT !.at = "duas", !.got = [call[s].got EXCEPT !.told = x]])
    BY CallOf DEF ReadCircuitTexts, Moves, Calls
  <1> HIDE DEF x
  <1> QED BY <1>2, <1>3, GoOnReading DEF ReadCircuitTexts, Running

LEMMA ReadDuasFits == ASSUME Fit, NEW s \in Sessions, ReadDuas(s) PROVE Fit'
  BY OverFits DEF ReadDuas, Answer, Reply, Moves

LEMMA DownloadingFits == ASSUME Fit, NEW s \in Sessions, Downloading(s) PROVE Fit'
  BY FindAllFits, ReadTextsFits, ReadCircuitsFits, ReadCircuitTextsFits, ReadDuasFits
     DEF Downloading, FindAllRituals, FindAllDuas, FindAllLocations, Kinds

-----------------------------------------------------------------------------
(* Changes begin, time passes, the processes stop *)

LEMMA StillFine ==
  ASSUME NEW d \in Calls, Types, Types', Fine(d), changes <= changes', clock <= clock',
         d.op \in {"create", "update"} => kind'[d.item] = kind[d.item],
         d.op = "update" /\ Written(d) /\ Exists(d.item) => base'[d.item] # 0
  PROVE  Fine(d)'
  <1>1. clock \in Nat /\ clock' \in Nat /\ changes \in Nat /\ changes' \in Nat
    BY ContentAssumption DEF Types, Stamps, Numbers
  <1>2. d.began \in Nat /\ d.since \in Nat
    BY ContentAssumption DEF Calls, Stamps
  <1>3. \A r \in d.written \cup d.fresh : r.by = d.change /\ r.at \in d.began .. clock'
    BY <1>1, <1>2 DEF Fine
  <1>4. d.op \in {"create", "update"} => d.change \in 1..changes'
    BY <1>1 DEF Fine
  <1>5. d.since <= clock' BY <1>1, <1>2 DEF Fine
  <1>6. d.op = "update" /\ Written(d) => Exists(d.item)' BY DEF Fine, Exists
  <1>7. (d.op = "create" => kind'[d.item] = None) /\ (d.op = "update" => kind'[d.item] = d.kind)
    BY DEF Fine
  <1> QED BY <1>3, <1>4, <1>5, <1>6, <1>7 DEF Fine, Written

LEMMA StillMigrating ==
  ASSUME NEW d \in Calls, Types, Types', MigrationFine(d), changes <= changes', clock <= clock',
         migrated' = migrated
  PROVE  MigrationFine(d)'
  <1>1. clock \in Nat /\ clock' \in Nat /\ changes \in Nat /\ changes' \in Nat
    BY ContentAssumption DEF Types, Stamps, Numbers
  <1>2. d.began \in Nat BY ContentAssumption DEF Calls, Stamps
  <1> QED BY <1>1, <1>2 DEF MigrationFine

LEMMA StillPast ==
  ASSUME Types, Types', UNCHANGED <<kind, base, made, texts, circuits, duas, migrated>>,
         changes <= changes', clock <= clock',
         NEW i \in Items, ItemFine(i)
  PROVE  ItemFine(i)'
  <1>1. clock \in Nat /\ clock' \in Nat /\ changes \in Nat /\ changes' \in Nat
    BY ContentAssumption DEF Types, Stamps, Numbers
  <1>2. \A n, t \in Nat : Past(n, t) => Past(n, t)' BY <1>1 DEF Past
  <1>3. base[i] \in Nat /\ made[i] \in Nat
    BY ContentAssumption DEF Types, Stamps, Numbers
  <1>4. /\ \A l \in Langs : texts[i][l].by \in Nat /\ texts[i][l].at \in Nat
        /\ \A c \in circuits[i] : c.by \in Nat /\ c.at \in Nat
        /\ \A d \in duas[i] : d.by \in Nat /\ d.at \in Nat
    BY ContentAssumption DEF Types, Stamps, Numbers, CircuitRows, DuaRows
  <1>5. base'[i] <= changes' /\ made'[i] <= clock' BY <1>1, <1>3 DEF ItemFine
  <1> QED BY <1>2, <1>4, <1>5 DEF ItemFine, Exists

\* An item nobody has been given is nobody's.
LEMMA FreshIsFresh ==
  ASSUME Fit, NEW i \in Fresh
  PROVE  /\ i \in Items /\ kind[i] = None /\ ~Exists(i)
         /\ \A t \in Processes : call[t].item # i
  BY DEF Fresh, Fit, ItemFine

LEMMA CreatesHaveNoKind ==
  ASSUME Fit, NEW t \in Processes, call[t].op = "create"
  PROVE  t \in Sessions /\ call[t].item \in Items /\ kind[call[t].item] = None
  <1>1. t # Migrator BY Strings DEF Fit, MigrationFine
  <1>2. t \in Sessions BY <1>1 DEF Processes
  <1> QED BY <1>2, CallOf DEF Fine

LEMMA OldChanges ==
  ASSUME Fit, NEW t \in Processes
  PROVE  call[t] \in Calls /\ call[t].change \in Nat /\ call[t].change <= changes
  <1>1. call[t].change = 0 \/ call[t].change \in 1..changes
    <2>1. CASE t = Migrator BY <2>1 DEF Fit, MigrationFine
    <2>2. CASE t \in Sessions BY <2>2, CallOf DEF Fine
    <2> QED BY <2>1, <2>2 DEF Processes
  <1>2. call[t] \in Calls BY DEF Fit, Types
  <1> QED BY <1>1, <1>2, Times DEF Fit

\* A process has a new change.
LEMMA ChangeBegins ==
  ASSUME Fit, NEW p \in Processes, NEW c \in Calls, call' = [call EXCEPT ![p] = c],
         UNCHANGED <<tables, migrated, clock>>, NewChange, c.change = changes',
         IF p = Migrator THEN MigrationFine(c)' ELSE Fine(c)',
         \/ c.item = None
         \/ c.item \in Fresh
         \/ c.op = "update" /\ c.item \in Items /\ kind[c.item] # None
  PROVE  Fit'
  <1>1. Types' /\ changes \in Nat /\ changes' = changes + 1 /\ clock \in Nat
    BY Times DEF Fit, Types, NewChange, tables, Numbers
  <1>2. changes <= changes' /\ clock <= clock' BY <1>1
  <1>3. \A i \in Items : ItemFine(i)' BY <1>1, <1>2, StillPast DEF Fit, tables
  <1>4. ASSUME NEW t \in Sessions PROVE Fine(call[t])'
    <2>1. PICK d : d = call'[t] OBVIOUS
    <2>2. CASE t = p
      <3>1. Fine(d)' BY <2>1, <2>2, ProcessOf DEF Fit, Types
      <3> QED BY <2>1, <3>1 DEF Fine, Exists, Written
    <2>3. CASE t # p
      <3>1. d = call[t] BY <2>1, <2>3, ProcessOf DEF Fit, Types
      <3>2. d \in Calls /\ Fine(d) BY <3>1, CallOf
      <3>3. Fine(d)'
        BY <1>1, <1>2, <3>2, StillFine DEF Fit, tables, Exists
      <3> QED BY <2>1, <3>3 DEF Fine, Exists, Written
    <2> QED BY <2>2, <2>3
  <1>5. MigrationFine(call[Migrator])'
    <2>1. PICK d : d = call'[Migrator] OBVIOUS
    <2>2. CASE Migrator = p
      <3>1. MigrationFine(d)' BY <2>1, <2>2 DEF Fit, Types
      <3> QED BY <2>1, <3>1 DEF MigrationFine
    <2>3. CASE Migrator # p
      <3>1. d = call[Migrator] /\ d \in Calls BY <2>1, <2>3 DEF Fit, Types, Processes
      <3>2. MigrationFine(d) BY <3>1 DEF Fit
      <3>3. MigrationFine(d)' BY <1>1, <1>2, <3>1, <3>2, StillMigrating DEF Fit
      <3> QED BY <2>1, <3>3 DEF MigrationFine
    <2> QED BY <2>2, <2>3
  <1>6. Apart'
    <2>1. call'[p] = c /\ \A t \in Processes \ {p} : call'[t] = call[t] BY DEF Fit, Types
    <2>2. \A t \in Processes : call[t].change # changes' BY <1>1, OldChanges
    <2>3. \A t \in Processes : call[t].op = "create" => call[t].item # c.item
      BY CreatesHaveNoKind, FreshIsFresh, ContentAssumption
    <2>4. c.op = "create" => \A t \in Processes : call[t].item # c.item
      <3>1. c.op = "create" => c.item \in Items
        <4>1. CASE p = Migrator BY <4>1, Strings DEF MigrationFine
        <4>2. CASE p # Migrator BY <4>2 DEF Fine
        <4> QED BY <4>1, <4>2
      <3> QED BY <3>1, FreshIsFresh, ContentAssumption
    <2>5. c.change # 0 BY <1>1
    <2> QED BY <2>1, <2>2, <2>3, <2>4, <2>5 DEF Fit, Apart
  <1> QED BY <1>1, <1>3, <1>4, <1>5, <1>6 DEF Fit

LEMMA BeginFits ==
  ASSUME Fit, NEW s \in Sessions, NEW op \in {"create", "update"}, NEW k \in Kinds,
         NEW i \in Items, NEW body \in BodiesOf(k), Begin(s, op, k, i, body),
         op = "create" => i \in Fresh /\ body.base,
         op = "update" => i \in All(k)
  PROVE  Fit'
  <1> DEFINE c0 == [NoCall EXCEPT !.op = op, !.kind = k, !.item = i, !.change = changes',
                      !.began = clock, !.since = clock, !.body = body, !.left = body.texts]
             at == IF op = "create" THEN After(c0) ELSE "find"
             c == [c0 EXCEPT !.at = at]
  <1>1. body \in Bodies /\ (body.circuits # "kept" => k = "ritual")
    BY ContentAssumption DEF BodiesOf
  <1>2. changes' \in Numbers /\ changes' \in 1..changes' /\ clock \in Stamps
    BY Times DEF Begin, NewChange, Numbers, Fit, Types
  <1>3. NoCall \in Calls BY NobodyCalls DEF Fit
  <1>4. c0 \in Calls
    <2>1. body.texts \in Seq(Langs) BY <1>1 DEF Bodies
    <2> QED BY <1>1, <1>2, <1>3, <2>1 DEF Calls
  <1>5. /\ c0.op = op /\ c0.kind = k /\ c0.item = i /\ c0.change = changes' /\ c0.body = body
        /\ c0.began = clock /\ c0.since = clock /\ c0.left = body.texts /\ c0.written = {}
        /\ c0.seen = {} /\ c0.dropped = {} /\ c0.fresh = {}
    BY DEF NoCall
  <1>6. call' = [call EXCEPT ![s] = c] BY DEF Begin
  <1>7. /\ at \in {"texts", "look", "commit", "find"}
        /\ at = "texts" => c0.left # <<>>
        /\ op = "create" => at # "find"
        /\ at = "look" => body.circuits # "kept"
        /\ at = "commit" => body.circuits = "kept"
    <2> HIDE DEF c0
    <2> QED BY <1>5, AfterAt
  <1> HIDE DEF c0, at
  <1>8. PICK d : d = c OBVIOUS
  <1>9. /\ d.op = op /\ d.kind = k /\ d.item = i /\ d.change = changes' /\ d.body = body
        /\ d.began = clock /\ d.since = clock /\ d.left = c0.left /\ d.written = {}
        /\ d.seen = {} /\ d.dropped = {} /\ d.fresh = {} /\ d.at = at
    BY <1>4, <1>5, <1>8 DEF Calls
  <1>10. d \in Calls /\ call' = [call EXCEPT ![s] = d]
    BY <1>4, <1>6, <1>7, <1>8, UpdatedCall DEF Ats
  <1>11. kind' = kind /\ base' = base /\ clock' = clock /\ clock \in Nat
    BY Times DEF Begin, tables, Fit
  <1>12. op = "update" => kind[i] = k BY DEF All
  <1>13. op = "create" => kind[i] = None BY FreshIsFresh
  <1>14. Fine(d)'
    <2>1. ~Written(d) BY <1>9 DEF Written
    <2>2. \A r \in d.written \cup d.fresh : FALSE BY <1>9
    <2>3. d.began <= clock' /\ d.since <= clock' /\ d.began <= d.since BY <1>9, <1>11
    <2>4. /\ d.at \in {"texts", "look", "commit", "find"}
          /\ d.at = "texts" => d.left # <<>>
          /\ d.op = "create" => d.at # "find"
          /\ d.at = "look" => d.body.circuits # "kept"
          /\ d.at = "commit" => d.body.circuits = "kept"
      BY <1>7, <1>9
    <2>5. d.change \in 1..changes' BY <1>2, <1>9
    <2>6. d.op = "create" => kind'[d.item] = None /\ d.body.base BY <1>9, <1>11, <1>13
    <2>7. d.op = "update" => kind'[d.item] = d.kind BY <1>9, <1>11, <1>12
    <2> QED BY <1>1, <1>9, <2>1, <2>2, <2>3, <2>4, <2>5, <2>6, <2>7 DEF Fine
  <1>15. \/ d.item \in Fresh
         \/ d.op = "update" /\ d.item \in Items /\ kind[d.item] # None
    BY <1>9, <1>12, ContentAssumption DEF Kinds
  <1>16. UNCHANGED <<tables, migrated, clock>> /\ NewChange BY DEF Begin
  <1>17. IF s = Migrator THEN MigrationFine(d)' ELSE Fine(d)' BY <1>14, ProcessOf
  <1> QED BY <1>9, <1>10, <1>15, <1>16, <1>17, ProcessOf, ChangeBegins

LEMMA RoutesFit ==
  ASSUME Fit, NEW s \in Sessions, NEW k \in Kinds
  PROVE  /\ Create(s, k) => Fit'
         /\ Update(s, k) => Fit'
  <1>1. ASSUME Create(s, k) PROVE Fit'
    <2>1. PICK i \in Fresh, e \in BodiesOf(k) : e.base /\ Begin(s, "create", k, i, e)
      BY <1>1 DEF Create
    <2>2. i \in Items BY <2>1 DEF Fresh
    <2> QED BY <2>1, <2>2, BeginFits
  <1>2. ASSUME Update(s, k) PROVE Fit'
    <2>1. PICK i \in All(k), e \in BodiesOf(k) : Begin(s, "update", k, i, e)
      BY <1>2 DEF Update
    <2>2. i \in Items BY <2>1 DEF All
    <2> QED BY <2>1, <2>2, BeginFits
  <1> QED BY <1>1, <1>2

LEMMA BeginMigrationFits == ASSUME Fit, BeginMigration PROVE Fit'
  <1>1. PICK k \in Kinds, m \in Ledger :
          /\ IsNext(k, m)
          /\ call' = [call EXCEPT ![Migrator] = [NoCall EXCEPT !.op = m, !.at = "run", !.kind = k,
                                                  !.change = changes', !.began = clock]]
    BY DEF BeginMigration
  <1> DEFINE c == [NoCall EXCEPT !.op = m, !.at = "run", !.kind = k, !.change = changes',
                                 !.began = clock]
  <1>2. changes' \in Numbers /\ changes' \in 1..changes' /\ clock \in Stamps /\ clock \in Nat
    BY Times DEF BeginMigration, NewChange, Numbers, Fit, Types
  <1>3. NoCall \in Calls BY NobodyCalls DEF Fit
  <1>4. c \in Calls BY <1>1, <1>2, <1>3 DEF Calls, Ats
  <1>5. PICK d : d = c OBVIOUS
  <1>6. d.op = m /\ d.item = None /\ d.change = changes' /\ d.began = clock
    BY <1>5 DEF NoCall
  <1>7. call' = [call EXCEPT ![Migrator] = d] /\ d \in Calls BY <1>1, <1>4, <1>5
  <1>8. UNCHANGED <<tables, migrated, clock>> /\ NewChange BY DEF BeginMigration
  <1>9. MigrationFine(d)'
    <2>1. (m = "063" => "067" \notin migrated) /\ (m = "067" => {"063", "066"} \subseteq migrated)
      BY <1>1, InOrder
    <2>2. d.op # "idle" BY <1>6, Strings
    <2> QED BY <1>2, <1>6, <1>8, <2>1, <2>2 DEF MigrationFine
  <1>10. Migrator \in Processes BY DEF Processes
  <1> HIDE DEF c
  <1> QED BY <1>6, <1>7, <1>8, <1>9, <1>10, ChangeBegins

LEMMA TickFits == ASSUME Fit, Tick PROVE Fit'
  <1>1. Types' /\ clock <= clock' /\ changes <= changes'
    BY Times DEF Fit, Types, Tick, tables, Stamps
  <1>2. \A i \in Items : ItemFine(i)' BY <1>1, StillPast DEF Fit, Tick, tables
  <1>3. ASSUME NEW t \in Sessions PROVE Fine(call[t])'
    <2>1. PICK d : d = call[t] OBVIOUS
    <2>2. Fine(d)' BY <1>1, <2>1, CallOf, StillFine DEF Fit, Tick, tables, Exists
    <2> QED BY <2>1, <2>2 DEF Fine, Tick, Exists, Written
  <1>4. MigrationFine(call[Migrator])'
    <2>1. PICK d : d = call[Migrator] OBVIOUS
    <2>2. d \in Calls BY <2>1 DEF Fit, Types, Processes
    <2>3. MigrationFine(d)' BY <1>1, <2>1, <2>2, StillMigrating DEF Fit, Tick
    <2> QED BY <2>1, <2>3 DEF MigrationFine, Tick
  <1>5. Apart' BY DEF Fit, Apart, Tick
  <1> QED BY <1>1, <1>2, <1>3, <1>4, <1>5 DEF Fit

LEMMA RestartFits == ASSUME Fit, Restart PROVE Fit'
  <1>1. call' = [p \in Processes |-> NoCall] /\ UNCHANGED <<tables, migrated, clock, changes>>
    BY DEF Restart
  <1>2. NoCall \in Calls /\ Fine(NoCall) /\ MigrationFine(NoCall) BY NobodyCalls DEF Fit
  <1>3. Types' BY <1>1, <1>2 DEF Fit, Types, tables
  <1>4. \A i \in Items : ItemFine(i)' BY <1>1 DEF Fit, ItemFine, Past, Exists, tables
  <1>5. PICK d : d = NoCall OBVIOUS
  <1>6. Fine(d)' /\ MigrationFine(d)'
    BY <1>1, <1>2, <1>5 DEF Fine, MigrationFine, Exists, tables
  <1>7. \A p \in Processes : call'[p] = d BY <1>1, <1>5
  <1>8. \A t \in Sessions : Fine(call[t])'
    BY <1>6, <1>7, ProcessOf DEF Fine, Exists, Written
  <1>9. MigrationFine(call[Migrator])' BY <1>6, <1>7 DEF MigrationFine, Processes
  <1>10. Apart' BY <1>5, <1>7 DEF Apart, NoCall
  <1> QED BY <1>3, <1>4, <1>8, <1>9, <1>10 DEF Fit

-----------------------------------------------------------------------------
(* Steps that change tables *)

LEMMA RemoveFits == ASSUME Fit, NEW i \in Items, Remove(i) PROVE Fit'
  <1>1. Types' /\ clock <= clock' /\ changes <= changes'
    BY Times DEF Fit, Types, Remove, NewChange, Numbers
  <1>2. \A j \in Items : ItemFine(j)' BY <1>1, StillPast DEF Fit, Remove
  <1>3. ASSUME NEW t \in Sessions PROVE Fine(call[t])'
    <2>1. PICK d : d = call[t] OBVIOUS
    <2>2. Fine(d)' BY <1>1, <2>1, CallOf, StillFine DEF Fit, Remove, Exists
    <2> QED BY <2>1, <2>2 DEF Fine, Remove, Exists, Written
  <1>4. MigrationFine(call[Migrator])'
    <2>1. PICK d : d = call[Migrator] OBVIOUS
    <2>2. d \in Calls BY <2>1 DEF Fit, Types, Processes
    <2>3. MigrationFine(d)' BY <1>1, <2>1, <2>2, StillMigrating DEF Fit, Remove
    <2> QED BY <2>1, <2>3 DEF MigrationFine, Remove
  <1>5. Apart' BY DEF Fit, Apart, Remove
  <1> QED BY <1>1, <1>2, <1>3, <1>4, <1>5 DEF Fit

\* The process p ends its transaction, and takes nothing from the others.
Ends(p) ==
  /\ call' = [call EXCEPT ![p] = NoCall] /\ UNCHANGED <<clock, changes>>
  /\ p = Migrator \/ UNCHANGED migrated
  /\ \A t \in Sessions \ {p} : call[t].op \in {"create", "update"} =>
       /\ kind'[call[t].item] = kind[call[t].item]
       /\ Written(call[t]) /\ Exists(call[t].item) => base'[call[t].item] # 0

LEMMA EndsFit ==
  ASSUME Fit, NEW p \in Processes, Ends(p), Types', \A i \in Items : ItemFine(i)'
  PROVE  Fit'
  <1>1. NoCall \in Calls /\ Fine(NoCall) /\ MigrationFine(NoCall) BY NobodyCalls DEF Fit
  <1>2. call'[p] = NoCall /\ \A t \in Processes \ {p} : call'[t] = call[t]
    BY DEF Fit, Types, Ends
  <1>3. clock <= clock' /\ changes <= changes' BY Times DEF Fit, Ends
  <1>4. PICK n : n = NoCall OBVIOUS
  <1>5. n.op = "idle" /\ n.item = None /\ n.change = 0 /\ ~Written(n)
    BY <1>4 DEF NoCall, Written
  <1>6. Fine(n)'
    BY <1>1, <1>3, <1>4, <1>5, StillFine DEF Fit
  <1>7. MigrationFine(n)'
    BY <1>1, <1>4, <1>5 DEF MigrationFine, Ends
  <1>8. ASSUME NEW t \in Sessions PROVE Fine(call[t])'
    <2>1. PICK d : d = call'[t] OBVIOUS
    <2>2. CASE t = p
      <3>1. d = n BY <1>2, <1>4, <2>1, <2>2
      <3> QED BY <1>6, <2>1, <3>1 DEF Fine, Exists, Written
    <2>3. CASE t # p
      <3>1. d = call[t] BY <1>2, <2>1, <2>3, ProcessOf
      <3>2. d \in Calls /\ Fine(d) BY <3>1, CallOf
      <3>3. d.op \in {"create", "update"} =>
              /\ kind'[d.item] = kind[d.item]
              /\ Written(d) /\ Exists(d.item) => base'[d.item] # 0
        BY <2>3, <3>1 DEF Ends
      <3>4. Fine(d)' BY <1>3, <3>2, <3>3, StillFine DEF Fit
      <3> QED BY <2>1, <3>4 DEF Fine, Exists, Written
    <2> QED BY <2>2, <2>3
  <1>9. MigrationFine(call[Migrator])'
    <2>1. CASE p = Migrator
      <3>1. call'[Migrator] = n BY <1>2, <1>4, <2>1
      <3> QED BY <1>7, <3>1 DEF MigrationFine
    <2>2. CASE p # Migrator
      <3>1. call'[Migrator] = call[Migrator] BY <1>2, <2>2 DEF Processes
      <3> QED BY <2>2, <3>1 DEF Ends, Fit, MigrationFine
    <2> QED BY <2>1, <2>2
  <1>10. Apart'
    <2>1. \A t \in Processes : call[t].op = "create" => call[t].item # None
      BY CreatesHaveNoKind, ContentAssumption
    <2>2. NoCall.op = "idle" /\ NoCall.item = None /\ NoCall.change = 0 BY DEF NoCall
    <2> QED BY <1>2, <2>1, <2>2 DEF Fit, Apart
  <1> QED BY <1>8, <1>9, <1>10 DEF Fit

\* What a commit writes, all of it to the item of the request.
Committed(c, i) ==
  /\ \A j \in Items \ {i} : /\ kind'[j] = kind[j] /\ base'[j] = base[j] /\ made'[j] = made[j]
                            /\ texts'[j] = texts[j] /\ circuits'[j] = circuits[j]
                            /\ duas'[j] = duas[j]
  /\ kind'[i] = c.kind
  /\ base'[i] = IF c.body.base /\ (c.op = "create" \/ Exists(i)) THEN c.change ELSE base[i]
  /\ made'[i] = IF c.op = "create" THEN c.began ELSE made[i]
  /\ \A l \in Langs : \/ texts'[i][l] = texts[i][l]
                      \/ \E w \in c.written : texts'[i][l] = [by |-> w.by, at |-> w.at]
  /\ c.written = {} => texts'[i] = texts[i]
  /\ circuits'[i] = (circuits[i] \ c.dropped) \cup c.fresh
  /\ duas'[i] = WithCircuits(duas[i], circuits'[i])

LEMMA CommitTypes ==
  ASSUME Fit, NEW s \in Sessions, Commit(s)
  PROVE  /\ call[s].op \in {"create", "update"} /\ call[s].at = "commit"
         /\ call[s].item \in Items /\ call[s].kind \in Kinds
         /\ call[s].change \in Numbers /\ call[s].change \in 1..changes
         /\ call[s].began \in Stamps /\ call[s].began <= clock
         /\ call[s].written \subseteq TextRows /\ call[s].fresh \subseteq CircuitRows
         /\ call[s].dropped \subseteq CircuitRows
         /\ kind[call[s].item] = IF call[s].op = "create" THEN None ELSE call[s].kind
  <1>1. call[s].op \in {"create", "update"} /\ call[s].at = "commit"
    BY DEF Commit, InTransaction
  <1>2. /\ call[s].change \in Numbers /\ call[s].began \in Stamps /\ call[s].since \in Stamps
        /\ call[s].written \subseteq TextRows /\ call[s].fresh \subseteq CircuitRows
        /\ call[s].dropped \subseteq CircuitRows
    BY CallOf DEF Calls
  <1>3. call[s].began <= clock
    BY <1>2, CallOf, Times DEF Fine, Fit, Stamps
  <1> QED BY <1>1, <1>2, <1>3, CallOf DEF Fine

LEMMA CommitWrites ==
  ASSUME Fit, NEW s \in Sessions, Commit(s)
  PROVE  Committed(call[s], call[s].item)
  <1> DEFINE c == call[s]
             i == c.item
             kept == (circuits[i] \ c.dropped) \cup c.fresh
             text(l) == CHOOSE w \in c.written : w.lang = l
  <1>1. /\ kind' = [kind EXCEPT ![i] = c.kind]
        /\ base' = IF c.body.base /\ Refers(s) THEN [base EXCEPT ![i] = c.change] ELSE base
        /\ made' = IF c.op = "create" THEN [made EXCEPT ![i] = c.began] ELSE made
        /\ texts' = [texts EXCEPT ![i] = [l \in Langs |->
             IF HoldsText(s, i, l) THEN [by |-> text(l).by, at |-> text(l).at] ELSE @[l]]]
        /\ circuits' = [circuits EXCEPT ![i] = kept]
        /\ duas' = [duas EXCEPT ![i] = WithCircuits(@, kept)]
    BY DEF Commit
  <1>2. i \in Items BY CommitTypes
  <1> HIDE DEF c, i, text
  <1>3. texts'[i] = [l \in Langs |->
             IF HoldsText(s, i, l) THEN [by |-> text(l).by, at |-> text(l).at] ELSE texts[i][l]]
    BY <1>1, <1>2 DEF Fit, Types
  <1>4. ASSUME NEW l \in Langs
        PROVE  \/ texts'[i][l] = texts[i][l]
               \/ \E w \in c.written : texts'[i][l] = [by |-> w.by, at |-> w.at]
    <2>1. CASE HoldsText(s, i, l)
      <3>1. text(l) \in c.written BY <2>1 DEF HoldsText, c, text
      <3> QED BY <1>3, <2>1, <3>1
    <2>2. CASE ~HoldsText(s, i, l) BY <1>3, <2>2
    <2> QED BY <2>1, <2>2
  <1>5. c.written = {} => texts'[i] = texts[i]
    <2>1. c.written = {} => \A l \in Langs : ~HoldsText(s, i, l) BY DEF HoldsText, c
    <2>2. texts[i] = [l \in Langs |-> texts[i][l]] BY <1>2 DEF Fit, Types
    <2> QED BY <1>3, <2>1, <2>2
  <1>6. Refers(s) <=> c.op = "create" \/ Exists(i) BY DEF Refers, c, i
  <1>7. /\ \A j \in Items \ {i} : /\ kind'[j] = kind[j] /\ base'[j] = base[j] /\ made'[j] = made[j]
                                  /\ texts'[j] = texts[j] /\ circuits'[j] = circuits[j]
                                  /\ duas'[j] = duas[j]
        /\ kind'[i] = c.kind
        /\ base'[i] = IF c.body.base /\ Refers(s) THEN c.change ELSE base[i]
        /\ made'[i] = IF c.op = "create" THEN c.began ELSE made[i]
        /\ circuits'[i] = kept /\ duas'[i] = WithCircuits(duas[i], kept)
    BY <1>1, <1>2 DEF Fit, Types
  <1>8. Committed(c, i) BY <1>4, <1>5, <1>6, <1>7 DEF Committed
  <1> QED BY <1>8 DEF c, i

LEMMA CommitFits == ASSUME Fit, NEW s \in Sessions, Commit(s) PROVE Fit'
  <1>0. PICK c, i : c = call[s] /\ i = call[s].item OBVIOUS
  <1>1. /\ c.op \in {"create", "update"} /\ i \in Items /\ c.kind \in Kinds
        /\ c.change \in Numbers /\ c.change \in 1..changes
        /\ c.began \in Stamps /\ c.began <= clock
        /\ c.written \subseteq TextRows /\ c.fresh \subseteq CircuitRows
        /\ kind[i] = IF c.op = "create" THEN None ELSE c.kind
    BY <1>0, CommitTypes
  <1>2. Fine(c) BY <1>0, CallOf
  <1>3. Committed(c, i)
    <2>1. Committed(call[s], call[s].item) BY CommitWrites
    <2> QED BY <1>0, <2>1 DEF Committed, Exists
  <1>4. UNCHANGED <<removed, migrated, clock, changes>> /\ call' = [call EXCEPT ![s] = NoCall]
    BY DEF Commit, Reply
  <1>5. kind' \in [Items -> Kinds \cup {None}] /\ DOMAIN kind' = Items
        /\ base' \in [Items -> Numbers] /\ made' \in [Items -> Stamps]
    BY <1>0, <1>1 DEF Commit, Fit, Types
  <1>6. texts' \in [Items -> [Langs -> CircuitRows]]
    <2>1. /\ DOMAIN texts' = Items /\ texts' = [j \in Items |-> texts'[j]]
          /\ \A j \in Items : texts'[j] = [l \in Langs |-> texts'[j][l]]
      BY <1>1 DEF Commit, Fit, Types
    <2>2. ASSUME NEW j \in Items, NEW l \in Langs PROVE texts'[j][l] \in CircuitRows
      <3>1. texts[j][l] \in CircuitRows BY DEF Fit, Types
      <3>2. \A w \in c.written : [by |-> w.by, at |-> w.at] \in CircuitRows
        BY <1>1 DEF TextRows, CircuitRows
      <3> QED BY <1>3, <3>1, <3>2 DEF Committed
    <2> QED BY <2>1, <2>2
  <1>7. circuits' \in [Items -> SUBSET CircuitRows] /\ duas' \in [Items -> SUBSET DuaRows]
    BY <1>0, <1>1 DEF Commit, Fit, Types, WithCircuits
  <1>8. call' \in [Processes -> Calls] BY <1>4, NobodyCalls DEF Fit, Types
  <1>9. Types' BY <1>4, <1>5, <1>6, <1>7, <1>8 DEF Fit, Types
  <1>10. ASSUME NEW j \in Items \ {i} PROVE ItemFine(j)'
    BY <1>3, <1>4 DEF Committed, Fit, ItemFine, Past, Exists
  <1>11. ItemFine(i)'
    <2>1. ItemFine(i) /\ changes \in Nat /\ clock \in Nat BY <1>1, Times DEF Fit
    <2>2. base'[i] <= changes' /\ made'[i] <= clock'
      BY <1>1, <1>3, <1>4, <2>1 DEF Committed, ItemFine
    <2>3. \A w \in c.written \cup c.fresh : w.by = c.change /\ w.at <= clock
      BY <1>1, <1>2, <2>1 DEF Fine, Stamps
    <2>4. ASSUME NEW l \in Langs
          PROVE  texts'[i][l] = NoText \/ Past(texts'[i][l].by, texts'[i][l].at)
      <3>1. texts[i][l] = NoText \/ Past(texts[i][l].by, texts[i][l].at)
        BY <2>1 DEF ItemFine
      <3>2. \A w \in c.written : Past(w.by, w.at) BY <1>1, <2>3 DEF Past
      <3>3. \/ texts'[i][l] = texts[i][l]
            \/ \E w \in c.written : texts'[i][l] = [by |-> w.by, at |-> w.at]
        BY <1>3 DEF Committed
      <3>4. ASSUME NEW w \in c.written, texts'[i][l] = [by |-> w.by, at |-> w.at]
            PROVE  Past(texts'[i][l].by, texts'[i][l].at)
        <4>1. texts'[i][l].by = w.by /\ texts'[i][l].at = w.at BY <3>4
        <4> QED BY <3>2, <4>1
      <3> QED BY <3>1, <3>3, <3>4
    <2>5. \A x \in circuits'[i] : Past(x.by, x.at)'
      BY <1>1, <1>3, <1>4, <2>1, <2>3 DEF Committed, ItemFine, Past
    <2>6. \A d \in duas'[i] : /\ d \in duas[i]
                              /\ d.of # 0 => \E x \in circuits'[i] : x.by = d.of
      BY <1>3 DEF Committed, WithCircuits
    <2>7. \A d \in duas'[i] : Past(d.by, d.at)'
      BY <1>4, <2>1, <2>6 DEF ItemFine, Past
    <2>8. kind'[i] # None BY <1>1, <1>3, ContentAssumption DEF Committed, Kinds
    <2>9. base'[i] = 0 => /\ ~Exists(i) /\ c.op = "update"
      BY <1>1, <1>2, <1>3 DEF Committed, Exists, Fine
    <2>10. base'[i] = 0 => texts'[i] = NoTexts /\ circuits'[i] = {} /\ duas'[i] = {}
      <3>1. base'[i] = 0 => ~Written(c) BY <1>0, <1>2, <2>9 DEF Fine
      <3>2. base'[i] = 0 => texts[i] = NoTexts /\ circuits[i] = {} /\ duas[i] = {}
        BY <2>1, <2>9 DEF ItemFine
      <3>3. circuits'[i] \subseteq circuits[i] \cup c.fresh BY <1>3 DEF Committed
      <3> QED BY <1>3, <2>6, <3>1, <3>2, <3>3 DEF Written, Committed
    <2>11. circuits'[i] # {} \/ duas'[i] # {} => kind'[i] = "ritual"
      <3>1. circuits[i] # {} \/ duas[i] # {} => c.kind = "ritual"
        BY <1>1, <2>1, ContentAssumption DEF ItemFine, Kinds
      <3>2. c.fresh # {} => c.kind = "ritual" BY <1>2 DEF Fine
      <3> QED BY <1>3, <2>6, <3>1, <3>2 DEF Committed
    <2>12. duas'[i] # {} => {"066", "067"} \subseteq migrated'
      BY <1>4, <2>1, <2>6 DEF ItemFine
    <2> QED BY <2>2, <2>4, <2>5, <2>6, <2>7, <2>8, <2>10, <2>11, <2>12, <1>4
            DEF ItemFine, Exists, Past, NoTexts
  <1>12. Ends(s)
    <2>1. ASSUME NEW t \in Sessions \ {s}, call[t].op \in {"create", "update"}
          PROVE  /\ kind'[call[t].item] = kind[call[t].item]
                 /\ Written(call[t]) /\ Exists(call[t].item) => base'[call[t].item] # 0
      <3>1. call[t].item \in Items BY <2>1, CallOf DEF Fine
      <3>2. CASE call[t].item = i
        <4>1. c.op # "create" BY <1>0, <3>2, ProcessOf DEF Fit, Apart
        <4> QED BY <1>1, <1>3, <3>2, <4>1 DEF Committed, Exists
      <3>3. CASE call[t].item # i BY <1>3, <3>1, <3>3 DEF Committed, Exists
      <3> QED BY <3>2, <3>3
    <2> QED BY <1>4, <2>1 DEF Ends
  <1> QED BY <1>9, <1>10, <1>11, <1>12, EndsFit, ProcessOf

-----------------------------------------------------------------------------
(* Migrations: an item keeps its rows, is deleted with them, or is there   *)
(* and has some written anew                                               *)

Kept(i) == /\ kind'[i] = kind[i] /\ base'[i] = base[i] /\ made'[i] \in {made[i], now}
           /\ texts'[i] = texts[i] /\ circuits'[i] = circuits[i] /\ duas'[i] = duas[i]

Gone(i) == /\ \A s \in Sessions : ~Holds(s, i)
           /\ kind'[i] = kind[i] /\ base'[i] = 0 /\ made'[i] = made[i]
           /\ texts'[i] = NoTexts /\ circuits'[i] = {} /\ duas'[i] = {}

Touched(i) ==
  /\ \/ Exists(i) /\ kind'[i] = kind[i] /\ base'[i] \in {base[i], me}
     \/ i \in Fresh /\ kind'[i] \in Kinds /\ base'[i] = me
  /\ made'[i] \in {made[i], now}
  /\ texts'[i] \in {texts[i], Seeded}
  /\ circuits'[i] \in {circuits[i], {Seed}} /\ duas'[i] \in {duas[i], StepDuas \cup CircuitDuas}
  /\ circuits'[i] # circuits[i] =>
       kind'[i] = "ritual" /\ duas[i] = {} /\ "063" \in migrated'
  /\ duas'[i] # duas[i] => circuits'[i] = {Seed} /\ {"066", "067"} \subseteq migrated'

Migrated == \A i \in Items : Kept(i) \/ Gone(i) \/ Touched(i)

\* An item that a migration brings back has no row; one that it only dates is gone.
Dates == \A i \in Items : /\ i \in removed \ removed' => base'[i] = 0
                          /\ made'[i] # made[i] => base'[i] = me \/ i \in removed'

LEMMA MigrationRuns ==
  ASSUME Fit, NEW m \in Ledger, Runs(m)
  PROVE  /\ call[Migrator] \in Calls /\ call[Migrator].op = m
         /\ me \in Numbers /\ me \in 1..changes /\ now \in Stamps /\ now <= clock
         /\ Seed \in CircuitRows /\ Seeded \in [Langs -> CircuitRows]
         /\ NoTexts \in [Langs -> CircuitRows]
         /\ StepDuas \cup CircuitDuas \subseteq DuaRows
         /\ m = "063" => "067" \notin migrated
         /\ m = "067" => {"063", "066"} \subseteq migrated
  <1>1. call[Migrator] \in Calls /\ call[Migrator].op = m
    BY DEF Runs, Running, Fit, Types, Processes
  <1>2. m # "idle" BY Strings
  <1>3. me \in Numbers /\ me \in 1..changes /\ now \in Stamps /\ now <= clock
    BY <1>1, <1>2 DEF Fit, MigrationFine, me, now, Calls
  <1>4. Seed \in CircuitRows BY <1>3 DEF Seed, CircuitRows
  <1>5. Seeded \in [Langs -> CircuitRows] BY <1>4 DEF Seeded
  <1>6. 0 \in Numbers BY ContentAssumption DEF Numbers
  <1>7. StepDuas \cup CircuitDuas \subseteq DuaRows
    BY <1>3, <1>6 DEF StepDuas, CircuitDuas, DuaRows
  <1>8. 0 \in Stamps BY ContentAssumption DEF Stamps
  <1>9. NoTexts \in [Langs -> CircuitRows] BY <1>6, <1>8 DEF NoTexts, NoText, CircuitRows
  <1> QED BY <1>1, <1>3, <1>4, <1>5, <1>7, <1>9 DEF Fit, MigrationFine

LEMMA MigratedFits ==
  ASSUME Fit, NEW m \in Ledger, Runs(m), Migrated,
         kind' \in [Items -> Kinds \cup {None}], base' \in [Items -> Numbers],
         made' \in [Items -> Stamps], removed' \subseteq Items,
         texts' \in [Items -> [Langs -> CircuitRows]],
         circuits' \in [Items -> SUBSET CircuitRows], duas' \in [Items -> SUBSET DuaRows]
  PROVE  Fit'
  <1>1. /\ me \in 1..changes /\ now <= clock /\ changes \in Nat /\ clock \in Nat
        /\ Past(me, now)
    BY MigrationRuns, Times DEF Fit, Past
  <1>2. /\ call' = [call EXCEPT ![Migrator] = NoCall] /\ UNCHANGED <<clock, changes>>
        /\ migrated' = migrated \cup {m}
    BY DEF Runs, Reply
  <1>3. Types'
    BY <1>2, NobodyCalls DEF Fit, Types
  <1>4. ASSUME NEW i \in Items PROVE ItemFine(i)'
    <2>1. ItemFine(i) BY DEF Fit
    <2>2. \A n, t : Past(n, t)' <=> Past(n, t) BY <1>2 DEF Past
    <2>3. CASE Kept(i)
      <3>1. made'[i] <= clock' BY <1>1, <1>2, <2>1, <2>3 DEF ItemFine, Kept
      <3> QED BY <1>2, <2>1, <2>2, <2>3, <3>1 DEF ItemFine, Kept, Exists
    <2>4. CASE Gone(i)
      <3>1. made'[i] <= clock' /\ base'[i] <= changes'
        BY <1>1, <1>2, <2>1, <2>4 DEF ItemFine, Gone
      <3>2. \A l \in Langs : texts'[i][l] = NoText BY <2>4 DEF Gone, NoTexts
      <3> QED BY <2>4, <3>1, <3>2 DEF ItemFine, Gone, Exists, NoTexts
    <2>5. CASE Touched(i)
      <3>1. made'[i] <= clock' /\ base'[i] <= changes'
        BY <1>1, <1>2, <2>1, <2>5 DEF ItemFine, Touched
      <3>2. base'[i] # 0 /\ kind'[i] # None
        BY <1>1, <2>1, <2>5, ContentAssumption DEF ItemFine, Touched, Exists, Kinds
      <3>3. \A l \in Langs : texts'[i][l] = NoText \/ Past(texts'[i][l].by, texts'[i][l].at)
        <4>1. \A l \in Langs : Seeded[l].by = me /\ Seeded[l].at = now BY DEF Seeded, Seed
        <4> QED BY <1>1, <2>1, <2>5, <4>1 DEF ItemFine, Touched
      <3>4. \A c \in circuits'[i] : Past(c.by, c.at)
        BY <1>1, <2>1, <2>5 DEF ItemFine, Touched, Seed
      <3>5. \A d \in duas'[i] : /\ Past(d.by, d.at)
                                /\ d.of # 0 => \E c \in circuits'[i] : c.by = d.of
        <4>1. CASE duas'[i] = duas[i]
          BY <2>1, <2>5, <4>1 DEF ItemFine, Touched
        <4>2. CASE duas'[i] # duas[i]
          <5>1. duas'[i] = StepDuas \cup CircuitDuas /\ circuits'[i] = {Seed}
            BY <2>5, <4>2 DEF Touched
          <5> QED BY <1>1, <5>1 DEF StepDuas, CircuitDuas, Seed
        <4> QED BY <4>1, <4>2
      <3>6. circuits'[i] # {} \/ duas'[i] # {} => kind'[i] = "ritual"
        <4>1. i \in Fresh => circuits[i] = {} /\ duas[i] = {}
          BY <2>1, FreshIsFresh DEF ItemFine
        <4>2. circuits[i] # {} \/ duas[i] # {} => kind'[i] = "ritual"
          BY <2>1, <2>5, <4>1 DEF Touched, ItemFine
        <4>3. duas'[i] # duas[i] => circuits'[i] # circuits[i] \/ circuits[i] # {}
          BY <2>5 DEF Touched
        <4> QED BY <2>5, <4>2, <4>3 DEF Touched
      <3>7. duas'[i] # {} => {"066", "067"} \subseteq migrated'
        BY <1>2, <2>1, <2>5 DEF ItemFine, Touched
      <3> QED BY <2>2, <3>1, <3>2, <3>3, <3>4, <3>5, <3>6, <3>7, <1>2 DEF ItemFine, Exists, Past
    <2> QED BY <2>3, <2>4, <2>5 DEF Migrated
  <1>5. Ends(Migrator)
    <2>1. ASSUME NEW t \in Sessions \ {Migrator}, call[t].op \in {"create", "update"}
          PROVE  /\ kind'[call[t].item] = kind[call[t].item]
                 /\ Written(call[t]) /\ Exists(call[t].item) => base'[call[t].item] # 0
      <3>1. call[t].item \in Items BY <2>1, CallOf DEF Fine
      <3>2. Written(call[t]) => Holds(t, call[t].item) BY DEF Written, Holds
      <3>3. call[t].item \notin Fresh BY FreshIsFresh, ProcessOf
      <3> QED BY <1>1, <3>1, <3>2, <3>3 DEF Migrated, Kept, Gone, Touched, Exists
    <2> QED BY <1>2, <2>1 DEF Ends
  <1> QED BY <1>3, <1>4, <1>5, EndsFit DEF Processes

\* A row is inserted, others may be deleted.
LEMMA Inserts ==
  ASSUME Fit, NEW m \in Ledger, Runs(m), NEW new \in Fresh, NEW k \in Kinds,
         NEW gone \in SUBSET Items, new \notin gone, Insert(new, gone, k, Seeded)
  PROVE  /\ kind' \in [Items -> Kinds \cup {None}] /\ base' \in [Items -> Numbers]
         /\ made' \in [Items -> Stamps] /\ texts' \in [Items -> [Langs -> CircuitRows]]
         /\ kind'[new] = k /\ base'[new] = me /\ made'[new] = now /\ texts'[new] = Seeded
         /\ \A i \in gone : /\ kind'[i] = kind[i] /\ made'[i] = made[i]
                            /\ base'[i] = 0 /\ texts'[i] = NoTexts
         /\ \A i \in Items \ (gone \cup {new}) :
              /\ kind'[i] = kind[i] /\ made'[i] = made[i]
              /\ base'[i] = base[i] /\ texts'[i] = texts[i]
  <1>1. new \in Items BY FreshIsFresh
  <1>2. /\ me \in Numbers /\ now \in Stamps /\ 0 \in Numbers
        /\ Seeded \in [Langs -> CircuitRows] /\ NoTexts \in [Langs -> CircuitRows]
    BY MigrationRuns, ContentAssumption DEF Numbers
  <1>3. /\ kind' = [kind EXCEPT ![new] = k] /\ made' = [made EXCEPT ![new] = now]
        /\ base' = [i \in Items |-> IF i = new THEN me ELSE IF i \in gone THEN 0 ELSE base[i]]
        /\ texts' = [i \in Items |->
                       IF i = new THEN Seeded ELSE IF i \in gone THEN NoTexts ELSE texts[i]]
    BY DEF Insert
  <1>4. Types BY DEF Fit
  <1>5. kind' \in [Items -> Kinds \cup {None}] /\ made' \in [Items -> Stamps]
    BY <1>1, <1>2, <1>3, <1>4 DEF Types
  <1>6. base' \in [Items -> Numbers] /\ texts' \in [Items -> [Langs -> CircuitRows]]
    BY <1>2, <1>3, <1>4 DEF Types
  <1>7. \A i \in Items : i # new => kind'[i] = kind[i] /\ made'[i] = made[i]
    BY <1>3, <1>4 DEF Types
  <1> QED BY <1>1, <1>3, <1>4, <1>5, <1>6, <1>7 DEF Types

LEMMA SeedRitualsFits == ASSUME Fit, SeedRituals PROVE Migrated /\ Fit'
  <1>1. "060" \in Ledger /\ Runs("060") BY Strings DEF SeedRituals
  <1>2. removed' \subseteq Items /\ UNCHANGED <<circuits, duas>>
        /\ circuits' \in [Items -> SUBSET CircuitRows] /\ duas' \in [Items -> SUBSET DuaRows]
    BY DEF SeedRituals, Fit, Types
  <1>3. CASE UNCHANGED <<kind, base, made, texts>>
    <2>1. Migrated BY <1>2, <1>3 DEF Migrated, Kept
    <2> QED BY <1>1, <1>2, <1>3, <2>1, MigratedFits DEF Fit, Types
  <1>4. CASE \E i \in Fresh : Insert(i, {}, "ritual", UmrahSteps)
    <2>1. PICK i \in Fresh : Insert(i, {}, "ritual", Seeded) BY <1>4 DEF UmrahSteps
    <2>2. "ritual" \in Kinds BY DEF Kinds
    <2>3. /\ kind' \in [Items -> Kinds \cup {None}] /\ base' \in [Items -> Numbers]
          /\ made' \in [Items -> Stamps] /\ texts' \in [Items -> [Langs -> CircuitRows]]
          /\ kind'[i] = "ritual" /\ base'[i] = me /\ made'[i] = now /\ texts'[i] = Seeded
          /\ \A j \in Items \ {i} : /\ kind'[j] = kind[j] /\ made'[j] = made[j]
                                    /\ base'[j] = base[j] /\ texts'[j] = texts[j]
      BY <1>1, <2>1, <2>2, Inserts
    <2>4. Migrated BY <1>2, <2>2, <2>3 DEF Migrated, Kept, Touched
    <2> QED BY <1>1, <1>2, <2>3, <2>4, MigratedFits
  <1> QED BY <1>3, <1>4 DEF SeedRituals

LEMMA SeedCircuitsFits == ASSUME Fit, SeedCircuits PROVE Migrated /\ Fit'
  <1>1. "063" \in Ledger /\ Runs("063") /\ "063" \in migrated'
    BY Strings DEF SeedCircuits, Runs
  <1>2. UNCHANGED <<kind, base, made, removed, texts, duas>> BY DEF SeedCircuits
  <1>3. CASE UNCHANGED circuits
    <2>1. Migrated BY <1>2, <1>3 DEF Migrated, Kept
    <2> QED BY <1>1, <1>2, <1>3, <2>1, MigratedFits DEF Fit, Types
  <1>4. ASSUME NEW i \in LiveOf("ritual"), circuits' = [circuits EXCEPT ![i] = TawafCircuits]
        PROVE  Migrated /\ Fit'
    <2>1. i \in Items /\ Exists(i) /\ kind[i] = "ritual" BY DEF LiveOf, All
    <2>2. Seed \in CircuitRows /\ "067" \notin migrated BY <1>1, MigrationRuns
    <2>3. duas[i] = {} BY <2>1, <2>2 DEF Fit, ItemFine
    <2>4. /\ circuits' \in [Items -> SUBSET CircuitRows] /\ circuits'[i] = {Seed}
          /\ \A j \in Items \ {i} : circuits'[j] = circuits[j]
      BY <1>4, <2>1, <2>2 DEF Fit, Types, TawafCircuits
    <2>5. Touched(i) BY <1>1, <1>2, <2>1, <2>3, <2>4 DEF Touched
    <2>6. Migrated BY <1>2, <2>4, <2>5 DEF Migrated, Kept
    <2> QED BY <1>1, <1>2, <2>4, <2>6, MigratedFits DEF Fit, Types
  <1> QED BY <1>3, <1>4 DEF SeedCircuits

LEMMA CreateRitualDuasFits == ASSUME Fit, CreateRitualDuas PROVE Migrated /\ Fit'
  <1>1. "066" \in Ledger /\ Runs("066") BY Strings DEF CreateRitualDuas
  <1>2. UNCHANGED <<kind, base, made, removed, texts, circuits, duas>>
    BY DEF CreateRitualDuas, tables
  <1>3. Migrated BY <1>2 DEF Migrated, Kept
  <1> QED BY <1>1, <1>2, <1>3, MigratedFits DEF Fit, Types

LEMMA ReseedRitualsFits == ASSUME Fit, ReseedRituals PROVE Migrated /\ Fit'
  <1>1. "067" \in Ledger /\ Runs("067") BY Strings DEF ReseedRituals
  <1>2. /\ {"063", "066", "067"} \subseteq migrated'
        /\ Seed \in CircuitRows /\ StepDuas \cup CircuitDuas \subseteq DuaRows
    BY <1>1, MigrationRuns DEF Runs
  <1>3. PICK i \in Fresh :
          /\ Insert(i, All("ritual"), "ritual", Seeded)
          /\ circuits' = [j \in Items |-> IF j = i THEN {Seed} ELSE {}]
          /\ duas' = [j \in Items |-> IF j = i THEN StepDuas \cup CircuitDuas ELSE {}]
    BY DEF ReseedRituals, Steps, Circuits
  <1>4. i \in Items /\ i \notin All("ritual") /\ circuits[i] = {} /\ duas[i] = {}
        /\ All("ritual") \subseteq Items
    BY FreshIsFresh DEF All, Fit, ItemFine
  <1>5. "ritual" \in Kinds BY DEF Kinds
  <1>6. /\ kind' \in [Items -> Kinds \cup {None}] /\ base' \in [Items -> Numbers]
        /\ made' \in [Items -> Stamps] /\ texts' \in [Items -> [Langs -> CircuitRows]]
        /\ kind'[i] = "ritual" /\ base'[i] = me /\ made'[i] = now /\ texts'[i] = Seeded
        /\ \A j \in All("ritual") : /\ kind'[j] = kind[j] /\ made'[j] = made[j]
                                    /\ base'[j] = 0 /\ texts'[j] = NoTexts
        /\ \A j \in Items \ (All("ritual") \cup {i}) :
             /\ kind'[j] = kind[j] /\ made'[j] = made[j]
             /\ base'[j] = base[j] /\ texts'[j] = texts[j]
    BY <1>1, <1>3, <1>4, <1>5, Inserts
  <1>7. /\ circuits' \in [Items -> SUBSET CircuitRows] /\ duas' \in [Items -> SUBSET DuaRows]
        /\ circuits'[i] = {Seed} /\ duas'[i] = StepDuas \cup CircuitDuas
        /\ \A j \in Items \ {i} : circuits'[j] = {} /\ duas'[j] = {}
    BY <1>2, <1>3, <1>4
  <1>8. removed' \subseteq Items BY DEF ReseedRituals, Fit, Types
  <1>9. ASSUME NEW j \in Items PROVE Kept(j) \/ Gone(j) \/ Touched(j)
    <2>1. CASE j = i BY <1>2, <1>4, <1>5, <1>6, <1>7, <2>1 DEF Touched
    <2>2. CASE j \in All("ritual")
      <3>1. \A s \in Sessions : ~Holds(s, j) BY <2>2 DEF ReseedRituals, Unheld
      <3> QED BY <1>4, <1>6, <1>7, <2>2, <3>1 DEF Gone
    <2>3. CASE j \notin All("ritual") /\ j # i
      <3>1. circuits[j] = {} /\ duas[j] = {} BY <2>3 DEF Fit, ItemFine, All
      <3> QED BY <1>6, <1>7, <2>3, <3>1 DEF Kept
    <2> QED BY <2>1, <2>2, <2>3
  <1> QED BY <1>1, <1>6, <1>7, <1>8, <1>9, MigratedFits DEF Migrated

LEMMA ReseedDuasFits == ASSUME Fit, ReseedDuas PROVE Migrated /\ Fit'
  <1>1. "055" \in Ledger /\ Runs("055") BY Strings DEF ReseedDuas
  <1>2. UNCHANGED <<circuits, duas>>
        /\ circuits' \in [Items -> SUBSET CircuitRows] /\ duas' \in [Items -> SUBSET DuaRows]
    BY DEF ReseedDuas, Fit, Types
  <1>3. CASE UNCHANGED <<kind, base, made, texts, removed>>
    <2>1. Migrated BY <1>2, <1>3 DEF Migrated, Kept
    <2> QED BY <1>1, <1>2, <1>3, <2>1, MigratedFits DEF Fit, Types
  <1>4. ASSUME NEW i \in Fresh, NEW old \in SUBSET All("dua"), Unheld(old),
               Insert(i, old, "dua", GuideDuas), removed' = removed \ old
        PROVE  Migrated /\ Fit'
    <2>1. "dua" \in Kinds /\ Insert(i, old, "dua", Seeded) BY <1>4 DEF Kinds, GuideDuas
    <2>2. i \in Items /\ i \notin old /\ old \subseteq Items
      BY FreshIsFresh DEF All
    <2>3. /\ kind' \in [Items -> Kinds \cup {None}] /\ base' \in [Items -> Numbers]
          /\ made' \in [Items -> Stamps] /\ texts' \in [Items -> [Langs -> CircuitRows]]
          /\ kind'[i] = "dua" /\ base'[i] = me /\ made'[i] = now /\ texts'[i] = Seeded
          /\ \A j \in old : /\ kind'[j] = kind[j] /\ made'[j] = made[j]
                            /\ base'[j] = 0 /\ texts'[j] = NoTexts
          /\ \A j \in Items \ (old \cup {i}) : /\ kind'[j] = kind[j] /\ made'[j] = made[j]
                                               /\ base'[j] = base[j] /\ texts'[j] = texts[j]
      BY <1>1, <2>1, <2>2, Inserts
    <2>4. \A j \in old : circuits[j] = {} /\ duas[j] = {}
      BY DEF Fit, ItemFine, All
    <2>5. \A j \in old, s \in Sessions : ~Holds(s, j) BY <1>4 DEF Unheld
    <2>6. Migrated BY <1>2, <2>1, <2>3, <2>4, <2>5 DEF Migrated, Kept, Gone, Touched
    <2>7. removed' \subseteq Items BY <1>4 DEF Fit, Types
    <2> QED BY <1>1, <1>2, <2>3, <2>6, <2>7, MigratedFits
  <1> QED BY <1>3, <1>4 DEF ReseedDuas

LEMMA SeedLocationsFits == ASSUME Fit, SeedLocations PROVE Migrated /\ Fit'
  <1>1. "057" \in Ledger /\ Runs("057") BY Strings DEF SeedLocations
  <1>2. removed' \subseteq Items /\ UNCHANGED <<circuits, duas>>
        /\ circuits' \in [Items -> SUBSET CircuitRows] /\ duas' \in [Items -> SUBSET DuaRows]
    BY DEF SeedLocations, Fit, Types
  <1>3. CASE UNCHANGED <<kind, base, made, texts>>
    <2>1. Migrated BY <1>2, <1>3 DEF Migrated, Kept
    <2> QED BY <1>1, <1>2, <1>3, <2>1, MigratedFits DEF Fit, Types
  <1>4. CASE \E i \in Fresh : Insert(i, {}, "location", Places)
    <2>1. PICK i \in Fresh : Insert(i, {}, "location", Seeded) BY <1>4 DEF Places
    <2>2. "location" \in Kinds BY DEF Kinds
    <2>3. /\ kind' \in [Items -> Kinds \cup {None}] /\ base' \in [Items -> Numbers]
          /\ made' \in [Items -> Stamps] /\ texts' \in [Items -> [Langs -> CircuitRows]]
          /\ kind'[i] = "location" /\ base'[i] = me /\ made'[i] = now /\ texts'[i] = Seeded
          /\ \A j \in Items \ {i} : /\ kind'[j] = kind[j] /\ made'[j] = made[j]
                                    /\ base'[j] = base[j] /\ texts'[j] = texts[j]
      BY <1>1, <2>1, <2>2, Inserts
    <2>4. Migrated BY <1>2, <2>2, <2>3 DEF Migrated, Kept, Touched
    <2> QED BY <1>1, <1>2, <2>3, <2>4, MigratedFits
  <1> QED BY <1>3, <1>4 DEF SeedLocations

\* What the two migrations that write some rows anew do to the tables.
Rewrite(k, new, old, some, written) ==
  /\ kind' = [i \in Items |-> IF i \in new THEN k ELSE kind[i]]
  /\ base' = [i \in Items |-> IF i \in some \cup new THEN me ELSE base[i]]
  /\ made' = [i \in Items |-> IF i \in old \cup written \cup new THEN now ELSE made[i]]
  /\ texts' = [i \in Items |-> IF i \in written \cup new THEN Seeded ELSE texts[i]]

LEMMA Rewrites ==
  ASSUME Fit, NEW m \in Ledger, Runs(m), NEW k \in Kinds,
         NEW new \in SUBSET Fresh, NEW old \in SUBSET LiveOf(k),
         NEW some \in SUBSET LiveOf(k), NEW written \in SUBSET some,
         UNCHANGED <<circuits, duas>>, removed' \subseteq Items,
         Rewrite(k, new, old, some, written)
  PROVE  Migrated /\ Fit'
  <1>1. me \in Numbers /\ now \in Stamps /\ Seeded \in [Langs -> CircuitRows]
    BY MigrationRuns
  <1>2. Types BY DEF Fit
  <1>3. /\ kind' \in [Items -> Kinds \cup {None}] /\ base' \in [Items -> Numbers]
        /\ made' \in [Items -> Stamps] /\ texts' \in [Items -> [Langs -> CircuitRows]]
    BY <1>1, <1>2 DEF Types, Rewrite
  <1>4. /\ circuits' \in [Items -> SUBSET CircuitRows] /\ duas' \in [Items -> SUBSET DuaRows]
    BY <1>2 DEF Types
  <1>5. ASSUME NEW i \in Items PROVE Kept(i) \/ Touched(i)
    <2>1. some \cap new = {} /\ (i \in some => Exists(i))
      BY FreshIsFresh DEF LiveOf, All
    <2>2. CASE i \in new BY <2>1, <2>2 DEF Touched, Rewrite
    <2>3. CASE i \in some BY <2>1, <2>3 DEF Touched, Rewrite
    <2>4. CASE i \notin new /\ i \notin some BY <2>4 DEF Kept, Rewrite
    <2> QED BY <2>2, <2>3, <2>4
  <1>6. Migrated BY <1>5 DEF Migrated
  <1> QED BY <1>3, <1>4, <1>6, MigratedFits

LEMMA SeedJourneyDuasFits == ASSUME Fit, SeedJourneyDuas PROVE Migrated /\ Dates /\ Fit'
  <1>1. "074" \in Ledger /\ Runs("074") /\ "dua" \in Kinds BY Strings DEF SeedJourneyDuas, Kinds
  <1>2. removed' \subseteq Items /\ UNCHANGED <<removed, circuits, duas>>
    BY DEF SeedJourneyDuas, Fit, Types
  <1>3. CASE UNCHANGED <<kind, base, made, texts>>
    <2>1. Migrated /\ Dates BY <1>2, <1>3 DEF Migrated, Kept, Dates
    <2> QED BY <1>1, <1>2, <1>3, <2>1, MigratedFits DEF Fit, Types
  <1>4. ASSUME NEW i \in Fresh, NEW up \in LiveOf("dua") \cup {None},
               NEW renumbered \in SUBSET (LiveOf("dua") \ {up}),
               kind' = [kind EXCEPT ![i] = "dua"],
               base' = [j \in Items |-> IF j \in renumbered \cup {i, up} THEN me ELSE base[j]],
               made' = [j \in Items |-> IF j \in {i, up} THEN now ELSE made[j]],
               texts' = [j \in Items |-> IF j = i THEN JourneyDuas
                                         ELSE IF j = up THEN Masjid ELSE texts[j]]
        PROVE  Migrated /\ Dates /\ Fit'
    <2> DEFINE written == {up} \cap Items
               some == renumbered \cup written
    <2>1. LiveOf("dua") \subseteq Items /\ None \notin Items /\ i \in Items
      BY FreshIsFresh, ContentAssumption DEF LiveOf, All
    <2>2. written \subseteq LiveOf("dua") /\ some \subseteq LiveOf("dua") BY <2>1
    <2>3. kind' = [j \in Items |-> IF j \in {i} THEN "dua" ELSE kind[j]]
      BY <1>4 DEF Fit, Types
    <2>4. base' = [j \in Items |-> IF j \in some \cup {i} THEN me ELSE base[j]]
      BY <1>4
    <2>5. made' = [j \in Items |-> IF j \in {} \cup written \cup {i} THEN now ELSE made[j]]
      BY <1>4
    <2>6. texts' = [j \in Items |-> IF j \in written \cup {i} THEN Seeded ELSE texts[j]]
      BY <1>4 DEF JourneyDuas, Masjid
    <2>7. Dates BY <1>2, <1>4 DEF Dates
    <2>8. {} \subseteq LiveOf("dua") /\ {i} \subseteq Fresh /\ written \subseteq some OBVIOUS
    <2> HIDE DEF some, written
    <2>9. Rewrite("dua", {i}, {}, some, written) BY <2>3, <2>4, <2>5, <2>6, Zenon DEF Rewrite
    <2> QED BY <1>1, <1>2, <2>2, <2>8, <2>9, <2>7, Rewrites
  <1>5. CASE \E i \in Fresh, up \in LiveOf("dua") \cup {None} :
               \E renumbered \in SUBSET (LiveOf("dua") \ {up}) :
                 /\ Unwritten(renumbered)
                 /\ up # None => Unwritten({up}) /\ Untexted(up)
                 /\ kind' = [kind EXCEPT ![i] = "dua"]
                 /\ base' = [j \in Items |-> IF j \in renumbered \cup {i, up} THEN me ELSE base[j]]
                 /\ made' = [j \in Items |-> IF j \in {i, up} THEN now ELSE made[j]]
                 /\ texts' = [j \in Items |-> IF j = i THEN JourneyDuas
                                              ELSE IF j = up THEN Masjid ELSE texts[j]]
    <2>1. PICK i \in Fresh, up \in LiveOf("dua") \cup {None} :
            \E renumbered \in SUBSET (LiveOf("dua") \ {up}) :
                 /\ Unwritten(renumbered)
                 /\ up # None => Unwritten({up}) /\ Untexted(up)
                 /\ kind' = [kind EXCEPT ![i] = "dua"]
                 /\ base' = [j \in Items |-> IF j \in renumbered \cup {i, up} THEN me ELSE base[j]]
                 /\ made' = [j \in Items |-> IF j \in {i, up} THEN now ELSE made[j]]
                 /\ texts' = [j \in Items |-> IF j = i THEN JourneyDuas
                                              ELSE IF j = up THEN Masjid ELSE texts[j]]
      BY <1>5, Zenon
    <2>2. PICK renumbered \in SUBSET (LiveOf("dua") \ {up}) :
                 /\ kind' = [kind EXCEPT ![i] = "dua"]
                 /\ base' = [j \in Items |-> IF j \in renumbered \cup {i, up} THEN me ELSE base[j]]
                 /\ made' = [j \in Items |-> IF j \in {i, up} THEN now ELSE made[j]]
                 /\ texts' = [j \in Items |-> IF j = i THEN JourneyDuas
                                              ELSE IF j = up THEN Masjid ELSE texts[j]]
      BY <2>1, Zenon
    <2> QED BY <1>4, <2>2
  <1> QED BY <1>3, <1>5, Zenon DEF SeedJourneyDuas

LEMMA FixLocationsFits == ASSUME Fit, FixLocations PROVE Migrated /\ Fit'
  <1>1. "068" \in Ledger /\ Runs("068") /\ "location" \in Kinds
    BY Strings DEF FixLocations, Kinds
  <1>2. PICK old \in SUBSET LiveOf("location") :
          \E up \in SUBSET (LiveOf("location") \ old), new \in {{}} \cup {{i} : i \in Fresh} :
            /\ Cardinality(up) <= 1
            /\ Unwritten(old \cup up) /\ \A i \in up : Untexted(i)
            /\ removed' = removed \cup old
            /\ kind' = [i \in Items |-> IF i \in new THEN "location" ELSE kind[i]]
            /\ base' = [i \in Items |-> IF i \in up \cup new THEN me ELSE base[i]]
            /\ made' = [i \in Items |-> IF i \in old \cup up \cup new THEN now ELSE made[i]]
            /\ texts' = [i \in Items |-> IF i \in up \cup new THEN FixedPlaces ELSE texts[i]]
    BY Zenon DEF FixLocations
  <1>3. PICK up \in SUBSET (LiveOf("location") \ old), new \in {{}} \cup {{i} : i \in Fresh} :
            /\ removed' = removed \cup old
            /\ kind' = [i \in Items |-> IF i \in new THEN "location" ELSE kind[i]]
            /\ base' = [i \in Items |-> IF i \in up \cup new THEN me ELSE base[i]]
            /\ made' = [i \in Items |-> IF i \in old \cup up \cup new THEN now ELSE made[i]]
            /\ texts' = [i \in Items |-> IF i \in up \cup new THEN Seeded ELSE texts[i]]
    BY <1>2, Zenon DEF FixedPlaces
  <1>4. new \subseteq Fresh /\ up \subseteq LiveOf("location") /\ up \subseteq up BY <1>3
  <1>5. removed' \subseteq Items BY <1>2, <1>3 DEF LiveOf, All, Fit, Types
  <1>6. UNCHANGED <<circuits, duas>> BY DEF FixLocations
  <1>7. Rewrite("location", new, old, up, up) BY <1>3, Zenon DEF Rewrite
  <1> QED BY <1>1, <1>2, <1>4, <1>5, <1>6, <1>7, Rewrites

-----------------------------------------------------------------------------
(* Fit holds always *)

LEMMA InitFit == Init => Fit
  <1> SUFFICES ASSUME Init PROVE Fit OBVIOUS
  <1>1. PICK old \in SUBSET Items, k \in Kinds, en \in Langs, done \in {{}, {"060", "063", "066"}} :
       /\ k = "ritual" => Cardinality(old) = 1
       /\ done # {} => k = "ritual"
       /\ migrated = done
       /\ circuits = [i \in Items |->
            IF i \in old /\ k = "ritual" THEN {[by |-> 1, at |-> 0]} ELSE {}]
       /\ kind = [i \in Items |-> IF i \in old THEN k ELSE None]
       /\ base = [i \in Items |-> IF i \in old THEN 1 ELSE 0]
       /\ texts = [i \in Items |-> [l \in Langs |->
                     IF i \in old /\ l = en THEN [by |-> 1, at |-> 0] ELSE NoText]]
    BY DEF Init
  <1>2. /\ made = [i \in Items |-> 0] /\ removed = {} /\ duas = [i \in Items |-> {}]
        /\ clock = 0 /\ changes = 1 /\ call = [s \in Processes |-> NoCall]
    BY DEF Init
  <1>3. 0 \in Numbers /\ 1 \in Numbers /\ 0 \in Stamps /\ 1 \in 1..1
    BY ContentAssumption DEF Numbers, Stamps
  <1>4. [by |-> 1, at |-> 0] \in CircuitRows /\ NoText \in CircuitRows
    BY <1>3 DEF CircuitRows, NoText
  <1>5. done \subseteq Ledger BY <1>1, Strings
  <1>6. call \in [Processes -> Calls]
    <2>1. NoCall \in Calls
      <3>1. NoCall.got \in Gots BY DEF NoCall, NoRows, Gots
      <3>2. NoCall.body \in Bodies BY Sequences DEF NoCall, Nothing, Bodies
      <3> QED BY <1>3, <3>1, <3>2, Sequences DEF NoCall, Calls, Ats
    <2> QED BY <1>2, <2>1
  <1>7. kind \in [Items -> Kinds \cup {None}] BY <1>1
  <1>8. base \in [Items -> Numbers] /\ made \in [Items -> Stamps] BY <1>1, <1>2, <1>3
  <1>9. texts \in [Items -> [Langs -> CircuitRows]] BY <1>1, <1>4
  <1>10. circuits \in [Items -> SUBSET CircuitRows] /\ duas \in [Items -> SUBSET DuaRows]
    BY <1>1, <1>2, <1>4
  <1>11. Types BY <1>1, <1>2, <1>3, <1>5, <1>6, <1>7, <1>8, <1>9, <1>10 DEF Types
  <1>12. ASSUME NEW i \in Items PROVE ItemFine(i)
    <2>1. base[i] <= changes /\ made[i] <= clock BY <1>1, <1>2
    <2>2. ASSUME NEW l \in Langs
          PROVE  texts[i][l] = NoText \/ Past(texts[i][l].by, texts[i][l].at)
      <3>1. texts[i][l] = NoText \/ texts[i][l] = [by |-> 1, at |-> 0] BY <1>1
      <3> QED BY <1>2, <1>3, <3>1 DEF Past
    <2>3. \A c \in circuits[i] : Past(c.by, c.at)
      <3>1. \A c \in circuits[i] : c = [by |-> 1, at |-> 0] BY <1>1
      <3> QED BY <1>2, <1>3, <3>1 DEF Past
    <2>4. duas[i] = {} BY <1>2
    <2>5. Exists(i) => kind[i] # None
      BY <1>1, ContentAssumption DEF Exists
    <2>6. ~Exists(i) => texts[i] = NoTexts /\ circuits[i] = {} BY <1>1 DEF Exists, NoTexts
    <2>7. circuits[i] # {} => kind[i] = "ritual" BY <1>1
    <2> QED BY <2>1, <2>2, <2>3, <2>4, <2>5, <2>6, <2>7 DEF ItemFine
  <1>13. \A p \in Processes : call[p] = NoCall BY <1>2
  <1>14. Fine(NoCall) /\ MigrationFine(NoCall) BY <1>11, NobodyCalls
  <1>15. \A s \in Sessions : Fine(call[s]) BY <1>13, <1>14, ProcessOf
  <1>16. MigrationFine(call[Migrator]) BY <1>13, <1>14 DEF Processes
  <1>17. Apart BY <1>13 DEF Apart, NoCall
  <1> QED BY <1>11, <1>12, <1>15, <1>16, <1>17 DEF Fit

LEMMA GoOnFits == ASSUME Fit, NEW s \in Sessions, GoOn(s) PROVE Fit'
  BY FindItemFits, WriteBaseFits, LookAtCircuitsFits, CommitFits, FailFits,
     UpsertTextFits, ReplaceCircuitsFits DEF GoOn

LEMMA EditingFits == ASSUME Fit, NEW s \in Sessions, Editing(s) PROVE Fit'
  BY RoutesFit, GoOnFits
     DEF Editing, RitualRoutes, DuaRoutes, LocationRoutes, CreateRitual, UpdateRitual,
         CreateDua, UpdateDua, CreateLocation, UpdateLocation, Kinds

LEMMA MigratingFits == ASSUME Fit, Migrating PROVE Fit'
  BY BeginMigrationFits, SeedRitualsFits, SeedCircuitsFits, CreateRitualDuasFits,
     ReseedRitualsFits, ReseedDuasFits, SeedJourneyDuasFits, SeedLocationsFits, FixLocationsFits
     DEF Migrating

LEMMA NextFits == Fit /\ [Next]_contentVars => Fit'
  <1> SUFFICES ASSUME Fit, [Next]_contentVars PROVE Fit' OBVIOUS
  <1>1. CASE UNCHANGED contentVars
    <2>1. Types' BY <1>1 DEF Fit, Types, contentVars, tables
    <2>2. \A i \in Items : ItemFine(i)'
      BY <1>1 DEF Fit, ItemFine, Past, Exists, contentVars, tables
    <2>3. \A s \in Sessions : Fine(call[s])'
      BY <1>1 DEF Fit, Fine, Exists, Written, contentVars, tables
    <2>4. MigrationFine(call[Migrator])' BY <1>1 DEF Fit, MigrationFine, contentVars
    <2>5. Apart' BY <1>1 DEF Fit, Apart, contentVars
    <2> QED BY <2>1, <2>2, <2>3, <2>4, <2>5 DEF Fit
  <1>2. CASE Next
    BY <1>2, MigratingFits, TickFits, RestartFits, RemoveFits, EditingFits, DownloadingFits
       DEF Next
  <1> QED BY <1>1, <1>2

\* Fit, the inductive invariant the others are proved from: what the tables hold, what the
\* request of a session has written so far, and that no two processes make the same change.
THEOREM ContentInvariant == Spec => []Fit
  BY InitFit, NextFits, PTL DEF Spec

\* Rows keep their types; a text, a circuit and a du'a have their item, and a du'a of a circuit
\* has its circuit, whichever edits and migrations overlap.
THEOREM ContentTypeCorrect == Spec => []ContentTypeOK
  <1>1. Fit => ContentTypeOK
    <2> SUFFICES ASSUME Fit PROVE ContentTypeOK OBVIOUS
    <2>1. Types BY DEF Fit
    <2>2. ASSUME NEW i \in Items
          PROVE  /\ circuits[i] \subseteq [by : Numbers, at : Stamps]
                 /\ duas[i] \subseteq [of : Numbers, by : Numbers, at : Stamps]
                 /\ \A d \in duas[i] : d.of # 0 => \E c \in circuits[i] : c.by = d.of
                 /\ texts[i] # NoTexts \/ circuits[i] # {} => Exists(i)
                 /\ Exists(i) => kind[i] # None
      BY <2>1 DEF Fit, Types, ItemFine, CircuitRows, DuaRows
    <2>3. \A s \in Sessions : call[s].op \in {"create", "update"} => call[s].item \in Items
      BY DEF Fit, Fine
    <2> QED BY <2>1, <2>2, <2>3 DEF ContentTypeOK, Types, CircuitRows
  <1> QED BY <1>1, ContentInvariant, PTL

-----------------------------------------------------------------------------
(* Replacements: every list of circuits an item has has an owner, the      *)
(* session that inserted it or the migrations, and no two have the same:   *)
(* a session that replaces the circuits again has seen its own list.       *)

Looked(c) == /\ c.op \in {"create", "update"} /\ c.body.circuits # "kept"
             /\ c.at \in {"replace", "commit"}

Owned(o) ==
  /\ \A i \in Items : \A c, d \in circuits[i] : o[i][c.by] = o[i][d.by] => c.by = d.by
  /\ \A i \in Items : \A c \in circuits[i] : o[i][c.by] = Migrator => "063" \in migrated
  /\ \A s \in Sessions : Looked(call[s]) =>
       \A c \in circuits[call[s].item] : o[call[s].item][c.by] = s => c \in call[s].seen

\* What is not committed is in no table, and was seen by nobody.
NotYet ==
  /\ \A p \in Processes : call[p].change # 0 =>
       /\ \A i \in Items : \A c \in circuits[i] : c.by # call[p].change
       /\ \A s \in Sessions : \A c \in call[s].seen : c.by # call[p].change
  /\ \A s \in Sessions : \A c \in call[s].seen : c.by <= changes

\* A circuit that was deleted does not come back.
DropsSeen ==
  \A s \in Sessions : Looked(call[s]) /\ call[s].at = "commit" =>
    call[s].seen \cap circuits[call[s].item] \subseteq call[s].dropped

Owners == \E o \in [Items -> [Numbers -> Processes]] : Owned(o)

Replacing == NotYet /\ DropsSeen /\ Owners

\* A request stays, sees nothing, looks at the circuits, or picks those it will drop.
Quiet(c, d) ==
  \/ d = c
  \/ d.seen = {} /\ ~Looked(d)
  \/ d.item \in Items /\ d.seen = circuits[d.item] /\ d.at = "replace"
  \/ /\ Looked(c) /\ d.item = c.item /\ d.seen = c.seen
     /\ d.dropped = c.seen \cap circuits[c.item]

Continues(c, d) == d.change = 0 \/ d.change = c.change \/ (d.change = changes + 1 /\ d.seen = {})

LEMMA QuietKeeps ==
  ASSUME Fit, Replacing, UNCHANGED circuits, migrated \subseteq migrated',
         changes <= changes', changes' \in Nat,
         \A p \in Processes : Continues(call[p], call'[p]),
         \A s \in Sessions : Quiet(call[s], call'[s])
  PROVE  Replacing'
  <1>1. changes \in Nat BY Times DEF Fit
  <1>2. \A i \in Items : \A c \in circuits[i] : c.by \in Nat /\ c.by <= changes
    BY <1>1 DEF Fit, ItemFine, Past
  <1>3. \A s \in Sessions : call[s].seen \subseteq CircuitRows
    BY CallOf DEF Calls
  <1>4. \A s \in Sessions : \A c \in call[s].seen : c.by \in Nat
    BY <1>3, ContentAssumption DEF CircuitRows, Numbers
  <1>5. \A s \in Sessions : \/ call'[s].seen \in {call[s].seen, {}}
                            \/ \E i \in Items : call'[s].seen = circuits[i]
    BY DEF Quiet
  <1>6. ASSUME NEW p \in Processes, call'[p].change # 0
        PROVE  /\ \A i \in Items : \A c \in circuits'[i] : c.by # call'[p].change
               /\ \A s \in Sessions : \A c \in call'[s].seen : c.by # call'[p].change
    <2>1. CASE call'[p].change = call[p].change
      BY <1>5, <1>6, <2>1 DEF Replacing, NotYet
    <2>2. CASE call'[p].change = changes + 1
      <3>1. \A i \in Items : \A c \in circuits[i] : c.by # changes + 1 BY <1>1, <1>2
      <3>2. \A s \in Sessions : \A c \in call[s].seen : c.by # changes + 1
        BY <1>1, <1>4 DEF Replacing, NotYet
      <3> QED BY <1>5, <2>2, <3>1, <3>2
    <2> QED BY <1>6, <2>1, <2>2 DEF Continues
  <1>7. ASSUME NEW s \in Sessions, NEW c \in call'[s].seen PROVE c.by <= changes'
    <2>1. CASE call'[s].seen = call[s].seen
      <3>1. c.by \in Nat /\ c.by <= changes BY <1>4, <2>1 DEF Replacing, NotYet
      <3> QED BY <1>1, <3>1
    <2>2. CASE \E i \in Items : call'[s].seen = circuits[i]
      <3>1. c.by \in Nat /\ c.by <= changes BY <1>2, <2>2
      <3> QED BY <1>1, <3>1
    <2> QED BY <1>5, <2>1, <2>2
  <1>8. NotYet' BY <1>6, <1>7 DEF NotYet
  <1>9. DropsSeen'
    <2>1. ASSUME NEW s \in Sessions, Looked(call'[s]), call'[s].at = "commit"
          PROVE  call'[s].seen \cap circuits'[call'[s].item] \subseteq call'[s].dropped
      <3>1. CASE call'[s] = call[s] BY <2>1, <3>1 DEF Replacing, DropsSeen
      <3>2. CASE call'[s].seen = {} BY <3>2
      <3> QED BY <2>1, <3>1, <3>2 DEF Quiet
    <2> QED BY <2>1 DEF DropsSeen, Looked
  <1>10. PICK o \in [Items -> [Numbers -> Processes]] : Owned(o) BY DEF Replacing, Owners
  <1>11. Owned(o)'
    <2>1. ASSUME NEW s \in Sessions, Looked(call'[s]),
                 NEW c \in circuits'[call'[s].item], o[call'[s].item][c.by] = s
          PROVE  c \in call'[s].seen
      <3>1. CASE call'[s] = call[s] BY <1>10, <2>1, <3>1 DEF Owned
      <3>2. CASE call'[s].seen = circuits[call'[s].item] BY <3>2
      <3>3. CASE Looked(call[s]) /\ call'[s].item = call[s].item /\ call'[s].seen = call[s].seen
        BY <1>10, <2>1, <3>3 DEF Owned
      <3> QED BY <2>1, <3>1, <3>2, <3>3 DEF Quiet
    <2> QED BY <1>10, <2>1 DEF Owned, Looked
  <1> QED BY <1>8, <1>9, <1>10, <1>11 DEF Replacing, Owners

LEMMA CommitReplaces == ASSUME Fit, Replacing, NEW s \in Sessions, Commit(s) PROVE Replacing'
  <1>1. PICK b, i : b = call[s] /\ i = call[s].item OBVIOUS
  <1>2. /\ i \in Items /\ b.change \in 1..changes /\ b.change \in Numbers
        /\ b.at = "commit" /\ b.op \in {"create", "update"}
    BY <1>1, CommitTypes
  <1>3. /\ circuits'[i] = (circuits[i] \ b.dropped) \cup b.fresh
        /\ \A j \in Items \ {i} : circuits'[j] = circuits[j]
    BY <1>1, CommitWrites DEF Committed
  <1>4. /\ \A f \in b.fresh : f.by = b.change
        /\ b.fresh # {} => Looked(b)
    BY <1>1, <1>2, CallOf DEF Fine, Looked
  <1>5. /\ call'[s] = NoCall /\ \A p \in Processes \ {s} : call'[p] = call[p]
        /\ migrated' = migrated /\ changes' = changes
    BY DEF Commit, Reply, Fit, Types, Processes
  <1>6. NoCall.change = 0 /\ NoCall.seen = {} /\ ~Looked(NoCall)
    BY DEF NoCall, Looked
  <1>7. \A p \in Processes \ {s} : call[p].change # b.change
    BY <1>1, <1>2, ProcessOf DEF Fit, Apart
  <1>8. NotYet'
    <2>1. ASSUME NEW p \in Processes, call'[p].change # 0
          PROVE  /\ \A j \in Items : \A c \in circuits'[j] : c.by # call'[p].change
                 /\ \A t \in Sessions : \A c \in call'[t].seen : c.by # call'[p].change
      <3>1. p # s /\ call'[p] = call[p] BY <1>5, <1>6, <2>1
      <3>2. /\ \A j \in Items : \A c \in circuits[j] : c.by # call[p].change
            /\ \A t \in Sessions : \A c \in call[t].seen : c.by # call[p].change
        BY <2>1, <3>1 DEF Replacing, NotYet
      <3>3. \A j \in Items : \A c \in circuits'[j] : c \in circuits[j] \/ c \in b.fresh
        BY <1>3
      <3> QED BY <1>4, <1>5, <1>6, <1>7, <3>1, <3>2, <3>3, ProcessOf
    <2>2. \A t \in Sessions : \A c \in call'[t].seen : c.by <= changes'
      BY <1>5, <1>6, ProcessOf DEF Replacing, NotYet
    <2> QED BY <2>1, <2>2 DEF NotYet
  <1>9. DropsSeen'
    <2>1. ASSUME NEW t \in Sessions, Looked(call'[t]), call'[t].at = "commit"
          PROVE  call'[t].seen \cap circuits'[call'[t].item] \subseteq call'[t].dropped
      <3>1. t # s /\ call'[t] = call[t] BY <1>5, <1>6, <2>1, ProcessOf
      <3>2. call[t].seen \cap circuits[call[t].item] \subseteq call[t].dropped
        BY <2>1, <3>1 DEF Replacing, DropsSeen
      <3>3. call[t].item \in Items BY <2>1, <3>1, CallOf DEF Fine, Looked
      <3>4. \A f \in b.fresh : f \notin call[t].seen
        BY <1>1, <1>2, <1>4, ProcessOf DEF Replacing, NotYet
      <3> QED BY <1>3, <3>1, <3>2, <3>3, <3>4
    <2> QED BY <2>1 DEF DropsSeen, Looked
  <1>10. PICK o \in [Items -> [Numbers -> Processes]] : Owned(o) BY DEF Replacing, Owners
  <1> DEFINE p == [o EXCEPT ![i] = [o[i] EXCEPT ![b.change] = s]]
  <1>11. /\ p \in [Items -> [Numbers -> Processes]]
         /\ p[i][b.change] = s
         /\ \A n \in Numbers : n # b.change => p[i][n] = o[i][n]
         /\ \A j \in Items \ {i} : p[j] = o[j]
    <2> DEFINE q == [o[i] EXCEPT ![b.change] = s]
    <2>1. o[i] \in [Numbers -> Processes] BY <1>2
    <2>2. /\ q \in [Numbers -> Processes] /\ q[b.change] = s
          /\ \A n \in Numbers : n # b.change => q[n] = o[i][n]
      BY <1>2, <2>1, ProcessOf
    <2> HIDE DEF q
    <2>3. p = [o EXCEPT ![i] = q] BY DEF q
    <2> QED BY <1>2, <2>2, <2>3
  <1>12. \A j \in Items : \A c \in circuits[j] : c.by \in Numbers /\ c.by # b.change
    <2>1. \A j \in Items : \A c \in circuits[j] : c.by # b.change
      BY <1>1, <1>2, ProcessOf DEF Replacing, NotYet
    <2>2. \A j \in Items : \A c \in circuits[j] : c.by \in Numbers
      BY DEF Fit, Types, CircuitRows
    <2> QED BY <2>1, <2>2
  <1> HIDE DEF p
  <1>13. Owned(p)'
    <2>1. ASSUME NEW c \in circuits'[i], NEW d \in circuits'[i], p[i][c.by] = p[i][d.by]
          PROVE  c.by = d.by
      <3>1. ASSUME NEW x \in circuits[i] \ b.dropped, NEW f \in b.fresh PROVE p[i][x.by] # s
        <4>1. Looked(b) BY <1>4, <3>1
        <4>2. o[i][x.by] = s => x \in b.seen BY <1>1, <1>10, <4>1, <3>1 DEF Owned
        <4>3. b.seen \cap circuits[i] \subseteq b.dropped
          BY <1>1, <1>2, <4>1 DEF Replacing, DropsSeen
        <4> QED BY <1>11, <1>12, <1>2, <3>1, <4>2, <4>3
      <3>2. \A f \in b.fresh : p[i][f.by] = s BY <1>4, <1>11
      <3>3. CASE c \in circuits[i] \ b.dropped /\ d \in circuits[i] \ b.dropped
        BY <1>2, <1>10, <1>11, <1>12, <2>1, <3>3 DEF Owned
      <3>4. CASE c \in b.fresh /\ d \in b.fresh BY <1>4, <3>4
      <3> QED BY <1>3, <2>1, <3>1, <3>2, <3>3, <3>4
    <2>2. ASSUME NEW j \in Items, j # i, NEW c \in circuits'[j], NEW d \in circuits'[j],
                 p[j][c.by] = p[j][d.by]
          PROVE  c.by = d.by
      BY <1>3, <1>10, <1>11, <2>2 DEF Owned
    <2>3. ASSUME NEW j \in Items, NEW c \in circuits'[j], p[j][c.by] = Migrator
          PROVE  "063" \in migrated'
      <3>1. CASE j = i /\ c \in b.fresh BY <1>4, <1>11, <2>3, <3>1, ProcessOf
      <3>2. CASE c \in circuits[j]
        <4>1. p[j][c.by] = o[j][c.by] BY <1>2, <1>11, <1>12, <3>2
        <4> QED BY <1>5, <1>10, <2>3, <3>2, <4>1 DEF Owned
      <3> QED BY <1>3, <3>1, <3>2
    <2>4. ASSUME NEW t \in Sessions, Looked(call'[t]), NEW c \in circuits'[call'[t].item],
                 p[call'[t].item][c.by] = t
          PROVE  c \in call'[t].seen
      <3>1. t # s /\ call'[t] = call[t] BY <1>5, <1>6, <2>4, ProcessOf
      <3>2. call[t].item \in Items BY <2>4, <3>1, CallOf DEF Fine, Looked
      <3>3. c \in circuits[call[t].item]
        BY <1>3, <1>4, <1>11, <2>4, <3>1, <3>2
      <3>4. p[call[t].item][c.by] = o[call[t].item][c.by] BY <1>2, <1>11, <1>12, <3>2, <3>3
      <3> QED BY <1>10, <2>4, <3>1, <3>3, <3>4 DEF Owned
    <2> QED BY <2>1, <2>2, <2>3, <2>4 DEF Owned, Looked
  <1> QED BY <1>8, <1>9, <1>11, <1>13 DEF Replacing, Owners

LEMMA MigrationReplaces ==
  ASSUME Fit, Replacing, NEW m \in Ledger, Runs(m), Migrated
  PROVE  Replacing'
  <1>1. PICK n : n = me OBVIOUS
  <1>2. /\ n \in Numbers /\ n \in 1..changes /\ call[Migrator].change = n
        /\ me = n /\ Migrator \in Processes
    BY <1>1, MigrationRuns DEF me, Processes
  <1>3. /\ call'[Migrator] = NoCall /\ \A p \in Processes \ {Migrator} : call'[p] = call[p]
        /\ \A s \in Sessions : call'[s] = call[s]
        /\ migrated \subseteq migrated' /\ changes' = changes
    BY ProcessOf DEF Runs, Reply, Fit, Types, Processes
  <1>4. NoCall.change = 0 BY DEF NoCall
  <1>5. \A i \in Items : \/ circuits'[i] = circuits[i]
                         \/ circuits'[i] = {}
                         \/ circuits'[i] = {Seed} /\ "063" \in migrated'
    BY DEF Migrated, Kept, Gone, Touched
  <1>6. Seed.by = n BY <1>1 DEF Seed
  <1>7. \A p \in Processes \ {Migrator} : call[p].change # n
    BY <1>2 DEF Fit, Apart
  <1>8. /\ \A i \in Items : \A c \in circuits[i] : c.by # n /\ c.by \in Numbers
        /\ \A s \in Sessions : \A c \in call[s].seen : c.by # n
    BY <1>2 DEF Replacing, NotYet, Fit, Types, CircuitRows
  <1>9. NotYet'
    <2>1. ASSUME NEW p \in Processes, call'[p].change # 0
          PROVE  /\ \A i \in Items : \A c \in circuits'[i] : c.by # call'[p].change
                 /\ \A s \in Sessions : \A c \in call'[s].seen : c.by # call'[p].change
      <3>1. p # Migrator /\ call'[p] = call[p] BY <1>3, <1>4, <2>1
      <3>2. /\ \A i \in Items : \A c \in circuits[i] : c.by # call[p].change
            /\ \A s \in Sessions : \A c \in call[s].seen : c.by # call[p].change
        BY <2>1, <3>1 DEF Replacing, NotYet
      <3>3. \A i \in Items : \A c \in circuits'[i] : c \in circuits[i] \/ c.by = n
        BY <1>5, <1>6
      <3> QED BY <1>3, <1>7, <3>1, <3>2, <3>3
    <2>2. \A s \in Sessions : \A c \in call'[s].seen : c.by <= changes'
      BY <1>3 DEF Replacing, NotYet
    <2> QED BY <2>1, <2>2 DEF NotYet
  <1>10. DropsSeen'
    <2>1. ASSUME NEW s \in Sessions, Looked(call'[s]), call'[s].at = "commit"
          PROVE  call'[s].seen \cap circuits'[call'[s].item] \subseteq call'[s].dropped
      <3>1. call'[s] = call[s] /\ call[s].item \in Items
        BY <1>3, <2>1, CallOf DEF Fine, Looked
      <3>2. call[s].seen \cap circuits[call[s].item] \subseteq call[s].dropped
        BY <2>1, <3>1 DEF Replacing, DropsSeen
      <3> QED BY <1>5, <1>6, <1>8, <3>1, <3>2
    <2> QED BY <2>1 DEF DropsSeen, Looked
  <1>11. PICK o \in [Items -> [Numbers -> Processes]] : Owned(o) BY DEF Replacing, Owners
  <1> DEFINE q(i) == [o[i] EXCEPT ![n] = Migrator]
             p == [i \in Items |-> q(i)]
  <1>12. \A i \in Items : /\ q(i) \in [Numbers -> Processes] /\ q(i)[n] = Migrator
                          /\ \A k \in Numbers : k # n => q(i)[k] = o[i][k]
    BY <1>2
  <1> HIDE DEF q
  <1>13. /\ p \in [Items -> [Numbers -> Processes]]
         /\ \A i \in Items : /\ p[i][n] = Migrator
                             /\ \A c \in circuits[i] : p[i][c.by] = o[i][c.by]
    BY <1>8, <1>12
  <1> HIDE DEF p
  <1>14. Owned(p)'
    <2>1. ASSUME NEW i \in Items, NEW c \in circuits'[i], NEW d \in circuits'[i],
                 p[i][c.by] = p[i][d.by]
          PROVE  c.by = d.by
      <3>1. CASE circuits'[i] = circuits[i] BY <1>11, <1>13, <2>1, <3>1 DEF Owned
      <3>2. CASE circuits'[i] = {Seed} BY <2>1, <3>2
      <3> QED BY <1>5, <2>1, <3>1, <3>2
    <2>2. ASSUME NEW i \in Items, NEW c \in circuits'[i], p[i][c.by] = Migrator
          PROVE  "063" \in migrated'
      <3>1. CASE circuits'[i] = circuits[i] BY <1>3, <1>11, <1>13, <2>2, <3>1 DEF Owned
      <3> QED BY <1>5, <2>2, <3>1
    <2>3. ASSUME NEW s \in Sessions, Looked(call'[s]), NEW c \in circuits'[call'[s].item],
                 p[call'[s].item][c.by] = s
          PROVE  c \in call'[s].seen
      <3>1. call'[s] = call[s] /\ call[s].item \in Items
        BY <1>3, <2>3, CallOf DEF Fine, Looked
      <3>2. c.by # n BY <1>13, <2>3, <3>1, ProcessOf
      <3>3. c \in circuits[call[s].item] BY <1>5, <1>6, <2>3, <3>1, <3>2
      <3> QED BY <1>11, <1>13, <2>3, <3>1, <3>3 DEF Owned
    <2> QED BY <2>1, <2>2, <2>3 DEF Owned, Looked
  <1> QED BY <1>9, <1>10, <1>13, <1>14 DEF Replacing, Owners

\* A step of a request of s.
LEMMA QuietStep ==
  ASSUME Fit, Replacing, NEW s \in Sessions,
         \A p \in Processes \ {s} : call'[p] = call[p], UNCHANGED <<circuits, migrated>>,
         changes' \in {changes, changes + 1},
         Quiet(call[s], call'[s]), Continues(call[s], call'[s])
  PROVE  Replacing'
  <1>1. changes <= changes' /\ changes' \in Nat BY Times DEF Fit
  <1>2. \A p \in Processes : Continues(call[p], call'[p]) BY DEF Continues
  <1>3. \A t \in Sessions : Quiet(call[t], call'[t]) BY ProcessOf DEF Quiet
  <1> QED BY <1>1, <1>2, <1>3, QuietKeeps

\* One that looks at no circuits, and may begin a change.
LEMMA NotLooking ==
  ASSUME Fit, Fit', Replacing, NEW s \in Sessions,
         \A p \in Processes \ {s} : call'[p] = call[p], UNCHANGED <<circuits, migrated>>,
         changes' \in {changes, changes + 1},
         call'[s].change \in {0, call[s].change, changes + 1},
         call'[s].at \notin {"replace", "commit"} \/ call'[s].body.circuits = "kept"
  PROVE  Replacing'
  <1>1. Fine(call[s])' BY DEF Fit
  <1>2. call'[s].seen = {} BY <1>1 DEF Fine
  <1>3. Quiet(call[s], call'[s]) /\ Continues(call[s], call'[s])
    BY <1>2 DEF Quiet, Continues, Looked
  <1> QED BY <1>3, QuietStep

LEMMA RepliesReplace ==
  ASSUME Fit, Fit', Replacing, NEW s \in Sessions, Reply(s),
         UNCHANGED <<circuits, migrated, changes>>
  PROVE  Replacing'
  <1>1. call'[s] = NoCall /\ \A p \in Processes \ {s} : call'[p] = call[p]
    BY ProcessOf DEF Reply, Fit, Types
  <1>2. NoCall.change = 0 /\ NoCall.at = "idle" BY DEF NoCall
  <1> QED BY <1>1, <1>2, NotLooking

LEMMA DownloadsReplace ==
  ASSUME Fit, Fit', Replacing, NEW s \in Sessions, Downloading(s)
  PROVE  Replacing'
  <1>1. UNCHANGED <<circuits, migrated, changes>>
    BY DEF Downloading, FindAllRituals, FindAllDuas, FindAllLocations, FindAll, ReadTexts,
           ReadCircuits, ReadCircuitTexts, ReadDuas, tables
  <1>2. ASSUME NEW k, FindAll(s, k)
        PROVE  /\ \A p \in Processes \ {s} : call'[p] = call[p]
               /\ call'[s].change = 0 /\ call'[s].at = "texts"
    BY <1>2, ProcessOf DEF FindAll, Fit, Types, NoCall
  <1>3. ASSUME ReadTexts(s) \/ ReadCircuits(s) \/ ReadCircuitTexts(s) \/ ReadDuas(s), ~Reply(s)
        PROVE  /\ \A p \in Processes \ {s} : call'[p] = call[p]
               /\ call'[s].change = call[s].change
               /\ call'[s].at \in {"circuits", "told", "duas"}
    <2>1. call[s] \in Calls /\ s \in Processes BY CallOf, ProcessOf
    <2>2. CASE ReadTexts(s)
      BY <1>3, <2>1, <2>2 DEF ReadTexts, Answer, Fit, Types, Calls
    <2>3. CASE ReadCircuits(s) BY <2>1, <2>3 DEF ReadCircuits, Fit, Types, Calls
    <2>4. CASE ReadCircuitTexts(s) BY <2>1, <2>4 DEF ReadCircuitTexts, Fit, Types, Calls
    <2>5. CASE ReadDuas(s) BY <1>3, <2>5 DEF ReadDuas, Answer
    <2> QED BY <1>3, <2>2, <2>3, <2>4, <2>5
  <1>4. CASE Reply(s) BY <1>1, <1>4, RepliesReplace
  <1>5. CASE FindAllRituals(s) \/ FindAllDuas(s) \/ FindAllLocations(s)
    <2>1. PICK k : FindAll(s, k) BY <1>5 DEF FindAllRituals, FindAllDuas, FindAllLocations
    <2>2. /\ \A p \in Processes \ {s} : call'[p] = call[p]
          /\ call'[s].change = 0 /\ call'[s].at = "texts"
      BY <1>2, <2>1
    <2> QED BY <1>1, <2>2, NotLooking
  <1>6. CASE (ReadTexts(s) \/ ReadCircuits(s) \/ ReadCircuitTexts(s) \/ ReadDuas(s)) /\ ~Reply(s)
    <2>1. /\ \A p \in Processes \ {s} : call'[p] = call[p]
          /\ call'[s].change = call[s].change
          /\ call'[s].at \in {"circuits", "told", "duas"}
      BY <1>3, <1>6
    <2> QED BY <1>1, <2>1, NotLooking
  <1> QED BY <1>4, <1>5, <1>6 DEF Downloading

LEMMA LooksReplace ==
  ASSUME Fit, Replacing, NEW s \in Sessions, LookAtCircuits(s)
  PROVE  Replacing'
  <1>1. call[s] \in Calls /\ s \in Processes /\ Fine(call[s]) /\ call[s].item \in Items
    BY CallOf, ProcessOf DEF LookAtCircuits, InTransaction, Fine
  <1>2. /\ call'[s].at = "replace" /\ call'[s].seen = circuits[call'[s].item]
        /\ call'[s].item = call[s].item /\ call'[s].change = call[s].change
        /\ \A p \in Processes \ {s} : call'[p] = call[p]
    BY <1>1 DEF LookAtCircuits, Fit, Types, Calls
  <1>3. UNCHANGED <<circuits, migrated, changes>> BY DEF LookAtCircuits, tables
  <1>4. Quiet(call[s], call'[s]) /\ Continues(call[s], call'[s])
    BY <1>1, <1>2 DEF Quiet, Continues
  <1> QED BY <1>2, <1>3, <1>4, QuietStep

LEMMA DropsReplace ==
  ASSUME Fit, Fit', Replacing, NEW s \in Sessions, NEW t, ReplaceCircuits(s, t)
  PROVE  Replacing'
  <1>1. call[s] \in Calls /\ s \in Processes /\ Fine(call[s]) /\ call[s].item \in Items
        /\ Looked(call[s])
    BY CallOf, ProcessOf DEF ReplaceCircuits, InTransaction, Fine, Looked
  <1>2. UNCHANGED <<circuits, migrated, changes>> BY DEF ReplaceCircuits, tables
  <1>3. CASE Reply(s) BY <1>2, <1>3, RepliesReplace
  <1>4. CASE ~Reply(s)
    <2>1. call' = [call EXCEPT ![s].at = "commit", ![s].dropped = ToDrop(s),
                      ![s].fresh = IF call[s].body.circuits = "new"
                                   THEN {[by |-> call[s].change, at |-> t]} ELSE {}]
      BY <1>4 DEF ReplaceCircuits
    <2>2. /\ call'[s].seen = call[s].seen /\ call'[s].dropped = ToDrop(s)
          /\ call'[s].item = call[s].item /\ call'[s].change = call[s].change
          /\ \A p \in Processes \ {s} : call'[p] = call[p]
      BY <1>1, <2>1 DEF Fit, Types, Calls
    <2>3. Quiet(call[s], call'[s]) /\ Continues(call[s], call'[s])
      BY <1>1, <2>2 DEF Quiet, Continues, ToDrop
    <2> QED BY <1>2, <2>2, <2>3, QuietStep
  <1> QED BY <1>3, <1>4

LEMMA StatementsReplace ==
  ASSUME Fit, Fit', Replacing, NEW s \in Sessions, GoOn(s)
  PROVE  Replacing'
  <1>1. call[s] \in Calls /\ s \in Processes BY CallOf, ProcessOf
  <1>2. CASE FindItem(s)
    <2>1. UNCHANGED <<circuits, migrated, changes>> BY <1>2 DEF FindItem, tables
    <2>2. CASE Reply(s) BY <2>1, <2>2, RepliesReplace
    <2>3. CASE call' = [call EXCEPT ![s].at = "base"]
      <3>1. /\ call'[s].at = "base" /\ call'[s].change = call[s].change
            /\ \A p \in Processes \ {s} : call'[p] = call[p]
        BY <1>1, <2>3 DEF Fit, Types, Calls
      <3> QED BY <2>1, <3>1, NotLooking
    <2> QED BY <1>2, <2>2, <2>3 DEF FindItem
  <1>3. CASE WriteBase(s)
    <2>1. UNCHANGED <<circuits, migrated, changes>> BY <1>3 DEF WriteBase, tables
    <2>2. PICK at : at = After(call[s]) OBVIOUS
    <2>3. call' = [call EXCEPT ![s].at = at, ![s].since = clock] BY <1>3, <2>2 DEF WriteBase
    <2>4. /\ call'[s].at = at /\ call'[s].change = call[s].change
          /\ call'[s].body = call[s].body
          /\ \A p \in Processes \ {s} : call'[p] = call[p]
      BY <1>1, <2>3 DEF Fit, Types, Calls
    <2>5. at \notin {"replace", "commit"} \/ call[s].body.circuits = "kept"
      BY <2>2, AfterAt
    <2> QED BY <2>1, <2>4, <2>5, NotLooking
  <1>4. ASSUME NEW t, UpsertText(s, t) PROVE Replacing'
    <2>1. UNCHANGED <<circuits, migrated, changes>> BY <1>4 DEF UpsertText, tables
    <2>2. CASE Reply(s) BY <2>1, <2>2, RepliesReplace
    <2>3. CASE ~Reply(s)
      <3>1. PICK c : c = [call[s] EXCEPT !.left = Tail(@), !.since = clock,
                      !.written = {w \in @ : w.lang # Head(call[s].left)} \cup {Upserted(s, t)}]
        OBVIOUS
      <3>2. call' = [call EXCEPT ![s] = [c EXCEPT !.at = After(c)]]
        BY <1>4, <2>3, <3>1 DEF UpsertText
      <3>3. PICK at : at = After(c) OBVIOUS
      <3>4. c.body = call[s].body /\ c.change = call[s].change BY <1>1, <3>1 DEF Calls
      <3>5. PICK d : d = [c EXCEPT !.at = at] OBVIOUS
      <3>6. d.at = at /\ d.body = call[s].body /\ d.change = call[s].change
        BY <1>1, <3>1, <3>5 DEF Calls
      <3>7. call' = [call EXCEPT ![s] = d] BY <3>2, <3>3, <3>5
      <3>8. call'[s] = d /\ \A p \in Processes \ {s} : call'[p] = call[p]
        BY <1>1, <3>7 DEF Fit, Types
      <3>9. at \notin {"replace", "commit"} \/ call[s].body.circuits = "kept"
        BY <3>3, <3>4, AfterAt
      <3> QED BY <2>1, <3>6, <3>8, <3>9, NotLooking
    <2> QED BY <2>2, <2>3
  <1>5. CASE Fail(s) BY <1>5, RepliesReplace DEF Fail, tables
  <1> QED BY <1>2, <1>3, <1>4, <1>5, LooksReplace, DropsReplace, CommitReplaces DEF GoOn

LEMMA BeginsReplace ==
  ASSUME Fit, Fit', Replacing, NEW s \in Sessions, NEW op \in {"create", "update"}, NEW k,
         NEW i, NEW body, Begin(s, op, k, i, body)
  PROVE  Replacing'
  <1>1. s \in Processes BY ProcessOf
  <1>2. UNCHANGED <<circuits, migrated>> /\ changes' = changes + 1
    BY DEF Begin, NewChange, tables
  <1>3. PICK c : /\ c = [NoCall EXCEPT !.op = op, !.kind = k, !.item = i, !.change = changes',
                             !.began = clock, !.since = clock, !.body = body,
                             !.left = body.texts]
                 /\ call' = [call EXCEPT ![s] = [c EXCEPT
                               !.at = IF op = "create" THEN After(c) ELSE "find"]]
    BY DEF Begin
  <1>4. PICK at : at = IF op = "create" THEN After(c) ELSE "find" OBVIOUS
  <1>5. c.body = body BY <1>3 DEF NoCall
  <1>6. PICK d : d = [c EXCEPT !.at = at] OBVIOUS
  <1>7. d.at = at /\ d.body = body /\ d.change = changes + 1
    BY <1>2, <1>3, <1>6 DEF NoCall
  <1>8. call' = [call EXCEPT ![s] = d] BY <1>3, <1>4, <1>6
  <1>9. call'[s] = d /\ \A p \in Processes \ {s} : call'[p] = call[p]
    BY <1>1, <1>8 DEF Fit, Types
  <1>10. at \notin {"replace", "commit"} \/ body.circuits = "kept"
    BY <1>4, <1>5, AfterAt
  <1> QED BY <1>2, <1>7, <1>9, <1>10, NotLooking

LEMMA EditingReplaces ==
  ASSUME Fit, Fit', Replacing, NEW s \in Sessions, Editing(s)
  PROVE  Replacing'
  <1>1. ASSUME NEW k, Create(s, k) PROVE Replacing'
    <2>1. PICK i \in Fresh, e \in BodiesOf(k) : Begin(s, "create", k, i, e)
      BY <1>1 DEF Create
    <2> QED BY <2>1, BeginsReplace
  <1>2. ASSUME NEW k, Update(s, k) PROVE Replacing'
    <2>1. PICK i \in All(k), e \in BodiesOf(k) : Begin(s, "update", k, i, e)
      BY <1>2 DEF Update
    <2> QED BY <2>1, BeginsReplace
  <1> QED BY <1>1, <1>2, StatementsReplace
          DEF Editing, RitualRoutes, DuaRoutes, LocationRoutes, CreateRitual, UpdateRitual,
              CreateDua, UpdateDua, CreateLocation, UpdateLocation

LEMMA OthersReplace ==
  ASSUME Fit, Replacing,
         \/ UNCHANGED contentVars \/ Tick \/ Restart \/ BeginMigration
         \/ \E i \in Items : Remove(i)
  PROVE  Replacing'
  <1>1. UNCHANGED <<circuits, migrated>> /\ changes' \in {changes, changes + 1}
    BY DEF contentVars, tables, Tick, Restart, BeginMigration, Remove, NewChange
  <1>2. changes <= changes' /\ changes' \in Nat BY <1>1, Times DEF Fit
  <1>3. CASE call' = call
    BY <1>1, <1>2, <1>3, QuietKeeps DEF Quiet, Continues
  <1>4. CASE Restart
    <2>1. \A p \in Processes : call'[p] = NoCall BY <1>4 DEF Restart
    <2>2. NoCall.change = 0 /\ NoCall.seen = {} /\ ~Looked(NoCall) BY DEF NoCall, Looked
    <2>3. \A p \in Processes : Continues(call[p], call'[p]) BY <2>1, <2>2 DEF Continues
    <2>4. \A s \in Sessions : Quiet(call[s], call'[s]) BY <2>1, <2>2, ProcessOf DEF Quiet
    <2> QED BY <1>1, <1>2, <2>3, <2>4, QuietKeeps
  <1>5. CASE BeginMigration
    <2>1. changes' = changes + 1 BY <1>5 DEF BeginMigration, NewChange
    <2>2. PICK c : /\ call' = [call EXCEPT ![Migrator] = c]
                   /\ c.change = changes + 1 /\ c.seen = {}
      <3>1. PICK k \in Kinds, m \in Ledger :
              call' = [call EXCEPT ![Migrator] = [NoCall EXCEPT !.op = m, !.at = "run",
                         !.kind = k, !.change = changes', !.began = clock]]
        BY <1>5 DEF BeginMigration
      <3>2. PICK c : c = [NoCall EXCEPT !.op = m, !.at = "run", !.kind = k,
                                        !.change = changes', !.began = clock]
        OBVIOUS
      <3>3. c.change = changes + 1 /\ c.seen = {} BY <2>1, <3>2 DEF NoCall
      <3> QED BY <3>1, <3>2, <3>3
    <2>3. call'[Migrator] = c /\ \A p \in Processes \ {Migrator} : call'[p] = call[p]
      BY <2>2 DEF Fit, Types, Processes
    <2>4. \A p \in Processes : Continues(call[p], call'[p]) BY <2>2, <2>3 DEF Continues
    <2>5. \A s \in Sessions : Quiet(call[s], call'[s]) BY <2>3, ProcessOf DEF Quiet
    <2> QED BY <1>1, <1>2, <2>4, <2>5, QuietKeeps
  <1> QED BY <1>3, <1>4, <1>5 DEF contentVars, Tick, Remove

LEMMA MigratingReplaces == ASSUME Fit, Replacing, Migrating PROVE Replacing'
  <1>1. ASSUME NEW m \in Ledger, Runs(m), Migrated PROVE Replacing'
    BY <1>1, MigrationReplaces
  <1>2. {"060", "063", "066", "067", "055", "074", "057", "068"} \subseteq Ledger BY Strings
  <1>3. CASE BeginMigration BY <1>3, OthersReplace
  <1>4. CASE SeedRituals BY <1>1, <1>2, <1>4, SeedRitualsFits DEF SeedRituals
  <1>5. CASE SeedCircuits BY <1>1, <1>2, <1>5, SeedCircuitsFits DEF SeedCircuits
  <1>6. CASE CreateRitualDuas BY <1>1, <1>2, <1>6, CreateRitualDuasFits DEF CreateRitualDuas
  <1>7. CASE ReseedRituals BY <1>1, <1>2, <1>7, ReseedRitualsFits DEF ReseedRituals
  <1>8. CASE ReseedDuas BY <1>1, <1>2, <1>8, ReseedDuasFits DEF ReseedDuas
  <1>9. CASE SeedJourneyDuas BY <1>1, <1>2, <1>9, SeedJourneyDuasFits DEF SeedJourneyDuas
  <1>10. CASE SeedLocations BY <1>1, <1>2, <1>10, SeedLocationsFits DEF SeedLocations
  <1>11. CASE FixLocations BY <1>1, <1>2, <1>11, FixLocationsFits DEF FixLocations
  <1> QED BY <1>3, <1>4, <1>5, <1>6, <1>7, <1>8, <1>9, <1>10, <1>11 DEF Migrating

LEMMA NextReplaces == Fit /\ Fit' /\ Replacing /\ [Next]_contentVars => Replacing'
  BY OthersReplace, MigratingReplaces, EditingReplaces, DownloadsReplace DEF Next

\* The list an item may have at first is anybody's.
LEMMA InitReplacing == Init => Replacing
  <1> SUFFICES ASSUME Init PROVE Replacing OBVIOUS
  <1>1. \A p \in Processes : call[p] = NoCall BY DEF Init
  <1>2. NoCall.change = 0 /\ NoCall.seen = {} /\ ~Looked(NoCall) BY DEF NoCall, Looked
  <1>3. \A i \in Items : \A c \in circuits[i] : c = [by |-> 1, at |-> 0] BY DEF Init
  <1>4. PICK s : s \in Sessions BY ContentAssumption
  <1> DEFINE o == [i \in Items |-> [n \in Numbers |-> s]]
  <1>5. o \in [Items -> [Numbers -> Processes]] BY <1>4, ProcessOf
  <1>6. ASSUME NEW i \in Items, NEW c \in circuits[i] PROVE o[i][c.by] # Migrator
    <2>1. c.by = 1 /\ 1 \in Numbers BY <1>3, ContentAssumption DEF Numbers
    <2> QED BY <1>4, <2>1, ProcessOf
  <1>7. \A i \in Items : \A c, d \in circuits[i] : c.by = d.by BY <1>3
  <1>8. \A t \in Sessions : ~Looked(call[t]) /\ call[t].seen = {}
    BY <1>1, <1>2, ProcessOf
  <1>9. \A p \in Processes : call[p].change = 0 BY <1>1, <1>2
  <1> HIDE DEF o
  <1>10. Owned(o) BY <1>6, <1>7, <1>8 DEF Owned
  <1>11. NotYet /\ DropsSeen BY <1>8, <1>9 DEF NotYet, DropsSeen
  <1> QED BY <1>5, <1>10, <1>11 DEF Replacing, Owners

\* As many owners, so at most as many lists.
LEMMA FewOwners == ASSUME Fit, Replacing PROVE ReplacementsBounded
  <1>1. PICK o \in [Items -> [Numbers -> Processes]] : Owned(o) BY DEF Replacing, Owners
  <1>2. ASSUME NEW i \in Items
        PROVE  Cardinality({c.by : c \in circuits[i]})
                 <= Cardinality(Sessions) + (IF "063" \in migrated THEN 1 ELSE 0)
    <2> DEFINE lists == {c.by : c \in circuits[i]}
               owners == Sessions \cup (IF "063" \in migrated THEN {Migrator} ELSE {})
               f == [n \in lists |-> o[i][n]]
    <2>1. IsFiniteSet(Sessions) /\ Migrator \notin Sessions BY ContentAssumption
    <2>2. Cardinality(Sessions) \in Nat BY <2>1, FS_CardinalityType
    <2>3. IsFiniteSet(owners)
          /\ Cardinality(owners) = Cardinality(Sessions) + (IF "063" \in migrated THEN 1 ELSE 0)
      <3>1. CASE "063" \in migrated
        <4>1. owners = Sessions \cup {Migrator} BY <3>1
        <4> QED BY <2>1, <3>1, <4>1, FS_AddElement
      <3>2. CASE "063" \notin migrated
        <4>1. owners = Sessions BY <3>2
        <4> QED BY <2>1, <2>2, <3>2, <4>1
      <3> QED BY <3>1, <3>2
    <2>4. lists \subseteq Numbers BY DEF Fit, Types, CircuitRows
    <2>5. \A n \in lists : o[i][n] \in owners
      <3>1. ASSUME NEW n \in lists PROVE o[i][n] \in owners
        <4>1. PICK c \in circuits[i] : n = c.by OBVIOUS
        <4>2. o[i][n] = Migrator => "063" \in migrated BY <1>1, <4>1 DEF Owned
        <4>3. o[i][n] \in Sessions \cup {Migrator} BY <1>1, <2>4 DEF Processes
        <4> QED BY <4>2, <4>3
      <3> QED BY <3>1
    <2>6. \A m, n \in lists : o[i][m] = o[i][n] => m = n BY <1>1 DEF Owned
    <2> HIDE DEF lists, owners
    <2>7. f \in Injection(lists, owners) BY <2>5, <2>6 DEF Injection, IsInjective
    <2>8. Cardinality(lists) <= Cardinality(owners)
      BY <2>3, <2>7, FS_Injection DEF ExistsInjection
    <2> QED BY <2>3, <2>8 DEF lists
  <1> QED BY <1>2 DEF ReplacementsBounded

\* However replacements of the circuits of an item overlap, with one another and with the
\* migration that inserts some, the lists that stay are no more than the sessions (replaceSubsteps).
THEOREM ReplacementsStayBounded == Spec => []ReplacementsBounded
  <1>1. Init => Fit /\ Replacing BY InitFit, InitReplacing
  <1>2. Fit /\ Replacing /\ [Next]_contentVars => (Fit /\ Replacing)' BY NextFits, NextReplaces
  <1>3. Fit /\ Replacing => ReplacementsBounded BY FewOwners
  <1> QED BY <1>1, <1>2, <1>3, PTL DEF Spec

-----------------------------------------------------------------------------
(* Versions: a step stores only rows of a change in flight, and stamps     *)
(* those that carry a time with one since the change began                 *)

Parts == {"rows", "texts", "circuits", "told", "duas"}

PartsOf(i) == [rows |-> IF Exists(i) THEN {[item |-> i, by |-> base[i], at |-> made[i]]} ELSE {},
               texts |-> TextsOf(i), circuits |-> CircuitsOf(i), told |-> CircuitsOf(i),
               duas |-> DuasOf(i)]

LEMMA StoredParts ==
  ASSUME NEW k, NEW part \in Parts, NEW m
  PROVE  /\ m \in Stored(k)[part] <=> \E i \in LiveOf(k) : m \in PartsOf(i)[part]
         /\ (m \in Stored(k)[part])' <=> \E i \in LiveOf(k)' : (m \in PartsOf(i)[part])'
  <1>1. /\ \A i \in LiveOf(k) : Exists(i)
        /\ \A i \in LiveOf(k)' : Exists(i)'
    BY DEF LiveOf, All
  <1>2. CASE part = "rows" BY <1>1, <1>2 DEF Stored, PartsOf
  <1>3. CASE part = "texts" BY <1>3 DEF Stored, PartsOf
  <1>4. CASE part = "circuits" BY <1>4 DEF Stored, PartsOf
  <1>5. CASE part = "told" BY <1>5 DEF Stored, PartsOf
  <1>6. CASE part = "duas" BY <1>6 DEF Stored, PartsOf
  <1> QED BY <1>2, <1>3, <1>4, <1>5, <1>6 DEF Parts

LEMMA PartsAreTheirs ==
  ASSUME NEW i, NEW part \in Parts, NEW m \in PartsOf(i)[part]
  PROVE  m.item = i
  <1>1. CASE part = "rows" BY <1>1 DEF PartsOf
  <1>2. CASE part = "texts" BY <1>2 DEF PartsOf, TextsOf
  <1>3. CASE part \in {"circuits", "told"} BY <1>3 DEF PartsOf, CircuitsOf
  <1>4. CASE part = "duas" BY <1>4 DEF PartsOf, DuasOf
  <1> QED BY <1>1, <1>2, <1>3, <1>4 DEF Parts

Wrote(t, m, part) == /\ call[t].change # 0 /\ m.by = call[t].change
                     /\ part # "rows" => m.at >= call[t].began

AddsNew == \A k \in Kinds, part \in Parts : \A m \in Stored(k)'[part] :
             m \in Stored(k)[part] \/ \E t \in Processes : Wrote(t, m, part)

\* A row of an item is its own, or by t.
ItemAdds(i, t) ==
  /\ Live(i)' /\ Exists(i) => Live(i) /\ kind'[i] = kind[i]
  /\ Live(i)' => \A part \in Parts : \A m \in PartsOf(i)'[part] :
                   m \in PartsOf(i)[part] \/ Wrote(t, m, part)

LEMMA ItemsAdd ==
  ASSUME Fit, NEW t \in Processes, \A i \in Items : ItemAdds(i, t)
  PROVE  AddsNew
  <1> SUFFICES ASSUME NEW k \in Kinds, NEW part \in Parts, NEW m \in Stored(k)'[part],
                      ~Wrote(t, m, part)
               PROVE  m \in Stored(k)[part]
    BY DEF AddsNew
  <1>1. PICK i \in LiveOf(k)' : m \in PartsOf(i)'[part] BY StoredParts
  <1>2. i \in Items /\ Live(i)' /\ kind'[i] = k BY <1>1 DEF LiveOf, All
  <1>3. m \in PartsOf(i)[part] BY <1>1, <1>2 DEF ItemAdds
  <1>4. Exists(i)
    <2>1. ASSUME ~Exists(i) PROVE FALSE
      <3>1. ItemFine(i) BY <1>2 DEF Fit
      <3>2. \A l \in Langs : texts[i][l] = NoText BY <2>1, <3>1 DEF ItemFine, NoTexts
      <3>3. circuits[i] = {} /\ duas[i] = {} BY <2>1, <3>1 DEF ItemFine
      <3>4. TextsOf(i) = {} /\ CircuitsOf(i) = {} /\ DuasOf(i) = {}
        BY <3>2, <3>3 DEF TextsOf, CircuitsOf, DuasOf
      <3>5. PartsOf(i)[part] = {} BY <2>1, <3>4 DEF PartsOf, Parts
      <3> QED BY <1>3, <3>5
    <2> QED BY <2>1
  <1>5. i \in LiveOf(k) BY <1>2, <1>4 DEF ItemAdds, LiveOf, All
  <1> QED BY <1>3, <1>5, StoredParts

\* An item whose rows stay, of which some may go.
LEMMA NothingAdded ==
  ASSUME NEW i, NEW t, UNCHANGED <<kind, base, made, texts, circuits, duas>>,
         i \in removed => i \in removed'
  PROVE  ItemAdds(i, t)
  BY DEF ItemAdds, Live, Exists, PartsOf, TextsOf, CircuitsOf, DuasOf

LEMMA QuietAdds ==
  ASSUME Fit, UNCHANGED <<kind, base, made, texts, circuits, duas>>, removed \subseteq removed'
  PROVE  AddsNew
  <1>1. Migrator \in Processes BY DEF Processes
  <1>2. \A i \in Items : ItemAdds(i, Migrator) BY NothingAdded
  <1> QED BY <1>1, <1>2, ItemsAdd

By(t, r) == r.by = call[t].change /\ r.at >= call[t].began

\* The same, table by table.
LEMMA RowByRow ==
  ASSUME NEW i, NEW t, call[t].change # 0,
         Live(i)' /\ Exists(i) => Live(i) /\ kind'[i] = kind[i],
         Live(i)' => base'[i] = call[t].change \/ (base'[i] = base[i] /\ made'[i] = made[i]),
         \A l \in Langs : texts'[i][l] \in {texts[i][l], NoText} \/ By(t, texts'[i][l]),
         \A c \in circuits'[i] : c \in circuits[i] \/ By(t, c),
         \A d \in duas'[i] : d \in duas[i] \/ By(t, d)
  PROVE  ItemAdds(i, t)
  <1> SUFFICES ASSUME Live(i)', NEW part \in Parts, NEW m \in PartsOf(i)'[part]
               PROVE  m \in PartsOf(i)[part] \/ Wrote(t, m, part)
    BY DEF ItemAdds
  <1>1. CASE part = "rows"
    <2>1. m = [item |-> i, by |-> base'[i], at |-> made'[i]] BY <1>1 DEF PartsOf
    <2>2. CASE base'[i] = call[t].change BY <1>1, <2>1, <2>2 DEF Wrote
    <2>3. CASE base'[i] = base[i] /\ made'[i] = made[i]
      BY <1>1, <2>1, <2>3 DEF PartsOf, Live, Exists
    <2> QED BY <2>2, <2>3
  <1>2. CASE part = "texts"
    <2>1. m \in TextsOf(i)' BY <1>2 DEF PartsOf
    <2>2. PICK l \in Langs : /\ texts'[i][l] # NoText
                             /\ m = [item |-> i, lang |-> l, by |-> texts'[i][l].by,
                                     at |-> texts'[i][l].at]
      BY <2>1 DEF TextsOf
    <2>3. CASE texts'[i][l] = texts[i][l]
      <3>1. m \in TextsOf(i) BY <2>2, <2>3 DEF TextsOf
      <3> QED BY <1>2, <3>1 DEF PartsOf
    <2>4. CASE By(t, texts'[i][l]) BY <2>2, <2>4 DEF Wrote, By
    <2> QED BY <2>2, <2>3, <2>4
  <1>3. CASE part \in {"circuits", "told"}
    <2>1. m \in CircuitsOf(i)' BY <1>3 DEF PartsOf
    <2>2. PICK c \in circuits'[i] : m = [item |-> i, by |-> c.by, at |-> c.at]
      BY <2>1 DEF CircuitsOf
    <2>3. CASE c \in circuits[i]
      <3>1. m \in CircuitsOf(i) BY <2>2, <2>3 DEF CircuitsOf
      <3> QED BY <1>3, <3>1 DEF PartsOf
    <2>4. CASE By(t, c) BY <2>2, <2>4 DEF Wrote, By
    <2> QED BY <2>3, <2>4
  <1>4. CASE part = "duas"
    <2>1. m \in DuasOf(i)' BY <1>4 DEF PartsOf
    <2>2. PICK d \in duas'[i] : m = [item |-> i, of |-> d.of, by |-> d.by, at |-> d.at]
      BY <2>1 DEF DuasOf
    <2>3. CASE d \in duas[i]
      <3>1. m \in DuasOf(i) BY <2>2, <2>3 DEF DuasOf
      <3> QED BY <1>4, <3>1 DEF PartsOf
    <2>4. CASE By(t, d) BY <2>2, <2>4 DEF Wrote, By
    <2> QED BY <2>3, <2>4
  <1> QED BY <1>1, <1>2, <1>3, <1>4 DEF Parts

LEMMA CommitAdds == ASSUME Fit, NEW s \in Sessions, Commit(s) PROVE AddsNew
  <1>1. PICK c, i : c = call[s] /\ i = call[s].item OBVIOUS
  <1>2. Committed(c, i) /\ removed' = removed BY <1>1, CommitWrites DEF Commit
  <1>3. /\ i \in Items /\ c.change \in 1..changes /\ c.change \in Nat \ {0} /\ c.began \in Nat
        /\ c.op \in {"create", "update"} /\ c.kind \in Kinds
        /\ kind[i] = IF c.op = "create" THEN None ELSE c.kind
    BY <1>1, CommitTypes, Times DEF Fit, Stamps
  <1>4. \A w \in c.written \cup c.fresh : w.by = c.change /\ w.at \in c.began .. clock
    BY <1>1, CallOf DEF Fine
  <1>5. Fine(c) /\ s \in Processes BY <1>1, CallOf, ProcessOf
  <1>6. ASSUME NEW j \in Items \ {i} PROVE ItemAdds(j, s)
    BY <1>1, <1>2, <1>3, RowByRow DEF Committed, Live, Exists
  <1>7. ItemAdds(i, s)
    <2>1. Live(i)' /\ Exists(i) => Live(i) /\ kind'[i] = kind[i]
      BY <1>2, <1>3 DEF Committed, Live, Exists, Fit, ItemFine
    <2>2. base'[i] = c.change \/ (base'[i] = base[i] /\ made'[i] = made[i])
      BY <1>2, <1>5, <1>3 DEF Committed, Fine
    <2>3. ASSUME NEW l \in Langs
          PROVE  texts'[i][l] \in {texts[i][l], NoText} \/ By(s, texts'[i][l])
      <3>1. \/ texts'[i][l] = texts[i][l]
            \/ \E w \in c.written : texts'[i][l] = [by |-> w.by, at |-> w.at]
        BY <1>2 DEF Committed
      <3>2. \A w \in c.written : w.by = c.change /\ w.at >= c.began
        BY <1>3, <1>4, Times DEF Fit
      <3>3. CASE texts'[i][l] = texts[i][l] BY <3>3
      <3>4. ASSUME NEW w \in c.written, texts'[i][l] = [by |-> w.by, at |-> w.at]
            PROVE  By(s, texts'[i][l])
        <4>1. texts'[i][l].by = w.by /\ texts'[i][l].at = w.at BY <3>4
        <4> QED BY <1>1, <3>2, <4>1 DEF By
      <3> QED BY <3>1, <3>3, <3>4
    <2>4. ASSUME NEW f \in circuits'[i] PROVE f \in circuits[i] \/ By(s, f)
      BY <1>1, <1>2, <1>3, <1>4, <2>4 DEF Committed, By
    <2>5. \A d \in duas'[i] : d \in duas[i] BY <1>2 DEF Committed, WithCircuits
    <2> QED BY <1>1, <1>3, <2>1, <2>2, <2>3, <2>4, <2>5, RowByRow
  <1> QED BY <1>5, <1>6, <1>7, ItemsAdd

LEMMA MigrationAdds ==
  ASSUME Fit, NEW m \in Ledger, Runs(m), Migrated, Dates
  PROVE  AddsNew
  <1>1. Migrator \in Processes /\ call[Migrator].change # 0 BY MigrationRuns DEF me, Processes
  <1>2. PICK n, b : n = me /\ b = now OBVIOUS
  <1>3. n \in Nat \ {0} /\ b \in Nat /\ call[Migrator].change = n /\ call[Migrator].began = b
    BY <1>2, MigrationRuns, Times DEF Fit, me, now, Stamps
  <1>4. Seed = [by |-> n, at |-> b] BY <1>2 DEF Seed
  <1>5. By(Migrator, Seed) BY <1>3, <1>4 DEF By
  <1>6. \A d \in StepDuas \cup CircuitDuas : By(Migrator, d)
    BY <1>2, <1>3 DEF By, StepDuas, CircuitDuas
  <1>7. ASSUME NEW i \in Items PROVE ItemAdds(i, Migrator)
    <2>1. Live(i)' /\ Exists(i) => Live(i) /\ kind'[i] = kind[i]
      <3>1. i \in Fresh => ~Exists(i) BY FreshIsFresh
      <3> QED BY <1>7, <3>1 DEF Migrated, Kept, Gone, Touched, Dates, Live, Exists
    <2>2. Live(i)' => base'[i] = me \/ (base'[i] = base[i] /\ made'[i] = made[i])
      BY DEF Migrated, Kept, Gone, Touched, Dates, Live, Exists
    <2>3. ASSUME NEW l \in Langs
          PROVE  texts'[i][l] \in {texts[i][l], NoText} \/ By(Migrator, texts'[i][l])
      BY <1>5 DEF Migrated, Kept, Gone, Touched, Seeded, NoTexts
    <2>4. ASSUME NEW c \in circuits'[i] PROVE c \in circuits[i] \/ By(Migrator, c)
      BY <1>5, <2>4 DEF Migrated, Kept, Gone, Touched
    <2>5. ASSUME NEW d \in duas'[i] PROVE d \in duas[i] \/ By(Migrator, d)
      BY <1>6, <2>5 DEF Migrated, Kept, Gone, Touched
    <2> QED BY <1>1, <1>2, <1>3, <2>1, <2>2, <2>3, <2>4, <2>5, RowByRow
  <1> QED BY <1>1, <1>7, ItemsAdd

LEMMA InsertDates ==
  ASSUME Fit, NEW new \in Items, NEW gone \in SUBSET Items, NEW k, NEW t,
         Insert(new, gone, k, t), new \notin gone, removed' = removed \ gone
  PROVE  Dates
  BY DEF Insert, Dates, Fit, Types

LEMMA MigratingAdds == ASSUME Fit, Migrating PROVE AddsNew
  <1>1. ASSUME NEW m \in Ledger, Runs(m), Migrated, Dates PROVE AddsNew
    BY <1>1, MigrationAdds
  <1>2. {"060", "063", "066", "067", "055", "074", "057", "068"} \subseteq Ledger BY Strings
  <1>3. \A i \in Fresh : i \in Items /\ ~Exists(i) BY FreshIsFresh
  <1>4. removed \ {} = removed /\ removed \cup {} = removed OBVIOUS
  <1>5. CASE BeginMigration BY <1>5, QuietAdds DEF BeginMigration, tables
  <1>6. CASE SeedRituals
    <2>1. UNCHANGED <<made, removed>> => Dates BY DEF Dates
    <2>2. ASSUME NEW i \in Fresh, Insert(i, {}, "ritual", UmrahSteps), removed' = removed
          PROVE  Dates
      <3>1. i \in Items /\ {} \in SUBSET Items /\ i \notin {} BY <1>3
      <3> QED BY <1>4, <2>2, <3>1, InsertDates
    <2>3. Dates BY <1>6, <2>1, <2>2 DEF SeedRituals
    <2> QED BY <1>1, <1>2, <1>6, <2>3, SeedRitualsFits DEF SeedRituals
  <1>7. CASE SeedCircuits
    <2>1. Dates BY <1>7 DEF SeedCircuits, Dates
    <2> QED BY <1>1, <1>2, <1>7, <2>1, SeedCircuitsFits DEF SeedCircuits
  <1>8. CASE CreateRitualDuas
    <2>1. Dates BY <1>8 DEF CreateRitualDuas, Dates, tables
    <2> QED BY <1>1, <1>2, <1>8, <2>1, CreateRitualDuasFits DEF CreateRitualDuas
  <1>9. CASE ReseedRituals
    <2>1. All("ritual") \in SUBSET Items /\ \A i \in Fresh : i \notin All("ritual")
      BY <1>3 DEF All
    <2>2. Dates BY <1>3, <1>9, <2>1, InsertDates DEF ReseedRituals
    <2> QED BY <1>1, <1>2, <1>9, <2>2, ReseedRitualsFits DEF ReseedRituals
  <1>10. CASE ReseedDuas
    <2>1. UNCHANGED <<made, removed>> => Dates BY DEF Dates
    <2>2. ASSUME NEW i \in Fresh, NEW old \in SUBSET All("dua"),
                 Insert(i, old, "dua", GuideDuas), removed' = removed \ old
          PROVE  Dates
      <3>1. old \in SUBSET Items /\ i \notin old BY <1>3 DEF All
      <3> QED BY <1>3, <2>2, <3>1, InsertDates
    <2>3. Dates BY <1>10, <2>1, <2>2 DEF ReseedDuas
    <2> QED BY <1>1, <1>2, <1>10, <2>3, ReseedDuasFits DEF ReseedDuas
  <1>11. CASE SeedJourneyDuas
    BY <1>1, <1>2, <1>11, SeedJourneyDuasFits DEF SeedJourneyDuas
  <1>12. CASE SeedLocations
    <2>1. UNCHANGED <<made, removed>> => Dates BY DEF Dates
    <2>2. ASSUME NEW i \in Fresh, Insert(i, {}, "location", Places), removed' = removed PROVE Dates
      <3>1. i \in Items /\ {} \in SUBSET Items /\ i \notin {} BY <1>3
      <3> QED BY <1>4, <2>2, <3>1, InsertDates
    <2>3. Dates BY <1>12, <2>1, <2>2 DEF SeedLocations
    <2> QED BY <1>1, <1>2, <1>12, <2>3, SeedLocationsFits DEF SeedLocations
  <1>13. CASE FixLocations
    <2>1. ASSUME NEW old, NEW up, NEW new, removed' = removed \cup old,
                 base' = [i \in Items |-> IF i \in up \cup new THEN me ELSE base[i]],
                 made' = [i \in Items |-> IF i \in old \cup up \cup new THEN now ELSE made[i]]
          PROVE  Dates
      BY <2>1 DEF Dates
    <2>2. Dates BY <1>13, <2>1 DEF FixLocations
    <2> QED BY <1>1, <1>2, <1>13, <2>2, FixLocationsFits DEF FixLocations
  <1> QED BY <1>5, <1>6, <1>7, <1>8, <1>9, <1>10, <1>11, <1>12, <1>13 DEF Migrating

LEMMA StepsAdd == ASSUME Fit, [Next]_contentVars PROVE AddsNew
  <1>1. CASE Migrating BY <1>1, MigratingAdds
  <1>2. ASSUME NEW s \in Sessions, Commit(s) PROVE AddsNew BY <1>2, CommitAdds
  <1>3. ASSUME NEW i \in Items, Remove(i) PROVE AddsNew BY <1>3, QuietAdds DEF Remove
  <1>4. CASE UNCHANGED tables BY <1>4, QuietAdds DEF tables
  <1>5. ASSUME NEW s \in Sessions, Editing(s) \/ Downloading(s)
        PROVE  Commit(s) \/ UNCHANGED tables
    BY <1>5 DEF Editing, RitualRoutes, DuaRoutes, LocationRoutes, CreateRitual, UpdateRitual,
         CreateDua, UpdateDua, CreateLocation, UpdateLocation, Create, Update, Begin, GoOn,
         FindItem, WriteBase, UpsertText, LookAtCircuits, ReplaceCircuits, Fail, Downloading,
         FindAllRituals, FindAllDuas, FindAllLocations, FindAll, ReadTexts, ReadCircuits,
         ReadCircuitTexts, ReadDuas
  <1>6. ASSUME Tick \/ Restart \/ UNCHANGED contentVars PROVE UNCHANGED tables
    BY <1>6 DEF Tick, Restart, contentVars
  <1> QED BY <1>1, <1>2, <1>3, <1>4, <1>5, <1>6 DEF Next

-----------------------------------------------------------------------------
(* A download: whatever is stored that it has not read, of the queries it  *)
(* has made or of an item it has not found, is newer.                      *)

Apps == [got : Gots, version : Stamps, first : Numbers, last : Numbers, open : SUBSET Numbers]

Newer(n, p) == n > p.first \/ n \in p.open

\* Whatever change may still be committed is.
Ahead(p) == \A t \in Processes : call[t].change # 0 => Newer(call[t].change, p)

Found(got) == {r.item : r \in got.rows}

Queried(at) == {"rows"} \cup (IF at = "texts" THEN {} ELSE {"texts"})
                 \cup (IF at \in {"told", "duas"} THEN {"circuits"} ELSE {})
                 \cup (IF at = "duas" THEN {"told"} ELSE {})

Known(k, got, queried, p) ==
  /\ \A part \in Parts : \A r \in got[part] : r.at <= clock
  /\ \A part \in Parts \ queried : got[part] = {}
  /\ \A part \in Parts : \A m \in Stored(k)[part] :
       m.item \notin Found(got) \/ part \in queried => m \in got[part] \/ Newer(m.by, p)

Reading(c) == /\ c.kind \in Kinds /\ c.first <= changes /\ Ahead(c)
              /\ Known(c.kind, c.got, Queried(c.at), c)

\* What the app keeps.  A change begun after the last query is stamped no earlier than the version.
Answered(k, p) ==
  /\ p.version <= clock /\ p.first <= changes /\ p.last <= changes /\ Ahead(p)
  /\ \A t \in Processes : call[t].change > p.last => call[t].began >= p.version
  /\ \A part \in Parts : \A m \in Stored(k)[part] :
       m \in p.got[part] \/ /\ Newer(m.by, p)
                            /\ part # "rows" /\ m.by > p.last => m.at >= p.version

Versioned == /\ app \in [Kinds -> Apps]
             /\ \A k \in Kinds : Answered(k, app[k])
             /\ \A s \in Sessions : call[s].op = "findAll" => Reading(call[s])

\* The calls of a step: over, going on, or with the change that begins.
Onward == \A t \in Processes :
  \/ call'[t].change = 0
  \/ call'[t].change = call[t].change /\ call'[t].began = call[t].began
  \/ call'[t].change = changes + 1 /\ changes' = changes + 1 /\ call'[t].began = clock

LEMMA StoredTypes ==
  ASSUME Types, NEW k, NEW part \in Parts, NEW m \in Stored(k)[part]
  PROVE  m.by \in Numbers /\ m.at \in Stamps
  <1>1. PICK i \in LiveOf(k) : m \in PartsOf(i)[part] BY StoredParts
  <1>2. i \in Items BY <1>1 DEF LiveOf, All
  <1> QED BY <1>1, <1>2, RowTypes DEF PartsOf, Parts

LEMMA AheadStays ==
  ASSUME Fit, Fit', Onward, NEW p, p.first \in Nat, p.first <= changes, Ahead(p)
  PROVE  Ahead(p)'
  <1> SUFFICES ASSUME NEW t \in Processes, call'[t].change # 0
               PROVE  Newer(call'[t].change, p)
    BY DEF Ahead, Newer
  <1>1. CASE call'[t].change = call[t].change BY <1>1 DEF Ahead
  <1>2. CASE call'[t].change = changes + 1 BY <1>2, Times DEF Fit, Newer
  <1> QED BY <1>1, <1>2 DEF Onward

LEMMA ReadingStays ==
  ASSUME Fit, Fit', Onward, AddsNew, changes <= changes', clock <= clock',
         NEW c \in Calls, Reading(c)
  PROVE  Reading(c)'
  <1>1. /\ changes \in Nat /\ changes' \in Nat /\ clock \in Nat /\ clock' \in Nat
        /\ c.first \in Nat
    BY Times, ContentAssumption DEF Fit, Types, Stamps, Numbers, Calls
  <1>2. c.kind \in Kinds /\ c.first <= changes' BY <1>1 DEF Reading
  <1>3. Ahead(c)' BY <1>1, AheadStays DEF Reading
  <1>4. ASSUME NEW part \in Parts, NEW r \in c.got[part] PROVE r.at <= clock'
    <2>1. r.at \in Nat BY ContentAssumption DEF Calls, Gots, Parts, Stamps
    <2>2. r.at <= clock BY DEF Reading, Known
    <2> QED BY <1>1, <2>1, <2>2
  <1>5. ASSUME NEW part \in Parts, NEW m \in Stored(c.kind)'[part],
               m.item \notin Found(c.got) \/ part \in Queried(c.at)
        PROVE  m \in c.got[part] \/ Newer(m.by, c)
    <2>1. CASE m \in Stored(c.kind)[part] BY <1>5, <2>1 DEF Reading, Known
    <2>2. CASE \E t \in Processes : Wrote(t, m, part)
      BY <2>2 DEF Reading, Ahead, Wrote
    <2> QED BY <1>2, <2>1, <2>2 DEF AddsNew
  <1>6. \A part \in Parts \ Queried(c.at) : c.got[part] = {} BY DEF Reading, Known
  <1> QED BY <1>2, <1>3, <1>4, <1>5, <1>6 DEF Reading, Known, Newer, Found, Queried

LEMMA AnsweredStays ==
  ASSUME Fit, Fit', Onward, AddsNew, changes <= changes', clock <= clock',
         NEW k \in Kinds, NEW p \in Apps, Answered(k, p)
  PROVE  Answered(k, p)'
  <1>1. /\ changes \in Nat /\ changes' \in Nat /\ clock \in Nat /\ clock' \in Nat
        /\ p.first \in Nat /\ p.last \in Nat /\ p.version \in Nat
    BY Times, ContentAssumption DEF Fit, Types, Stamps, Numbers, Apps
  <1>2. p.version <= clock' /\ p.first <= changes' /\ p.last <= changes'
    BY <1>1 DEF Answered
  <1>3. Ahead(p)' BY <1>1, AheadStays DEF Answered
  <1>4. ASSUME NEW t \in Processes, call'[t].change > p.last
        PROVE  call'[t].began >= p.version
    <2>1. CASE call'[t].change = 0 BY <1>1, <1>4, <2>1
    <2>2. CASE call'[t].change = call[t].change /\ call'[t].began = call[t].began
      BY <1>4, <2>2 DEF Answered
    <2>3. CASE call'[t].began = clock BY <1>1, <2>3 DEF Answered
    <2> QED BY <2>1, <2>2, <2>3 DEF Onward
  <1>5. ASSUME NEW part \in Parts, NEW m \in Stored(k)'[part], m \notin p.got[part]
        PROVE  /\ Newer(m.by, p)
               /\ part # "rows" /\ m.by > p.last => m.at >= p.version
    <2>1. CASE m \in Stored(k)[part] BY <1>5, <2>1 DEF Answered
    <2>2. ASSUME NEW t \in Processes, Wrote(t, m, part)
          PROVE  /\ Newer(m.by, p)
                 /\ part # "rows" /\ m.by > p.last => m.at >= p.version
      <3>1. Newer(m.by, p) BY <2>2 DEF Answered, Ahead, Wrote
      <3>2. ASSUME part # "rows", m.by > p.last PROVE m.at >= p.version
        <4>1. call[t].began >= p.version /\ m.at >= call[t].began
          BY <2>2, <3>2 DEF Answered, Wrote
        <4>2. call[t].began \in Nat
          BY OldChanges, ContentAssumption DEF Calls, Stamps
        <4>3. m.at \in Nat
          <5>1. PICK i \in LiveOf(k)' : m \in PartsOf(i)'[part] BY StoredParts
          <5>2. i \in Items BY <5>1 DEF LiveOf, All
          <5>3. /\ \A l \in Langs : texts'[i][l].at \in Nat
                /\ \A r \in circuits'[i] : r.at \in Nat
                /\ \A r \in duas'[i] : r.at \in Nat
            BY <5>2, ContentAssumption DEF Fit, Types, CircuitRows, DuaRows, Stamps
          <5>4. m \in TextsOf(i)' \/ m \in CircuitsOf(i)' \/ m \in DuasOf(i)'
            BY <3>2, <5>1 DEF PartsOf, Parts
          <5> QED BY <5>3, <5>4 DEF TextsOf, CircuitsOf, DuasOf
        <4> QED BY <1>1, <4>1, <4>2, <4>3
      <3> QED BY <3>1, <3>2
    <2> QED BY <2>1, <2>2 DEF AddsNew
  <1> QED BY <1>2, <1>3, <1>4, <1>5 DEF Answered, Newer

LEMMA VersionedStays ==
  ASSUME Fit, Fit', Versioned, AddsNew, Onward, changes <= changes', clock <= clock',
         app' \in [Kinds -> Apps],
         \A k \in Kinds : app'[k] = app[k] \/ \E p \in Apps : p = app'[k] /\ Answered(k, p)',
         \A s \in Sessions : call'[s].op = "findAll" =>
           call'[s] = call[s] \/ \E c \in Calls : c = call'[s] /\ Reading(c)'
  PROVE  Versioned'
  <1>1. ASSUME NEW k \in Kinds PROVE Answered(k, app[k])'
    <2>1. PICK p \in Apps : p = app'[k] /\ Answered(k, p)'
      <3>1. CASE app'[k] = app[k]
        <4>1. PICK p : p = app[k] OBVIOUS
        <4>2. p \in Apps /\ Answered(k, p) BY <4>1 DEF Versioned
        <4>3. Answered(k, p)' BY <4>2, AnsweredStays
        <4> QED BY <3>1, <4>1, <4>2, <4>3
      <3> QED BY <3>1
    <2> QED BY <2>1 DEF Answered, Ahead, Newer
  <1>2. ASSUME NEW s \in Sessions, call'[s].op = "findAll" PROVE Reading(call[s])'
    <2>1. PICK c \in Calls : c = call'[s] /\ Reading(c)'
      <3>1. CASE call'[s] = call[s]
        <4>1. PICK c : c = call[s] OBVIOUS
        <4>2. c \in Calls /\ Reading(c) BY <1>2, <3>1, <4>1, CallOf DEF Versioned
        <4>3. Reading(c)' BY <4>2, ReadingStays
        <4> QED BY <3>1, <4>1, <4>2, <4>3
      <3> QED BY <1>2, <3>1
    <2> QED BY <2>1 DEF Reading, Known, Ahead, Newer, Found, Queried
  <1> QED BY <1>1, <1>2 DEF Versioned

\* The session's call alone is another.
Turns(s, d) == call'[s] = d /\ \A t \in Processes \ {s} : call'[t] = call[t]

Goes(c, d) == \/ d.change = 0
              \/ d.change = c.change /\ d.began = c.began
              \/ d.change = changes + 1 /\ changes' = changes + 1 /\ d.began = clock

LEMMA RepliesTurn ==
  ASSUME Fit, NEW s \in Processes, Reply(s)
  PROVE  Turns(s, NoCall) /\ Goes(call[s], NoCall) /\ NoCall.op = "idle"
  BY DEF Reply, Turns, Goes, Fit, Types, NoCall

LEMMA StatementsTurn ==
  ASSUME Fit, NEW s \in Sessions, GoOn(s)
  PROVE  /\ UNCHANGED <<clock, changes, app>>
         /\ \E d : Turns(s, d) /\ Goes(call[s], d) /\ d.op # "findAll"
  <1>1. call[s] \in Calls /\ s \in Processes BY CallOf, ProcessOf
  <1>2. UNCHANGED <<clock, changes, app>>
    BY DEF GoOn, FindItem, WriteBase, LookAtCircuits, Commit, Fail, UpsertText, ReplaceCircuits
  <1>3. CASE Reply(s) BY <1>1, <1>2, <1>3, RepliesTurn
  <1>4. ASSUME FindItem(s), ~Reply(s)
        PROVE  \E d : Turns(s, d) /\ Goes(call[s], d) /\ d.op # "findAll"
    <2>1. PICK d : d = [call[s] EXCEPT !.at = "base"] OBVIOUS
    <2>2. call' = [call EXCEPT ![s] = d] /\ call[s].op = "update"
      BY <1>4, <2>1 DEF FindItem, Running
    <2>3. d.change = call[s].change /\ d.began = call[s].began /\ d.op = "update"
      BY <1>1, <2>1, <2>2 DEF Calls
    <2> QED BY <1>1, <2>2, <2>3 DEF Turns, Goes, Fit, Types
  <1>5. ASSUME WriteBase(s)
        PROVE  \E d : Turns(s, d) /\ Goes(call[s], d) /\ d.op # "findAll"
    <2>1. PICK at : at = After(call[s]) OBVIOUS
    <2>2. PICK d : d = [call[s] EXCEPT !.at = at, !.since = clock] OBVIOUS
    <2>3. call' = [call EXCEPT ![s] = d] /\ call[s].op = "update"
      BY <1>5, <2>1, <2>2 DEF WriteBase, Running
    <2>4. d.change = call[s].change /\ d.began = call[s].began /\ d.op = "update"
      BY <1>1, <2>2, <2>3 DEF Calls
    <2> QED BY <1>1, <2>3, <2>4 DEF Turns, Goes, Fit, Types
  <1>6. ASSUME LookAtCircuits(s)
        PROVE  \E d : Turns(s, d) /\ Goes(call[s], d) /\ d.op # "findAll"
    <2>1. PICK d : d = [call[s] EXCEPT !.at = "replace", !.seen = circuits[call[s].item]]
      OBVIOUS
    <2>2. call' = [call EXCEPT ![s] = d] /\ call[s].op # "findAll"
      BY <1>6, <2>1 DEF LookAtCircuits, InTransaction
    <2>3. d.change = call[s].change /\ d.began = call[s].began /\ d.op = call[s].op
      BY <1>1, <2>1 DEF Calls
    <2> QED BY <1>1, <2>2, <2>3 DEF Turns, Goes, Fit, Types
  <1>7. ASSUME NEW t, ReplaceCircuits(s, t), ~Reply(s)
        PROVE  \E d : Turns(s, d) /\ Goes(call[s], d) /\ d.op # "findAll"
    <2>1. PICK fresh : call' = [call EXCEPT ![s].at = "commit", ![s].dropped = ToDrop(s),
                                            ![s].fresh = fresh]
      BY <1>7 DEF ReplaceCircuits
    <2>2. PICK d : d = [call[s] EXCEPT !.at = "commit", !.dropped = ToDrop(s), !.fresh = fresh]
      OBVIOUS
    <2>3. call' = [call EXCEPT ![s] = d] BY <2>1, <2>2
    <2>4. d.change = call[s].change /\ d.began = call[s].began /\ d.op = call[s].op
      BY <1>1, <2>2 DEF Calls
    <2>5. call[s].op # "findAll" BY <1>7 DEF ReplaceCircuits, InTransaction
    <2> QED BY <1>1, <2>3, <2>4, <2>5 DEF Turns, Goes, Fit, Types
  <1>8. ASSUME NEW t, UpsertText(s, t), ~Reply(s)
        PROVE  \E d : Turns(s, d) /\ Goes(call[s], d) /\ d.op # "findAll"
    <2>1. PICK c : c = [call[s] EXCEPT !.left = Tail(@), !.since = clock,
                      !.written = {w \in @ : w.lang # Head(call[s].left)} \cup {Upserted(s, t)}]
      OBVIOUS
    <2>2. PICK at : at = After(c) OBVIOUS
    <2>3. PICK d : d = [c EXCEPT !.at = at] OBVIOUS
    <2>4. call' = [call EXCEPT ![s] = d]
      BY <1>8, <2>1, <2>2, <2>3 DEF UpsertText
    <2>5. d.change = call[s].change /\ d.began = call[s].began /\ d.op = call[s].op
      BY <1>1, <2>1, <2>3 DEF Calls
    <2>6. call[s].op # "findAll" BY <1>8 DEF UpsertText, InTransaction
    <2> QED BY <1>1, <2>4, <2>5, <2>6 DEF Turns, Goes, Fit, Types
  <1>9. Commit(s) \/ Fail(s) => Reply(s) BY DEF Commit, Fail
  <1> QED BY <1>2, <1>3, <1>4, <1>5, <1>6, <1>7, <1>8, <1>9 DEF GoOn

LEMMA RoutesTurn ==
  ASSUME Fit, NEW s \in Sessions, NEW op \in {"create", "update"}, NEW k, NEW i, NEW body,
         Begin(s, op, k, i, body)
  PROVE  /\ UNCHANGED <<clock, app>> /\ changes' = changes + 1
         /\ \E d : Turns(s, d) /\ Goes(call[s], d) /\ d.op # "findAll"
  <1>1. UNCHANGED <<clock, app>> /\ changes' = changes + 1 BY DEF Begin, NewChange
  <1>2. PICK c : /\ c = [NoCall EXCEPT !.op = op, !.kind = k, !.item = i, !.change = changes',
                             !.began = clock, !.since = clock, !.body = body,
                             !.left = body.texts]
                 /\ call' = [call EXCEPT ![s] = [c EXCEPT
                               !.at = IF op = "create" THEN After(c) ELSE "find"]]
    BY DEF Begin
  <1>3. PICK at : at = IF op = "create" THEN After(c) ELSE "find" OBVIOUS
  <1>4. PICK d : d = [c EXCEPT !.at = at] OBVIOUS
  <1>5. d.change = changes + 1 /\ d.began = clock /\ d.op = op
    BY <1>1, <1>2, <1>4 DEF NoCall
  <1>6. call' = [call EXCEPT ![s] = d] BY <1>2, <1>3, <1>4
  <1> QED BY <1>1, <1>5, <1>6, ProcessOf DEF Turns, Goes, Fit, Types

LEMMA EditingTurns ==
  ASSUME Fit, NEW s \in Sessions, Editing(s)
  PROVE  /\ UNCHANGED <<clock, app>> /\ changes' \in {changes, changes + 1}
         /\ \E d : Turns(s, d) /\ Goes(call[s], d) /\ d.op # "findAll"
  <1>1. ASSUME NEW k, Create(s, k) \/ Update(s, k)
        PROVE  \E op \in {"create", "update"} : \E i, body : Begin(s, op, k, i, body)
    BY <1>1 DEF Create, Update
  <1> QED BY <1>1, RoutesTurn, StatementsTurn
          DEF Editing, RitualRoutes, DuaRoutes, LocationRoutes, CreateRitual, UpdateRitual,
              CreateDua, UpdateDua, CreateLocation, UpdateLocation

\* The answer of a query.
LEMMA QueryAnswers ==
  ASSUME NEW k, NEW got, NEW queried, NEW p, Known(k, got, queried, p), "rows" \in queried,
         NEW part \in Parts \ queried, NEW more,
         more.rows = got.rows, \A q \in Parts \ {part} : more[q] = got[q],
         \A r \in more[part] : r.at <= clock,
         \A m \in Stored(k)[part] : m.item \in Found(got) => m \in more[part] \/ Newer(m.by, p)
  PROVE  Known(k, more, queried \cup {part}, p)
  <1>1. Found(more) = Found(got) BY DEF Found
  <1>2. \A q \in Parts : \A r \in more[q] : r.at <= clock BY DEF Known
  <1>3. \A q \in Parts \ (queried \cup {part}) : more[q] = {} BY DEF Known
  <1>4. ASSUME NEW q \in Parts, NEW m \in Stored(k)[q],
               m.item \notin Found(more) \/ q \in queried \cup {part}
        PROVE  m \in more[q] \/ Newer(m.by, p)
    <2>1. CASE q # part BY <1>1, <1>4, <2>1 DEF Known
    <2>2. CASE q = part
      <3>1. CASE m.item \in Found(got) BY <2>2, <3>1
      <3>2. CASE m.item \notin Found(got)
        <4>1. got[q] = {} BY <2>2 DEF Known
        <4> QED BY <3>2, <4>1 DEF Known
      <3> QED BY <3>1, <3>2
    <2> QED BY <2>1, <2>2
  <1> QED BY <1>2, <1>3, <1>4 DEF Known

LEMMA NoTimeToCome ==
  ASSUME Fit
  PROVE  \A i \in Items : /\ \A r \in TextsOf(i) : r.at <= clock
                          /\ \A r \in CircuitsOf(i) : r.at <= clock
                          /\ \A r \in DuasOf(i) : r.at <= clock
  <1> SUFFICES ASSUME NEW i \in Items
               PROVE  /\ \A r \in TextsOf(i) : r.at <= clock
                      /\ \A r \in CircuitsOf(i) : r.at <= clock
                      /\ \A r \in DuasOf(i) : r.at <= clock
    OBVIOUS
  <1>1. ItemFine(i) BY DEF Fit
  <1>2. \A r \in TextsOf(i) : r.at <= clock BY <1>1 DEF TextsOf, ItemFine, Past
  <1>3. \A r \in CircuitsOf(i) : r.at <= clock BY <1>1 DEF CircuitsOf, ItemFine, Past
  <1>4. \A r \in DuasOf(i) : r.at <= clock BY <1>1 DEF DuasOf, ItemFine, Past
  <1> QED BY <1>2, <1>3, <1>4

\* What the queries find of an item the download has found.
LEMMA FoundParts ==
  ASSUME Fit, NEW s \in Sessions, NEW k, NEW part \in Parts \ {"rows"}, NEW m \in Stored(k)[part],
         m.item \in Found(call[s].got)
  PROVE  /\ part = "texts" => m \in UNION {TextsOf(i) : i \in Rows(s)}
         /\ part \in {"circuits", "told"} => /\ m \in UNION {CircuitsOf(i) : i \in Rows(s)}
                                             /\ m \in UNION {CircuitsOf(i) : i \in Items}
         /\ part = "duas" => m \in UNION {DuasOf(i) : i \in Rows(s)}
  <1>1. PICK i \in LiveOf(k) : m \in PartsOf(i)[part] BY StoredParts
  <1>2. m.item = i BY <1>1, PartsAreTheirs
  <1>3. i \in Rows(s) /\ i \in Items BY <1>2 DEF Found, Rows, LiveOf, All
  <1> QED BY <1>1, <1>3 DEF PartsOf, Parts

LEMMA LatestIsPast ==
  ASSUME Fit, NEW got \in Gots, \A part \in Parts : \A r \in got[part] : r.at <= clock
  PROVE  Latest(got) \in Stamps /\ Latest(got) <= clock
  <1> DEFINE rows == got.rows \cup got.texts \cup got.circuits \cup got.told \cup got.duas
             stamps == {r.at : r \in rows}
  <1>1. clock \in Nat /\ 0 \in Stamps /\ clock \in Stamps
    BY Times, ContentAssumption DEF Fit, Types, Stamps
  <1>2. \A r \in rows : r.at \in Stamps /\ r.at <= clock
    BY DEF Gots, Parts
  <1>3. Stamps = 0..LastTick /\ LastTick \in Nat BY ContentAssumption DEF Stamps
  <1>4. stamps \subseteq 0..clock /\ stamps \subseteq Stamps
    <2> HIDE DEF rows
    <2> QED BY <1>1, <1>2, <1>3
  <1> HIDE DEF stamps
  <1>5. CASE stamps = {}
    <2>1. Latest(got) = 0 BY <1>5 DEF Latest, stamps
    <2> QED BY <1>1, <2>1
  <1>6. CASE stamps # {}
    <2>1. \E t \in stamps : \A u \in stamps : u <= t BY <1>1, <1>4, <1>6, SomeLatest
    <2>2. Latest(got) = CHOOSE t \in stamps : \A u \in stamps : u <= t
      BY <1>6 DEF Latest, stamps
    <2>3. Latest(got) \in stamps BY <2>1, <2>2
    <2>4. \A t \in stamps : t \in Stamps /\ t <= clock BY <1>1, <1>4
    <2> QED BY <2>3, <2>4
  <1> QED BY <1>5, <1>6

\* A step of a download that does not answer.
LEMMA ReadsOn ==
  ASSUME Fit, Fit', Versioned, NEW s \in Sessions, NEW c,
         UNCHANGED <<tables, migrated, clock, changes, app>>, call' = [call EXCEPT ![s] = c],
         c.change = 0, Reading(c)'
  PROVE  Versioned'
  <1>1. s \in Processes /\ Turns(s, c) BY ProcessOf DEF Turns, Fit, Types
  <1>2. changes \in Nat /\ clock \in Nat BY Times DEF Fit
  <1>3. AddsNew BY QuietAdds DEF tables
  <1>4. Onward BY <1>1 DEF Onward, Turns
  <1>5. c \in Calls BY <1>1 DEF Fit, Types, Turns
  <1>6. \A t \in Sessions : call'[t] = call[t] \/ \E d \in Calls : d = call'[t] /\ Reading(d)'
    BY <1>1, <1>5, ProcessOf DEF Turns
  <1>7. app' \in [Kinds -> Apps] /\ \A k \in Kinds : app'[k] = app[k] BY DEF Versioned
  <1> QED BY <1>2, <1>3, <1>4, <1>6, <1>7, VersionedStays

LEMMA FindAllVersioned ==
  ASSUME Fit, Fit', Versioned, NEW s \in Sessions, NEW k \in Kinds, FindAll(s, k)
  PROVE  Versioned'
  <1> DEFINE rows == {[item |-> i, by |-> base[i], at |-> made[i]] : i \in LiveOf(k)}
  <1>1. PICK c : c = [NoCall EXCEPT !.op = "findAll", !.at = "texts", !.kind = k,
                        !.first = changes, !.open = InFlight, !.got.rows = rows]
    OBVIOUS
  <1>2. /\ call' = [call EXCEPT ![s] = c]
        /\ UNCHANGED <<tables, migrated, clock, changes, app>>
    BY <1>1 DEF FindAll
  <1>3. /\ c.change = 0 /\ c.kind = k /\ c.first = changes /\ c.open = InFlight /\ c.at = "texts"
        /\ c.got.rows = rows /\ c.got.texts = {} /\ c.got.circuits = {} /\ c.got.told = {}
        /\ c.got.duas = {}
    <2> HIDE DEF rows
    <2> QED BY <1>1 DEF NoCall, NoRows
  <1>4. s \in Processes /\ call'[s] = c /\ \A t \in Processes \ {s} : call'[t] = call[t]
    BY <1>2, ProcessOf DEF Fit, Types
  <1>5. Ahead(c)' BY <1>3, <1>4 DEF Ahead, Newer, InFlight
  <1>6. Known(k, c.got, {"rows"}, c)
    <2>1. \A i \in Items : made[i] <= clock BY DEF Fit, ItemFine
    <2>2. \A r \in rows : r.at <= clock BY <2>1 DEF LiveOf, All
    <2>3. ASSUME NEW m \in Stored(k).rows PROVE m \in rows BY DEF Stored
    <2>4. ASSUME NEW part \in Parts, NEW m \in Stored(k)[part] PROVE m.item \in Found(c.got)
      <3>1. PICK i \in LiveOf(k) : m \in PartsOf(i)[part] BY StoredParts
      <3>2. m.item = i BY <3>1, PartsAreTheirs
      <3>3. [item |-> i, by |-> base[i], at |-> made[i]] \in rows OBVIOUS
      <3> QED BY <1>3, <3>2, <3>3 DEF Found
    <2> HIDE DEF rows
    <2> QED BY <1>3, <2>2, <2>3, <2>4 DEF Known, Parts
  <1>7. Queried(c.at) = {"rows"} BY <1>3 DEF Queried
  <1>8. Known(k, c.got, {"rows"}, c)'
    <2>1. UNCHANGED tables /\ clock' = clock BY <1>2
    <2>2. Stored(k)' = Stored(k)
      BY <2>1 DEF tables, Stored, LiveOf, All, Live, Exists, TextsOf, CircuitsOf, DuasOf
    <2> QED BY <1>6, <2>1, <2>2 DEF Known, Found, Newer
  <1>9. Reading(c)'
    <2>1. changes' = changes /\ changes \in Nat BY <1>2, Times DEF Fit
    <2> QED BY <1>3, <1>5, <1>7, <1>8, <2>1 DEF Reading, Known, Found, Newer, Queried
  <1> QED BY <1>2, <1>3, <1>9, ReadsOn

LEMMA GoesOnReading ==
  ASSUME Fit, Fit', Versioned, NEW s \in Sessions, call[s].op = "findAll", NEW at, NEW got,
         UNCHANGED <<tables, migrated, clock, changes, app>>,
         call' = [call EXCEPT ![s] = [call[s] EXCEPT !.at = at, !.got = got]],
         Known(call[s].kind, got, Queried(at), call[s])
  PROVE  Versioned'
  <1>1. PICK c : c = [call[s] EXCEPT !.at = at, !.got = got] OBVIOUS
  <1>2. PICK b : b = call[s] OBVIOUS
  <1>3. b \in Calls /\ b.change = 0 /\ Reading(b) BY <1>2, CallOf DEF Fine, Versioned
  <1>4. /\ c.change = 0 /\ c.kind = b.kind /\ c.first = b.first /\ c.open = b.open
        /\ c.at = at /\ c.got = got
    BY <1>1, <1>2, <1>3 DEF Calls
  <1>5. s \in Processes /\ call'[s] = c /\ \A t \in Processes \ {s} : call'[t] = call[t]
    BY <1>1, ProcessOf DEF Fit, Types
  <1>6. Ahead(c)' BY <1>3, <1>4, <1>5 DEF Reading, Ahead, Newer
  <1>7. Known(c.kind, c.got, Queried(c.at), c) BY <1>2, <1>4 DEF Known, Newer
  <1>8. Known(c.kind, c.got, Queried(c.at), c)'
    <2>1. UNCHANGED tables /\ clock' = clock OBVIOUS
    <2>2. PICK k : k = c.kind OBVIOUS
    <2>3. Stored(k)' = Stored(k)
      BY <2>1 DEF tables, Stored, LiveOf, All, Live, Exists, TextsOf, CircuitsOf, DuasOf
    <2> QED BY <1>7, <2>1, <2>2, <2>3 DEF Known, Found, Newer, Queried
  <1>9. Reading(c)' BY <1>3, <1>4, <1>6, <1>8 DEF Reading
  <1> QED BY <1>1, <1>4, <1>9, ReadsOn

LEMMA Answers ==
  ASSUME Fit, Fit', Versioned, NEW s \in Sessions, call[s].op = "findAll", NEW got \in Gots,
         UNCHANGED <<tables, migrated, clock, changes>>, Answer(s, got),
         Known(call[s].kind, got, Parts, call[s])
  PROVE  Versioned'
  <1>1. PICK b, k : b = call[s] /\ k = call[s].kind OBVIOUS
  <1>2. PICK p : p = [got |-> got, version |-> Latest(got), first |-> b.first, last |-> changes,
                      open |-> b.open]
    OBVIOUS
  <1>3. /\ b \in Calls /\ Reading(b) /\ k \in Kinds /\ b.first <= changes /\ Ahead(b)
    BY <1>1, CallOf DEF Versioned, Reading
  <1>4. changes \in Nat /\ clock \in Nat /\ changes \in Numbers /\ changes <= changes
    BY Times DEF Fit, Types
  <1>5. Latest(got) \in Stamps /\ Latest(got) <= clock BY LatestIsPast DEF Known
  <1>6. p \in Apps BY <1>2, <1>3, <1>4, <1>5 DEF Apps, Calls
  <1>7. app' = [app EXCEPT ![k] = p] BY <1>1, <1>2 DEF Answer
  <1>8. app' \in [Kinds -> Apps] /\ app'[k] = p /\ \A j \in Kinds \ {k} : app'[j] = app[j]
    BY <1>3, <1>6, <1>7 DEF Versioned
  <1>9. s \in Processes /\ Turns(s, NoCall) /\ NoCall.op = "idle" /\ NoCall.change = 0
    BY ProcessOf, RepliesTurn DEF Answer, NoCall
  <1>10. p.got = got /\ p.version = Latest(got) /\ p.first = b.first /\ p.last = changes
         /\ p.open = b.open
    BY <1>2
  <1>11. Answered(k, p)'
    <2>1. p.version <= clock' /\ p.first <= changes' /\ p.last <= changes'
      BY <1>3, <1>4, <1>5, <1>10
    <2>2. Ahead(p)' BY <1>3, <1>9, <1>10 DEF Ahead, Newer, Turns
    <2>3. \A t \in Processes : ~ (call'[t].change > p.last)
      <3>1. \A t \in Processes : call[t].change \in Nat /\ call[t].change <= changes
        BY OldChanges
      <3> QED BY <1>4, <1>9, <1>10, <3>1 DEF Turns
    <2>4. Stored(k)' = Stored(k)
      BY DEF tables, Stored, LiveOf, All, Live, Exists, TextsOf, CircuitsOf, DuasOf
    <2>5. ASSUME NEW part \in Parts, NEW m \in Stored(k)'[part]
          PROVE  m \in p.got[part] \/ /\ Newer(m.by, p)
                                      /\ part # "rows" /\ m.by > p.last => m.at >= p.version
      <3>1. m \in got[part] \/ Newer(m.by, b) BY <1>1, <2>4 DEF Known
      <3>2. part # "rows" => ~ (m.by > changes)
        <4>1. PICK i \in LiveOf(k) : m \in PartsOf(i)[part] BY <2>4, StoredParts
        <4>2. i \in Items BY <4>1 DEF LiveOf, All
        <4>3. ItemFine(i) BY <4>2 DEF Fit
        <4>4. \A r \in TextsOf(i) : ~ (r.by > changes)
          BY <1>4, <4>3 DEF TextsOf, ItemFine, Past
        <4>5. \A r \in CircuitsOf(i) : ~ (r.by > changes)
          BY <1>4, <4>3 DEF CircuitsOf, ItemFine, Past
        <4>6. \A r \in DuasOf(i) : ~ (r.by > changes)
          BY <1>4, <4>3 DEF DuasOf, ItemFine, Past
        <4> QED BY <4>1, <4>4, <4>5, <4>6 DEF PartsOf, Parts
      <3> QED BY <1>10, <3>1, <3>2 DEF Newer
    <2> QED BY <2>1, <2>2, <2>3, <2>5 DEF Answered, Newer
  <1>12. \A j \in Kinds : app'[j] = app[j] \/ \E q \in Apps : q = app'[j] /\ Answered(j, q)'
    BY <1>6, <1>8, <1>11
  <1>13. AddsNew BY QuietAdds DEF tables
  <1>14. Onward BY <1>9 DEF Onward, Turns
  <1>15. \A t \in Sessions : call'[t].op = "findAll" => call'[t] = call[t]
    BY <1>9, ProcessOf DEF Turns
  <1> QED BY <1>4, <1>8, <1>12, <1>13, <1>14, <1>15, VersionedStays

\* A download after one more query.
LEMMA ReadsPart ==
  ASSUME Fit, Versioned, NEW s \in Sessions, call[s].op = "findAll",
         NEW part \in Parts \ Queried(call[s].at), NEW more,
         more.rows = call[s].got.rows, \A q \in Parts \ {part} : more[q] = call[s].got[q],
         \A r \in more[part] : r.at <= clock,
         \A m \in Stored(call[s].kind)[part] :
           m.item \in Found(call[s].got) => m \in more[part] \/ Newer(m.by, call[s])
  PROVE  Known(call[s].kind, more, Queried(call[s].at) \cup {part}, call[s])
  <1>1. Known(call[s].kind, call[s].got, Queried(call[s].at), call[s])
    BY DEF Versioned, Reading
  <1>2. "rows" \in Queried(call[s].at) BY DEF Queried
  <1> QED BY <1>1, <1>2, QueryAnswers

LEMMA ReadTextsVersioned ==
  ASSUME Fit, Fit', Versioned, NEW s \in Sessions, ReadTexts(s)
  PROVE  Versioned'
  <1> DEFINE x == UNION {TextsOf(i) : i \in Rows(s)}
             got == [call[s].got EXCEPT !.texts = x]
  <1>1. call[s].op = "findAll" /\ call[s].at = "texts" BY DEF ReadTexts, Running
  <1>2. Rows(s) \subseteq Items BY GotTypes
  <1>3. x \subseteq [item : Items, lang : Langs, by : Numbers, at : Stamps]
    BY <1>2, RowTypes DEF Fit
  <1>4. got \in Gots BY <1>3, GotTypes
  <1>5. \A r \in x : r.at <= clock BY <1>2, NoTimeToCome
  <1>6. \A m \in Stored(call[s].kind)["texts"] : m.item \in Found(call[s].got) => m \in x
    BY FoundParts DEF Parts
  <1>7. "texts" \in Parts \ Queried(call[s].at) BY <1>1 DEF Parts, Queried
  <1>8. UNCHANGED <<tables, migrated, clock, changes>> BY DEF ReadTexts
  <1>9. IF call[s].kind = "ritual"
        THEN call' = [call EXCEPT ![s].at = "circuits", ![s].got = got] /\ app' = app
        ELSE Answer(s, got)
    BY DEF ReadTexts
  <1> HIDE DEF x
  <1>10. got.texts = x /\ \A q \in Parts \ {"texts"} : got[q] = call[s].got[q]
    BY GotTypes DEF Gots, Parts
  <1>11. "rows" \in Parts \ {"texts"} BY DEF Parts
  <1> HIDE DEF got
  <1>12. got.rows = call[s].got.rows BY <1>10, <1>11
  <1>13. Known(call[s].kind, got, Queried(call[s].at) \cup {"texts"}, call[s])
    BY <1>1, <1>5, <1>6, <1>7, <1>10, <1>12, ReadsPart
  <1>14. CASE call[s].kind = "ritual"
    <2>1. Queried("circuits") = Queried(call[s].at) \cup {"texts"} BY <1>1 DEF Queried
    <2>2. call' = [call EXCEPT ![s] = [call[s] EXCEPT !.at = "circuits", !.got = got]]
      BY <1>9, <1>14
    <2>3. Known(call[s].kind, got, Queried("circuits"), call[s]) BY <1>13, <2>1
    <2>4. UNCHANGED <<tables, migrated, clock, changes, app>> BY <1>8, <1>9, <1>14
    <2> QED BY <1>1, <2>2, <2>3, <2>4, GoesOnReading
  <1>15. CASE call[s].kind # "ritual"
    <2>1. ASSUME NEW part \in {"circuits", "told", "duas"}, NEW m \in Stored(call[s].kind)[part]
          PROVE  FALSE
      <3>1. part \in Parts BY DEF Parts
      <3>2. PICK i \in LiveOf(call[s].kind) : m \in PartsOf(i)[part] BY <3>1, StoredParts
      <3>3. i \in Items /\ kind[i] # "ritual" BY <1>15, <3>2 DEF LiveOf, All
      <3>4. circuits[i] = {} /\ duas[i] = {} BY <3>3 DEF Fit, ItemFine
      <3>5. CircuitsOf(i) = {} /\ DuasOf(i) = {} BY <3>4 DEF CircuitsOf, DuasOf
      <3> QED BY <3>2, <3>5 DEF PartsOf
    <2>2. Queried(call[s].at) \cup {"texts"} = {"rows", "texts"} BY <1>1 DEF Queried
    <2>3. Known(call[s].kind, got, Parts, call[s])
      BY <1>13, <2>1, <2>2 DEF Known, Parts
    <2> QED BY <1>1, <1>4, <1>8, <1>9, <1>15, <2>3, Answers
  <1> QED BY <1>14, <1>15

LEMMA ReadCircuitsVersioned ==
  ASSUME Fit, Fit', Versioned, NEW s \in Sessions, ReadCircuits(s)
  PROVE  Versioned'
  <1> DEFINE x == UNION {CircuitsOf(i) : i \in Rows(s)}
             got == [call[s].got EXCEPT !.circuits = x]
  <1>1. call[s].op = "findAll" /\ call[s].at = "circuits" BY DEF ReadCircuits, Running
  <1>2. \A r \in x : r.at <= clock BY GotTypes, NoTimeToCome
  <1>3. \A m \in Stored(call[s].kind)["circuits"] : m.item \in Found(call[s].got) => m \in x
    BY FoundParts DEF Parts
  <1>4. "circuits" \in Parts \ Queried(call[s].at) BY <1>1 DEF Parts, Queried
  <1>5. UNCHANGED <<tables, migrated, clock, changes, app>> BY DEF ReadCircuits
  <1>6. call' = [call EXCEPT ![s] = [call[s] EXCEPT !.at = "told", !.got = got]]
    BY CallOf DEF ReadCircuits, Calls
  <1> HIDE DEF x
  <1>7. got.circuits = x /\ \A q \in Parts \ {"circuits"} : got[q] = call[s].got[q]
    BY GotTypes DEF Gots, Parts
  <1>8. "rows" \in Parts \ {"circuits"} BY DEF Parts
  <1> HIDE DEF got
  <1>9. got.rows = call[s].got.rows BY <1>7, <1>8
  <1>10. Known(call[s].kind, got, Queried(call[s].at) \cup {"circuits"}, call[s])
    BY <1>1, <1>2, <1>3, <1>4, <1>7, <1>9, ReadsPart
  <1>11. Queried("told") = Queried(call[s].at) \cup {"circuits"} BY <1>1 DEF Queried
  <1>12. Known(call[s].kind, got, Queried("told"), call[s]) BY <1>10, <1>11
  <1> QED BY <1>1, <1>5, <1>6, <1>12, GoesOnReading

\* The texts of a circuit it has read and that is still there.
LEMMA ReadCircuitTextsVersioned ==
  ASSUME Fit, Fit', Versioned, NEW s \in Sessions, ReadCircuitTexts(s)
  PROVE  Versioned'
  <1> DEFINE x == call[s].got.circuits \cap UNION {CircuitsOf(i) : i \in Items}
             got == [call[s].got EXCEPT !.told = x]
  <1>1. call[s].op = "findAll" /\ call[s].at = "told" BY DEF ReadCircuitTexts, Running
  <1>2. \A r \in x : r.at <= clock BY NoTimeToCome
  <1>3. ASSUME NEW m \in Stored(call[s].kind)["told"], m.item \in Found(call[s].got)
        PROVE  m \in x \/ Newer(m.by, call[s])
    <2>1. m \in UNION {CircuitsOf(i) : i \in Items} BY <1>3, FoundParts DEF Parts
    <2>2. m \in Stored(call[s].kind)["circuits"] BY DEF Stored
    <2>3. "circuits" \in Parts /\ "circuits" \in Queried(call[s].at)
      BY <1>1 DEF Parts, Queried
    <2>4. m \in call[s].got["circuits"] \/ Newer(m.by, call[s])
      BY <1>1, <2>2, <2>3 DEF Versioned, Reading, Known
    <2> QED BY <2>1, <2>4
  <1>4. "told" \in Parts \ Queried(call[s].at) BY <1>1 DEF Parts, Queried
  <1>5. UNCHANGED <<tables, migrated, clock, changes, app>> BY DEF ReadCircuitTexts
  <1>6. call' = [call EXCEPT ![s] = [call[s] EXCEPT !.at = "duas", !.got = got]]
    BY CallOf DEF ReadCircuitTexts, Calls
  <1> HIDE DEF x
  <1>7. got.told = x /\ \A q \in Parts \ {"told"} : got[q] = call[s].got[q]
    BY GotTypes DEF Gots, Parts
  <1>8. "rows" \in Parts \ {"told"} BY DEF Parts
  <1> HIDE DEF got
  <1>9. got.rows = call[s].got.rows BY <1>7, <1>8
  <1>10. Known(call[s].kind, got, Queried(call[s].at) \cup {"told"}, call[s])
    BY <1>1, <1>2, <1>3, <1>4, <1>7, <1>9, ReadsPart
  <1>11. Queried("duas") = Queried(call[s].at) \cup {"told"} BY <1>1 DEF Queried
  <1>12. Known(call[s].kind, got, Queried("duas"), call[s]) BY <1>10, <1>11
  <1> QED BY <1>1, <1>5, <1>6, <1>12, GoesOnReading

\* Before 066 there is no du'a of a ritual to miss.
LEMMA ReadDuasVersioned ==
  ASSUME Fit, Fit', Versioned, NEW s \in Sessions, ReadDuas(s)
  PROVE  Versioned'
  <1> DEFINE x == IF "066" \in migrated THEN UNION {DuasOf(i) : i \in Rows(s)} ELSE {}
             got == [call[s].got EXCEPT !.duas = x]
  <1>1. call[s].op = "findAll" /\ call[s].at = "duas" BY DEF ReadDuas, Running
  <1>2. \A r \in x : r.at <= clock BY GotTypes, NoTimeToCome
  <1>3. ASSUME NEW m \in Stored(call[s].kind)["duas"], m.item \in Found(call[s].got) PROVE m \in x
    <2>1. "duas" \in Parts \ {"rows"} BY DEF Parts
    <2>2. PICK i \in LiveOf(call[s].kind) : m \in PartsOf(i)["duas"] BY <2>1, StoredParts
    <2>3. m \in DuasOf(i) /\ i \in Items BY <2>2 DEF PartsOf, LiveOf, All
    <2>4. duas[i] # {} BY <2>3 DEF DuasOf
    <2>5. "066" \in migrated BY <2>3, <2>4 DEF Fit, ItemFine
    <2>6. m \in UNION {DuasOf(j) : j \in Rows(s)} BY <1>3, <2>1, FoundParts
    <2> QED BY <2>5, <2>6
  <1>4. "duas" \in Parts \ Queried(call[s].at) BY <1>1 DEF Parts, Queried
  <1>5. UNCHANGED <<tables, migrated, clock, changes>> /\ Answer(s, got) BY DEF ReadDuas
  <1>6. got \in Gots
    <2>1. x \subseteq [item : Items, of : Numbers, by : Numbers, at : Stamps]
      BY GotTypes, RowTypes DEF Fit
    <2> HIDE DEF x
    <2> QED BY <2>1, GotTypes
  <1> HIDE DEF x
  <1>7. got.duas = x /\ \A q \in Parts \ {"duas"} : got[q] = call[s].got[q]
    BY GotTypes DEF Gots, Parts
  <1>8. "rows" \in Parts \ {"duas"} BY DEF Parts
  <1> HIDE DEF got
  <1>9. got.rows = call[s].got.rows BY <1>7, <1>8
  <1>10. Known(call[s].kind, got, Queried(call[s].at) \cup {"duas"}, call[s])
    BY <1>1, <1>2, <1>3, <1>4, <1>7, <1>9, ReadsPart
  <1>11. Queried(call[s].at) \cup {"duas"} = Parts BY <1>1 DEF Parts, Queried
  <1>12. Known(call[s].kind, got, Parts, call[s]) BY <1>10, <1>11
  <1> QED BY <1>1, <1>5, <1>6, <1>12, Answers

\* A step that is not of a download.
LEMMA OthersVersioned ==
  ASSUME Fit, Fit', Versioned, AddsNew, UNCHANGED app, changes' \in {changes, changes + 1},
         clock' \in {clock, clock + 1}, Onward,
         \A s \in Sessions : call'[s].op = "findAll" => call'[s] = call[s]
  PROVE  Versioned'
  <1>1. changes <= changes' /\ clock <= clock' BY Times DEF Fit
  <1>2. app' \in [Kinds -> Apps] /\ \A k \in Kinds : app'[k] = app[k] BY DEF Versioned
  <1> QED BY <1>1, <1>2, VersionedStays

LEMMA EditingVersioned ==
  ASSUME Fit, Fit', Versioned, AddsNew, NEW s \in Sessions, Editing(s)
  PROVE  Versioned'
  <1>1. UNCHANGED <<clock, app>> /\ changes' \in {changes, changes + 1} BY EditingTurns
  <1>2. PICK d : Turns(s, d) /\ Goes(call[s], d) /\ d.op # "findAll" BY EditingTurns
  <1>3. Onward BY <1>2 DEF Onward, Turns, Goes
  <1>4. \A t \in Sessions : call'[t].op = "findAll" => call'[t] = call[t]
    BY <1>2, ProcessOf DEF Turns
  <1> QED BY <1>1, <1>3, <1>4, OthersVersioned

LEMMA MigratingVersioned ==
  ASSUME Fit, Fit', Versioned, AddsNew, Migrating
  PROVE  Versioned'
  <1>1. CASE BeginMigration
    <2>1. UNCHANGED <<clock, app>> /\ changes' = changes + 1
      BY <1>1 DEF BeginMigration, NewChange
    <2>2. PICK k \in Kinds, m \in Ledger :
            call' = [call EXCEPT ![Migrator] = [NoCall EXCEPT !.op = m, !.at = "run",
                       !.kind = k, !.change = changes', !.began = clock]]
      BY <1>1 DEF BeginMigration
    <2>3. PICK c : c = [NoCall EXCEPT !.op = m, !.at = "run", !.kind = k,
                                      !.change = changes', !.began = clock]
      OBVIOUS
    <2>4. c.change = changes + 1 /\ c.began = clock BY <2>1, <2>3 DEF NoCall
    <2>5. call'[Migrator] = c /\ \A t \in Processes \ {Migrator} : call'[t] = call[t]
      BY <2>2, <2>3 DEF Fit, Types, Processes
    <2>6. Onward BY <2>1, <2>4, <2>5 DEF Onward
    <2>7. \A t \in Sessions : call'[t] = call[t] BY <2>5, ProcessOf
    <2> QED BY <2>1, <2>6, <2>7, OthersVersioned
  <1>2. CASE ~BeginMigration
    <2>1. PICK m : Runs(m)
      BY <1>2 DEF Migrating, SeedRituals, SeedCircuits, CreateRitualDuas, ReseedRituals,
           ReseedDuas, SeedJourneyDuas, SeedLocations, FixLocations
    <2>2. UNCHANGED <<clock, changes, app>> /\ Reply(Migrator) BY <2>1 DEF Runs
    <2>3. Turns(Migrator, NoCall) /\ Goes(call[Migrator], NoCall)
      BY <2>2, RepliesTurn DEF Processes
    <2>4. Onward BY <2>3 DEF Onward, Turns, Goes
    <2>5. \A t \in Sessions : call'[t] = call[t] BY <2>3, ProcessOf DEF Turns
    <2> QED BY <2>2, <2>4, <2>5, OthersVersioned
  <1> QED BY <1>1, <1>2

LEMMA NextVersioned == Fit /\ Fit' /\ Versioned /\ [Next]_contentVars => Versioned'
  <1> SUFFICES ASSUME Fit, Fit', Versioned, [Next]_contentVars PROVE Versioned' OBVIOUS
  <1>1. AddsNew BY StepsAdd
  <1>2. CASE Tick \/ UNCHANGED contentVars \/ \E i \in Items : Remove(i)
    <2>1. /\ UNCHANGED <<app, call>> /\ changes' \in {changes, changes + 1}
          /\ clock' \in {clock, clock + 1}
      BY <1>2 DEF Tick, contentVars, Remove, NewChange
    <2>2. Onward BY <2>1 DEF Onward
    <2> QED BY <1>1, <2>1, <2>2, OthersVersioned
  <1>3. CASE Restart
    <2>1. UNCHANGED <<app, clock, changes>> BY <1>3 DEF Restart
    <2>2. \A t \in Processes : call'[t] = NoCall BY <1>3 DEF Restart
    <2>3. NoCall.change = 0 /\ NoCall.op # "findAll" BY DEF NoCall
    <2>4. Onward BY <2>2, <2>3 DEF Onward
    <2>5. \A t \in Sessions : call'[t].op # "findAll" BY <2>2, <2>3, ProcessOf
    <2> QED BY <1>1, <2>1, <2>4, <2>5, OthersVersioned
  <1>4. CASE Migrating BY <1>1, <1>4, MigratingVersioned
  <1>5. ASSUME NEW s \in Sessions, Editing(s) PROVE Versioned'
    BY <1>1, <1>5, EditingVersioned
  <1>6. ASSUME NEW s \in Sessions, Downloading(s) PROVE Versioned'
    BY <1>6, FindAllVersioned, ReadTextsVersioned, ReadCircuitsVersioned,
       ReadCircuitTextsVersioned, ReadDuasVersioned
       DEF Downloading, FindAllRituals, FindAllDuas, FindAllLocations, Kinds
  <1> QED BY <1>2, <1>3, <1>4, <1>5, <1>6 DEF Next

\* Nothing has been downloaded: whatever is stored was written by some change.
LEMMA InitVersioned == Init => Versioned
  <1> SUFFICES ASSUME Init PROVE Versioned OBVIOUS
  <1>1. Fit BY InitFit
  <1>2. \A t \in Processes : call[t] = NoCall BY DEF Init
  <1>3. NoCall.change = 0 /\ NoCall.op # "findAll" BY DEF NoCall
  <1>4. app = [k \in Kinds |-> NoApp] /\ clock = 0 /\ changes = 1 BY DEF Init
  <1>5. PICK p : p = NoApp OBVIOUS
  <1>6. p.version = 0 /\ p.first = 0 /\ p.last = 0 /\ p.got = NoRows BY <1>5 DEF NoApp
  <1>7. p \in Apps
    <2>1. 0 \in Stamps /\ 0 \in Numbers BY ContentAssumption DEF Stamps, Numbers
    <2>2. NoRows \in Gots BY DEF NoRows, Gots
    <2> QED BY <1>5, <2>1, <2>2 DEF NoApp, Apps
  <1>8. Ahead(p) BY <1>2, <1>3 DEF Ahead
  <1>9. ASSUME NEW k \in Kinds, NEW part \in Parts, NEW m \in Stored(k)[part]
        PROVE  Newer(m.by, p) /\ m.at >= p.version
    <2>1. PICK i \in LiveOf(k) : m \in PartsOf(i)[part] BY StoredParts
    <2>2. i \in Items /\ Exists(i) /\ ItemFine(i) BY <1>1, <2>1 DEF LiveOf, All, Fit
    <2>3. m.by \in Nat /\ m.at \in Nat
      BY <1>1, StoredTypes, ContentAssumption DEF Numbers, Stamps, Fit
    <2>4. m.by # 0
      <3>1. CASE part = "rows" BY <2>1, <2>2, <3>1 DEF PartsOf, Exists
      <3>2. CASE part = "texts"
        BY <2>1, <2>2, <3>2, <1>4 DEF PartsOf, TextsOf, ItemFine, Past
      <3>3. CASE part \in {"circuits", "told"}
        BY <2>1, <2>2, <3>3, <1>4 DEF PartsOf, CircuitsOf, ItemFine, Past
      <3>4. CASE part = "duas"
        BY <2>1, <2>2, <3>4, <1>4 DEF PartsOf, DuasOf, ItemFine, Past
      <3> QED BY <3>1, <3>2, <3>3, <3>4 DEF Parts
    <2> QED BY <1>6, <2>3, <2>4 DEF Newer
  <1>10. \A k \in Kinds : Answered(k, p)
    BY <1>2, <1>3, <1>4, <1>6, <1>8, <1>9 DEF Answered
  <1>11. \A s \in Sessions : call[s].op # "findAll" BY <1>2, <1>3, ProcessOf
  <1> QED BY <1>4, <1>5, <1>7, <1>10, <1>11 DEF Versioned

LEMMA MissedAreNewer == ASSUME Fit, Versioned PROVE MissedIsNewer
  <1> SUFFICES ASSUME NEW k \in Kinds
               PROVE  LET p == app[k]
                          stored == Stored(k)
                          missed == UNION {stored[part] \ p.got[part] : part \in DOMAIN stored}
                          stamped == UNION {stored[part] \ p.got[part] :
                                              part \in DOMAIN stored \ {"rows"}}
                      IN /\ \A m \in missed : m.by > p.first \/ m.by \in p.open
                         /\ \A m \in stamped : m.by > p.last => m.at >= p.version
    BY DEF MissedIsNewer
  <1>1. PICK p : p = app[k] OBVIOUS
  <1>2. PICK stored : stored = Stored(k) OBVIOUS
  <1>3. DOMAIN stored = Parts BY <1>2 DEF Stored, Parts
  <1>4. \A part \in Parts : \A m \in stored[part] :
          m \in p.got[part] \/ /\ m.by > p.first \/ m.by \in p.open
                               /\ part # "rows" /\ m.by > p.last => m.at >= p.version
    BY <1>1, <1>2 DEF Versioned, Answered, Newer
  <1> QED BY <1>1, <1>2, <1>3, <1>4

\* A download shows different moments, but what it lacks was written by a change begun after it,
\* or in flight when it began; one begun after its last query is stamped no earlier than its
\* version, so that the next version tells of it (computeVersion).
THEOREM DownloadsMissOnlyTheNewer == Spec => []MissedIsNewer
  <1>1. Init => Fit /\ Versioned BY InitFit, InitVersioned
  <1>2. Fit /\ Versioned /\ [Next]_contentVars => (Fit /\ Versioned)' BY NextFits, NextVersioned
  <1>3. Fit /\ Versioned => MissedIsNewer BY MissedAreNewer
  <1> QED BY <1>1, <1>2, <1>3, PTL DEF Spec

=============================================================================
