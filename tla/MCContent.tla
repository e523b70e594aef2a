----------------------------- MODULE MCContent -----------------------------
(***************************************************************************)
(* A small instance of Content: edits of each sort.                        *)
(***************************************************************************)
EXTENDS Content, TLC

CONSTANTS i1, i2, i3, en, ru

Body(b, t, c) == [base |-> b, texts |-> t, circuits |-> c]
MCEdits == {Body(TRUE, <<en>>, "kept"), Body(FALSE, <<ru, en>>, "kept"),
            Body(TRUE, <<>>, "new"), Body(FALSE, <<>>, "new"), Body(FALSE, <<>>, "none")}

Symmetric == Permutations(Items) \cup Permutations(Sessions)

OneKind ==
  \E k \in Kinds :
    /\ \A i \in Items : kind[i] \in {k, None}
    /\ \A s \in Processes : call[s].kind \in {k, None}
    /\ \A m \in migrated : \E n \in DOMAIN Seeds[k] : m = Seeds[k][n]

Rituals == {i \in Items : kind[i] = "ritual"}
Changing == {s \in Processes : call[s].change # 0}
Downloads == {s \in Sessions : call[s].op = "findAll"}
NothingKept == app = [k \in Kinds |-> NoApp]

\* The bound: a behaviour is about one kind of item, and is one of overlapping changes at one
\* time that nobody downloads, of rituals before 066, or of a single download beside one change
\* after the other, of rituals after 066.  Only rituals see the last change.
OneHalf ==
  /\ OneKind
  /\ changes = MaxChanges => Rituals # {}
  /\ \/ clock = 0 /\ NothingKept /\ Downloads = {} /\ "066" \notin migrated
     \/ /\ changes < MaxChanges /\ Cardinality(Changing) <= 1
        /\ Cardinality(Downloads) <= IF NothingKept THEN 1 ELSE 0
        /\ Rituals # {} => "066" \in migrated

=============================================================================
