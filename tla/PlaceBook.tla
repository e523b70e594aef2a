----------------------------- MODULE PlaceBook -----------------------------
(***************************************************************************)
(* What a table of places promises: a guest is in one place at a time,     *)
(* gets in only while the place is open and never straight from another,   *)
(* and closing a place frees everybody in it.                              *)
(*                                                                         *)
(* Rooms, room requests and groups are three such tables; AgencyBackend    *)
(* states which of them keep the promise.                                  *)
(***************************************************************************)
CONSTANTS Guests, Places, Nowhere

VARIABLES open, place

Init == /\ open = {}
        /\ place = [p \in Guests |-> Nowhere]

OpenPlaces(X) == /\ open' = open \cup X
                 /\ UNCHANGED place

Take(p, x) == /\ x \in open
              /\ place[p] = Nowhere
              /\ place' = [place EXCEPT ![p] = x]
              /\ UNCHANGED open

Freed(P) == [p \in Guests |-> IF p \in P THEN Nowhere ELSE place[p]]

Leave(P) == /\ place' = Freed(P)
            /\ UNCHANGED open

\* Others may leave at the same time.
Close(x, P) == /\ open' = open \ {x}
               /\ {p \in Guests : place[p] = x} \subseteq P
               /\ place' = Freed(P)

Next == \/ \E X \in SUBSET Places : OpenPlaces(X)
        \/ \E p \in Guests, x \in Places : Take(p, x)
        \/ \E P \in SUBSET Guests : Leave(P)
        \/ \E x \in Places, P \in SUBSET Guests : Close(x, P)

Spec == Init /\ [][Next]_<<open, place>>

TypeOK == /\ open \subseteq Places
          /\ place \in [Guests -> Places \cup {Nowhere}]

\* Nobody is in a place that is not open.
NobodyOutside == \A p \in Guests : place[p] \in open \cup {Nowhere}

=============================================================================
