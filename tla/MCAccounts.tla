----------------------------- MODULE MCAccounts -----------------------------
(***************************************************************************)
(* A small instance of Accounts.                                           *)
(***************************************************************************)
EXTENDS Accounts, TLC

CONSTANTS b1, ph1, ph2, x1

\* Two countries have a region of the same name, each with a district of the same
\* name; the region of one more district is not live.
MCCountries == {[id |-> "c1", name |-> "C", parent |-> None],
                [id |-> "c2", name |-> "K", parent |-> None]}
MCRegions == {[id |-> "g1", name |-> "G", parent |-> "c1"],
              [id |-> "g2", name |-> "G", parent |-> "c2"],
              [id |-> "g3", name |-> "H", parent |-> "c2"]}
MCDistricts == {[id |-> "d1", name |-> "D", parent |-> "g1"],
                [id |-> "d2", name |-> "D", parent |-> "g2"],
                [id |-> "d3", name |-> "E", parent |-> "g9"],
                [id |-> "d4", name |-> "F", parent |-> "g3"]}

Row(ph, x, named, country, region, district) ==
  [phone |-> ph, pinfl |-> x, named |-> named,
   country |-> country, region |-> region, district |-> district]

\* Files of one row with the places it may name, or with a bad cell, and files of rows that
\* share keys with each other or with what is there.
Keys(ph, x) == Row(ph, x, TRUE, None, None, None)
PlaceFiles == {<<Row(ph1, None, TRUE, c, g, d)>> :
                 c \in {None, "C"}, g \in {None, "G", "H"}, d \in {None, "D", "E"}}
              \cup {<<Row(ph1, None, TRUE, "K", None, "D")>>, <<Row(ph1, None, TRUE, None, "?", None)>>,
                    <<Row(ph1, None, TRUE, None, None, "F")>>,
                    <<Row(ph1, None, TRUE, "C", None, "F")>>, <<Row(ph1, None, FALSE, None, None, None)>>}
KeyFiles == {<<Keys(ph1, x1)>>, <<Keys(ph2, x1), Keys(ph1, None)>>, <<Keys(ph1, x1), Keys(ph2, x1)>>,
             <<Keys(ph1, None), Keys(ph2, None), Keys(ph1, None)>>}
MCFiles == PlaceFiles \cup KeyFiles

Symmetric == Permutations(Sessions) \cup Permutations(Accounts) \cup Permutations(Flows)

Calling(ops) == \A s \in Sessions : req[s].op \in ops \cup {"idle"}
Alone == \E s \in Sessions : \A t \in Sessions \ {s} : req[t] = NoCall

\* The bound: a behaviour proves and registers one phone by codes and deletes the account, or
\* signs in with one code, refreshes and logs out, or signs in by Telegram one request at a
\* time, or creates, imports and edits, or edits one request at a time with numbers as they
\* are typed.
NoColumn == [a \in Accounts |-> None]
OnePhone == /\ \A s \in Sessions : req[s].phone \in {None, ph1} /\ req[s].pinfl = None
            /\ pinfl = NoColumn /\ phone = username /\ ~PhoneTaken(ph2)
Proving ==
  /\ Calling({"sendOtp", "verify", "register"}) /\ OnePhone
  /\ second = 0 /\ \A i \in DOMAIN tokens : ~tokens[i].revoked
  /\ Len(tokens) + 2 * Len(otp) <= 6
  /\ \A f \in Flows : Flow(f) = NewFlow
Rotating ==
  /\ Calling({"sendOtp", "verify", "register", "refresh", "logout"}) /\ OnePhone
  /\ Len(otp) <= 1 /\ gone = {}
  /\ Len(tokens) + Cardinality(Children(0)) <= 5
  /\ \A k \in DOMAIN otp : otp[k].age = 0
  /\ \A f \in Flows : Flow(f) = NewFlow
ByTelegram ==
  /\ Calling({"callback", "telegram", "register"}) /\ Alone /\ OnePhone
  /\ \A f \in Flows : Flow(f).phone \in {None, ph1}
  /\ second = 0 /\ Len(tokens) <= 2 /\ \A i \in DOMAIN tokens : ~tokens[i].revoked
  /\ \A k \in DOMAIN otp : otp[k].age = 0 /\ ~otp[k].sent
Recording ==
  /\ Calling({"create", "import", "update", "profile"})
  /\ otp = <<>> /\ second = 0
  /\ \/ Alone /\ accountVars = <<NoColumn, NoColumn, NoColumn, {}>>
     \/ \A s \in Sessions : req[s].rows \in KeyFiles \cup {<<>>}
  /\ \A a \in Accounts : phone[a] \in Phones \/ username[a] = None
  /\ \A s \in Sessions : req[s].phone \in Phones \/ req[s].op \notin {"update", "profile"}
  /\ \A f \in Flows : Flow(f) = NewFlow
Editing ==
  /\ Calling({"create", "update", "profile"}) /\ Alone
  /\ otp = <<>> /\ second = 0 /\ pinfl = NoColumn
  /\ Cardinality({a \in Accounts : username[a] # None}) <= 1
  /\ \A s \in Sessions : req[s].phone \in {None, ph1, <<"+", ph1>>} \/ req[s].op = "update"
  /\ \A f \in Flows : Flow(f) = NewFlow
OneOfThese == Proving \/ Rotating \/ ByTelegram \/ Recording \/ Editing

=============================================================================
