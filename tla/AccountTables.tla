--------------------------- MODULE AccountTables ---------------------------
(***************************************************************************)
(* The tables behind pilgrims' accounts and their sign-in, what the auth   *)
(* service keeps in memory, and the HTTP requests served against both.     *)
(*                                                                         *)
(* A pilgrim is a row of users (its username is the phone, the OTP login)  *)
(* and a row of pilgrims, inserted in one transaction: an account.  As in  *)
(* AgencyTables a step is one SQL statement with the test the handler      *)
(* makes of its result, at READ COMMITTED; the last writes of a            *)
(* transaction and its COMMIT are one step.                                *)
(***************************************************************************)
EXTENDS Naturals, Sequences, FiniteSets

CONSTANTS
  Accounts,         \* ids, handed out once
  Phones, Pinfls,
  Flows,            \* Telegram logins: random states, each used once
  Sessions,         \* requests served at a time
  MaxCodes, MaxTokens, LastSecond,   \* bounds: OTP sessions, token rows, the clock
  None              \* SQL null, an empty cell

ASSUME AccountsAssumption ==
  /\ MaxCodes \in Nat /\ MaxTokens \in Nat /\ LastSecond \in Nat
  /\ IsFiniteSet(Sessions) /\ Sessions # {}
  /\ None \notin Accounts \cup Phones \cup Pinfls \cup Flows \cup (Accounts \X (0..LastSecond))

VARIABLES
  username,    \* users.username of an account, None before the insert; unique
  phone,       \* pilgrims.phone: digits (normalizePhone), or as it was typed
  pinfl,       \* pilgrims.pinfl, unique when not null (migration 047)
  gone,        \* soft-deleted pilgrims; their users row stays
  otp,         \* otp_sessions in the order of created_at
  tokens,      \* refresh_tokens in the order of their inserts
  second,      \* the clock, in the seconds a JWT's iat counts
  app,         \* the app of each account: the refresh token it holds
  telegram,    \* pendingStates, usedTickets (memory) and the tickets handed out
  req          \* the requests in flight

accountVars == <<username, phone, pinfl, gone>>
signInVars == <<otp, tokens, second, app, telegram>>
tables == <<accountVars, signInVars>>
vars == <<tables, req>>

-----------------------------------------------------------------------------
(* Requests *)

\* users and pinfls are the unique keys its open transaction has written, each
\* with the account it is written for.
NoCall == [op |-> "idle", at |-> "idle", phone |-> None, pinfl |-> None, account |-> None,
           code |-> 0, token |-> None, row |-> 0, flow |-> None, was |-> None,
           rows |-> <<>>, items |-> <<>>, taken |-> {}, users |-> {}, pinfls |-> {}]

\* A number with its "+", as IsPhoneNumber asks for it; normalizePhone keeps the digits.
AsTyped == {"+"} \X Phones

Running(s, op, at) == req[s].op = op /\ req[s].at = at
Begin(s, call) == /\ req[s] = NoCall
                  /\ req' = [req EXCEPT ![s] = call]
GoTo(s, at) == req' = [req EXCEPT ![s].at = at]
Reply(s) == req' = [req EXCEPT ![s] = NoCall]

Check(s, op, at, test, next) == /\ Running(s, op, at)
                                /\ IF test THEN GoTo(s, next) ELSE Reply(s)
                                /\ UNCHANGED tables

-----------------------------------------------------------------------------
(* Unique keys.  A key an open transaction has written, or gives up, makes  *)
(* every other write of it wait.                                            *)

HoldsPhone(t, ph) == \E u \in req[t].users : u[2] = ph \/ username[u[1]] = ph
HoldsPinfl(t, x) == \E w \in req[t].pinfls : w[2] = x
HoldsUser(t, a) == \E u \in req[t].users : u[1] = a

Fresh == {a \in Accounts : username[a] = None /\ \A t \in Sessions : ~HoldsUser(t, a)}

PhoneTaken(ph) == \E a \in Accounts : username[a] = ph
PinflTaken(x) == \E a \in Accounts : pinfl[a] = x

\* The next statement of s would write a key, or a users row, that t holds.
WaitsFor(s, t) ==
  /\ s # t
  /\ \/ req[s].at = "username" /\ HoldsPhone(t, req[s].phone)
     \/ Running(s, "update", "username") /\ HoldsUser(t, req[s].account)
     \/ req[s].at = "row" /\ req[s].pinfl # None /\ HoldsPinfl(t, req[s].pinfl)

Blocked(s) == \E t \in Sessions : WaitsFor(s, t)

\* INSERT or UPDATE of users.username inside s's transaction: a key that is
\* there by now (23505) ends the request and rolls back.
WriteUsername(s, a) ==
  /\ ~Blocked(s)
  /\ IF \/ \E b \in Accounts \ {a} : username[b] = req[s].phone
        \/ \E u \in req[s].users : u[2] = req[s].phone
     THEN Reply(s)
     ELSE req' = [req EXCEPT ![s].at = "row", ![s].account = a,
                             ![s].users = @ \cup {<<a, req[s].phone>>}]
  /\ UNCHANGED tables

\* The PINFL s is about to write is another account's (23505), or its own
\* transaction has written it.
PinflClashes(s) ==
  /\ req[s].pinfl # None
  /\ \/ \E b \in Accounts \ {req[s].account} : pinfl[b] = req[s].pinfl
     \/ HoldsPinfl(s, req[s].pinfl)

\* A column after an UPDATE to a value of the request; None is null, which clears the column,
\* or no value, which leaves it.
Replaced(column, a, value) ==
  {[column EXCEPT ![a] = v] : v \in IF value = None THEN {None, column[a]} ELSE {value}}

\* A column after the writes of a transaction.
Committed(column, written) ==
  [a \in Accounts |-> IF \E w \in written : w[1] = a
                      THEN (CHOOSE w \in written : w[1] = a)[2] ELSE column[a]]

\* COMMIT of inserted users and pilgrims, the last pilgrim's row included.
CommitAccounts(s) ==
  /\ username' = Committed(username, req[s].users)
  /\ phone' = Committed(phone, req[s].users)
  /\ pinfl' = Committed(pinfl, req[s].pinfls \cup {<<req[s].account, req[s].pinfl>>})
  /\ UNCHANGED gone

=============================================================================
