--------------------------- MODULE AccountsProofs ---------------------------
(***************************************************************************)
(* Theorems about Accounts, for any accounts, phones, files and any number *)
(* of requests served at once.                                             *)
(***************************************************************************)
EXTENDS Accounts, TLAPS, FiniteSetTheorems

-----------------------------------------------------------------------------
(* What a request holds of its earlier statements *)

Operations == {"idle", "sendOtp", "verify", "telegram", "register", "refresh", "logout",
               "callback", "create", "import", "update", "profile"}
Stages == {"idle", "deliver", "session", "insert", "user", "pilgrim", "login", "answer", "proof",
           "taken", "pinfl", "username", "row", "find", "revoke", "exchange", "phones", "pinfls",
           "read", "write"}
ImportItems == UNION {{Import!Items(rows)[i] : i \in DOMAIN rows} : rows \in Files}
Numbers == Phones \cup AsTyped \cup {None}
Calls == [op : Operations, at : Stages, phone : Numbers, pinfl : Pinfls \cup {None},
          account : Accounts \cup {None}, code : Nat, token : Tokens \cup {None}, row : Nat,
          flow : Flows \cup {None}, was : Numbers, rows : Files \cup {<<>>},
          items : Seq(ImportItems), taken : SUBSET (Phones \cup Pinfls),
          users : SUBSET (Accounts \X Phones), pinfls : SUBSET (Accounts \X Pinfls)]

Writing(c) == c.at \in {"username", "row"}
Inserting(c) == c.op \in {"register", "create", "import"}

Staged(c) ==
  /\ c.op = "idle" => c.at \in {"idle", "answer"}
  /\ c.op = "sendOtp" => c.at = "deliver"
  /\ c.op = "verify" => c.at \in {"session", "user", "pilgrim", "login"}
  /\ c.op = "telegram" => c.at \in {"insert", "user", "pilgrim", "login"}
  /\ c.op = "register" => c.at \in {"proof", "taken", "pinfl", "username", "row"}
  /\ c.op = "refresh" => c.at \in {"find", "revoke"}
  /\ c.op = "logout" => c.at \in {"find", "revoke"}
  /\ c.op = "callback" => c.at = "exchange"
  /\ c.op = "create" => c.at \in {"taken", "pinfl", "username", "row"}
  /\ c.op = "import" => c.at \in {"phones", "pinfls", "username", "row"}
  /\ c.op = "update" => c.at \in {"read", "taken", "username", "row"}
  /\ c.op = "profile" => c.at \in {"find", "write"}

\* The codes a request has read and may still use.
Holds(c, k) == /\ c.code = k
               /\ \/ c.at \in {"user", "pilgrim", "login"}
                  \/ c.op = "register" /\ c.at \in {"taken", "pinfl", "username", "row"}

\* With n codes, the token rows of the table and these logins.
Knows(c, n, table, login) ==
  /\ c.code <= n /\ c.row <= Len(table)
  /\ c.op \in {"sendOtp", "verify", "telegram", "register", "create"} => c.phone \in Phones
  /\ c.op = "import" /\ Writing(c) => c.phone \in Phones
  /\ c.op = "update" => c.phone \in Phones \/ (c.phone = None /\ c.at \in {"read", "row"})
  /\ c.at \in {"deliver", "session"} \/ Holds(c, c.code) => c.code \in 1..n
  /\ c.at \in {"insert", "session", "user"} => c.account = None
  /\ c.at \in {"pilgrim", "row", "answer"} => c.account \in Accounts
  /\ c.token # None <=> c.op \in {"refresh", "logout"} \/ c.at = "answer"
  /\ c.op = "callback" => c.flow \in Flows
  /\ c.op \in {"update", "profile"} => c.account \in Accounts /\ login[c.account] # None

RowsIn(table, token) == {i \in DOMAIN table : <<table[i].account, table[i].second>> = token}

KnowsToken(c, table) ==
  /\ c.token # None => c.token[1] = c.account /\ RowsIn(table, c.token) # {}
  /\ c.at = "revoke" => c.row \in RowsIn(table, c.token)

\* The unique keys its open transaction has written.
KnowsKeys(c) ==
  /\ c.users # {} => Writing(c) /\ (Inserting(c) \/ c.op = "update")
  /\ c.users # {} /\ c.op # "import" => c.at = "row" /\ c.users = {<<c.account, c.phone>>}
  /\ c.at = "row" => \/ <<c.account, c.phone>> \in c.users
                     \/ c.op = "update" /\ c.phone \in {None, c.was}
  /\ c.pinfls # {} => c.op = "import" /\ Writing(c)

\* The row of its file an import is at.
RowOf(c) == Len(c.rows) - Len(c.items)

KnowsFile(c) ==
  /\ c.op = "import" => c.rows \in Files
  /\ c.op = "import" /\ ~Writing(c) => c.taken \subseteq Phones
  /\ c.op = "import" /\ Writing(c) =>
       /\ Import!FileOk(c.rows, c.taken)
       /\ RowOf(c) \in 1..Len(c.rows)
       /\ \A k \in 1..Len(c.items) : c.items[k] = Import!Items(c.rows)[RowOf(c) + k]
       /\ c.phone = c.rows[RowOf(c)].phone /\ c.pinfl = c.rows[RowOf(c)].pinfl
       /\ \A u \in c.users : \/ \E j \in 1..(RowOf(c) - 1) : u[2] = c.rows[j].phone
                             \/ c.at = "row" /\ u = <<c.account, c.phone>>
       /\ \A w \in c.pinfls : \E j \in 1..(RowOf(c) - 1) : w[2] = c.rows[j].pinfl

CallKept(c, n, table, login) ==
  Staged(c) /\ Knows(c, n, table, login) /\ KnowsToken(c, table) /\ KnowsKeys(c) /\ KnowsFile(c)

CallsKept == /\ req \in [Sessions -> Calls]
             /\ \A s \in Sessions : CallKept(req[s], Len(otp), tokens, username)

-----------------------------------------------------------------------------
(* The inductive invariant *)

FlowRows == [at : {"new", "pending", "ticket", "over"}, phone : Phones \cup {None}, redeemed : Nat]

TelegramTypeOK ==
  /\ telegram \in [used : SUBSET Flows, flow : [Flows -> FlowRows]]
  /\ \A f \in Flows : Flow(f).at = "ticket" => Flow(f).phone \in Phones

TablesOK ==
  /\ username \in [Accounts -> Phones \cup {None}]
  /\ phone \in [Accounts -> Numbers]
  /\ pinfl \in [Accounts -> Pinfls \cup {None}]
  /\ gone \subseteq Accounts
  /\ otp \in Seq(Codes) /\ Len(otp) <= MaxCodes
  /\ tokens \in Seq(TokenRows) /\ Len(tokens) <= MaxTokens
  /\ second \in 0..LastSecond
  /\ app \in [Accounts -> Apps]

TypeInv == TablesOK /\ TelegramTypeOK /\ CallsKept

\* An account that is being inserted is in nobody else's transaction.
InsertsApart == \A s \in Sessions : Inserting(req[s]) => \A u \in req[s].users :
  username[u[1]] = None /\ \A t \in Sessions \ {s} : ~HoldsUser(t, u[1])

GoneWereThere == \A a \in gone : username[a] # None

Revoking(i) == {s \in Sessions : Running(s, "refresh", "revoke") /\ req[s].row = i}

RotationInv == \A i \in DOMAIN tokens :
  /\ tokens[i].from < i
  /\ ~tokens[i].revoked => Children(i) = {}
  /\ Cardinality(Children(i)) + Cardinality(Revoking(i)) <= Cardinality(Sessions)

Holders(k) == {s \in Sessions : Holds(req[s], k)}

CodesInv == \A k \in DOMAIN otp :
  IF otp[k].status = "USED"
  THEN otp[k].uses + Cardinality(Holders(k)) <= Cardinality(Sessions)
  ELSE otp[k].uses = 0

Calling(s, f) == req[s].op = "callback" /\ req[s].flow = f

TicketsInv == \A f \in Flows :
  /\ Flow(f).redeemed \in {0, 1}
  /\ Flow(f).at \in {"new", "pending"} => Flow(f).redeemed = 0
  /\ Flow(f).at = "ticket" /\ Flow(f).redeemed = 1 => f \in telegram.used
  /\ \A s \in Sessions : Calling(s, f) => /\ Flow(f).at = "over" /\ Flow(f).redeemed = 0
                                          /\ \A t \in Sessions : Calling(t, f) => t = s

\* Two rows have this token.
Several(token) == \E i, j \in RowsOf(token) : i # j
Revoked(token) == \E i \in RowsOf(token) : tokens[i].revoked

AppsInv == \A a \in Accounts : app[a].holds # None =>
  /\ app[a].holds[1] = a /\ RowsOf(app[a].holds) # {}
  /\ \/ app[a].lost \/ Several(app[a].holds) \/ ~Revoked(app[a].holds)
     \/ \E t \in Sessions : req[t].at = "answer" /\ req[t].account = a

\* Nobody has the token of an answer that is not there yet, unless it is another one's too.
AnswersInv == \A s \in Sessions : req[s].at = "answer" =>
  \/ Several(req[s].token)
  \/ /\ ~Revoked(req[s].token)
     /\ \A a \in Accounts : app[a].holds # req[s].token
     /\ \A t \in Sessions \ {s} : req[t].token # req[s].token

LogoutsInv == \A s \in Sessions : req[s].op = "logout" =>
  app[req[s].account].holds # req[s].token \/ Several(req[s].token)

TokensInv == AppsInv /\ AnswersInv /\ LogoutsInv

Inv == /\ TypeInv /\ InsertsApart /\ GoneWereThere /\ RotationInv /\ CodesInv /\ TicketsInv
       /\ TokensInv

-----------------------------------------------------------------------------
(* Which steps write what *)

Frames ==
  /\ \/ UNCHANGED accountVars
     \/ \E s \in Sessions : \/ CreatePilgrim(s) \/ InsertRegistered(s) \/ ImportPilgrim(s)
                            \/ UpdateRow(s) \/ WriteProfile(s)
     \/ \E a \in Accounts : AdminEdits(a) \/ ApproveDeletion(a)
  /\ \/ UNCHANGED otp \/ CodeAges
     \/ \E s \in Sessions : \/ Deliver(s) \/ LogIn(s) \/ MarkVerified(s) \/ InsertRegistered(s)
                            \/ InsertTelegramSession(s)
                            \/ \E ph \in Phones : BeginSendOtp(s, ph)
  /\ \/ UNCHANGED tokens
     \/ \E s \in Sessions : LogIn(s) \/ InsertRegistered(s) \/ Rotate(s) \/ CommitLogout(s)
  /\ UNCHANGED second \/ Tick
  /\ \/ UNCHANGED app \/ Restart
     \/ \E s \in Sessions : Receive(s) \/ \E a \in Accounts : BeginLogout(s, a)
  /\ \/ UNCHANGED telegram \/ Restart
     \/ \E s \in Sessions : Exchange(s) \/ \E f \in Flows : HandleCallback(s, f) \/ RedeemTicket(s, f)
     \/ \E f \in Flows : FlowExpires(f) \/ BuildAuthUrl(f)
  /\ \/ UNCHANGED req \/ Restart
     \/ \E s \in Sessions : Serve(s) /\ req' = [req EXCEPT ![s] = req'[s]]

LEMMA StepsWrite == ASSUME req \in [Sessions -> Calls], Next PROVE Frames
  <1> USE DEF Check, Begin, GoTo, Reply, tables, accountVars, signInVars
  <1>1. ASSUME NEW s \in Sessions, SendOtp(s) PROVE Frames
    BY <1>1 DEF Frames, Serve, SendOtp, BeginSendOtp, Deliver
  <1>2. ASSUME NEW s \in Sessions, VerifyOtp(s) PROVE Frames
    BY <1>2 DEF Frames, Serve, VerifyOtp, BeginVerify, ReadSession
  <1>3. ASSUME NEW s \in Sessions, CompletePhoneLogin(s) PROVE Frames
    BY <1>3 DEF Frames, Serve, CompletePhoneLogin, ReadUser, ReadPilgrim, LogIn, MarkVerified, Answering
  <1>4. ASSUME NEW s \in Sessions, Register(s) PROVE Frames
    BY <1>4 DEF Frames, Serve, Register, FindProof, FindRegistered, FindPinfl, InsertRegistered,
       InsertUser, BeginRegister, WriteUsername, Answering
  <1>5. ASSUME NEW s \in Sessions, LoginWithTelegram(s) PROVE Frames
    BY <1>5 DEF Frames, Serve, LoginWithTelegram, Exchange, InsertTelegramSession, HandleCallback,
       RedeemTicket
  <1>6. ASSUME NEW s \in Sessions, RefreshToken(s) PROVE Frames
    BY <1>6 DEF Frames, Serve, RefreshToken, RefuseToken, Rotate, Receive, BeginRefresh, FindToken,
       Answering
  <1>7. ASSUME NEW s \in Sessions, Logout(s) PROVE Frames
    BY <1>7 DEF Frames, Serve, Logout, CommitLogout, BeginLogout
  <1>8. ASSUME NEW s \in Sessions, Create(s) PROVE Frames
    BY <1>8 DEF Frames, Serve, Records, Create, FindUsed, FindUsedPinfl, CreatePilgrim, CreateUser,
       BeginCreate, BeginAdminCreate, WriteUsername
  <1>9. ASSUME NEW s \in Sessions, ImportFromExcel(s) PROVE Frames
    BY <1>9 DEF Frames, Serve, Records, ImportFromExcel, ReadTakenPhones, ReadTakenPinfls,
       ImportPilgrim, BeginImport
  <1>10. ASSUME NEW s \in Sessions, Update(s) PROVE Frames
    BY <1>10 DEF Frames, Serve, Records, Update, ReadOwn, FindOther, MoveLogin, UpdateRow, BeginUpdate,
       WriteUsername
  <1>11. ASSUME NEW s \in Sessions, UpdateProfile(s) PROVE Frames
    BY <1>11 DEF Frames, Serve, Records, UpdateProfile, FindPhone, WriteProfile, BeginProfile
  <1>12. ASSUME NEW s \in Sessions, AbortVictim(s) PROVE Frames
    BY <1>12 DEF Frames, Serve, Records, AbortVictim
  <1>13. ASSUME NEW a \in Accounts, AdminEdits(a) \/ ApproveDeletion(a) PROVE Frames
    <2>1. CASE AdminEdits(a) BY <2>1 DEF Frames, AdminEdits, AdminUpdate
    <2>2. CASE ApproveDeletion(a) BY <2>2 DEF Frames, ApproveDeletion
    <2> QED BY <1>13, <2>1, <2>2
  <1>14. CASE Passing
    BY <1>14 DEF Frames, Passing, CodeAges, Tick, FlowExpires, BuildAuthUrl
  <1>15. CASE Restart BY <1>15 DEF Frames, Restart
  <1> QED BY <1>1, <1>2, <1>3, <1>4, <1>5, <1>6, <1>7, <1>8, <1>9, <1>10, <1>11, <1>12, <1>13,
             <1>14, <1>15 DEF Next, Serve, Records
-----------------------------------------------------------------------------
(* Types *)

\* Rows stay, a login is never taken away.
Grows ==
  /\ Len(otp) <= Len(otp') /\ Len(tokens) <= Len(tokens')
  /\ \A a \in Accounts : username[a] # None => username'[a] # None
  /\ \A i \in DOMAIN tokens : /\ i \in DOMAIN tokens'
                              /\ tokens'[i].account = tokens[i].account
                              /\ tokens'[i].second = tokens[i].second
                              /\ tokens'[i].from = tokens[i].from
                              /\ tokens[i].revoked => tokens'[i].revoked

Writes(written, a) == \E w \in written : w[1] = a

LEMMA LeftAlone ==
  ASSUME NEW column, NEW W
  PROVE  \A a \in Accounts : ~Writes(W, a) => Committed(column, W)[a] = column[a]
  BY DEF Committed, Writes

LEMMA CommittedColumn ==
  ASSUME NEW V, NEW column \in [Accounts -> V], NEW W \in SUBSET (Accounts \X V)
  PROVE  /\ Committed(column, W) \in [Accounts -> V]
         /\ \A a \in Accounts : Writes(W, a) => <<a, Committed(column, W)[a]>> \in W
  <1> DEFINE wrote(a) == CHOOSE w \in W : w[1] = a
  <1>1. ASSUME NEW a \in Accounts, Writes(W, a)
        PROVE  wrote(a) \in W /\ wrote(a)[2] \in V /\ wrote(a) = <<a, wrote(a)[2]>>
    <2>1. wrote(a) \in W /\ wrote(a)[1] = a BY <1>1 DEF Writes
    <2> QED BY <2>1
  <1>2. \A a \in Accounts : Committed(column, W)[a] = IF Writes(W, a) THEN wrote(a)[2] ELSE column[a]
    BY DEF Committed, Writes
  <1> HIDE DEF wrote
  <1>3. \A a \in Accounts : Writes(W, a) => <<a, Committed(column, W)[a]>> \in W
    BY <1>1, <1>2
  <1>4. \A a \in Accounts : Committed(column, W)[a] \in V BY <1>1, <1>2
  <1>5. Committed(column, W) \in [Accounts -> V] BY <1>4 DEF Committed
  <1> QED BY <1>3, <1>5

LEMMA ReplacedColumn ==
  ASSUME NEW V, None \in V, NEW column \in [Accounts -> V], NEW a \in Accounts, NEW value \in V,
         NEW new \in Replaced(column, a, value)
  PROVE  new \in [Accounts -> V] /\ \A b \in Accounts \ {a} : new[b] = column[b]
  <1>1. PICK v \in V : new = [column EXCEPT ![a] = v] BY DEF Replaced
  <1> QED BY <1>1

LEMMA RowWritten ==
  ASSUME NEW S, NEW q \in Seq(S), NEW k \in 1..Len(q), NEW x \in S
  PROVE  [q EXCEPT ![k] = x] \in Seq(S) /\ Len([q EXCEPT ![k] = x]) = Len(q)
  OBVIOUS

\* What a commit does to the accounts.
LEMMA AccountsCommitted ==
  ASSUME TablesOK, NEW s \in Sessions, req[s] \in Calls, req[s].account \in Accounts,
         CommitAccounts(s)
  PROVE  /\ username' \in [Accounts -> Phones \cup {None}]
         /\ phone' \in [Accounts -> Numbers]
         /\ pinfl' \in [Accounts -> Pinfls \cup {None}]
         /\ gone' = gone
         /\ \A a \in Accounts : Writes(req[s].users, a) =>
              <<a, username'[a]>> \in req[s].users /\ phone'[a] = username'[a]
         /\ \A a \in Accounts : ~Writes(req[s].users, a) =>
              username'[a] = username[a] /\ phone'[a] = phone[a]
  <1> DEFINE U == req[s].users
             W == req[s].pinfls \cup {<<req[s].account, req[s].pinfl>>}
  <1>1. U \in SUBSET (Accounts \X (Phones \cup {None})) BY DEF Calls
  <1>2. W \in SUBSET (Accounts \X (Pinfls \cup {None})) BY DEF Calls
  <1>3. username' = Committed(username, U) /\ phone' = Committed(phone, U)
        /\ pinfl' = Committed(pinfl, W) /\ gone' = gone
    BY DEF CommitAccounts
  <1>4. \A a \in Accounts : Writes(U, a) => phone'[a] = username'[a]
    BY <1>3 DEF Committed, Writes
  <1>a. /\ username \in [Accounts -> Phones \cup {None}]
        /\ phone \in [Accounts -> Numbers]
        /\ pinfl \in [Accounts -> Pinfls \cup {None}]
    BY DEF TablesOK
  <1> HIDE DEF U, W
  <1>5. /\ username' \in [Accounts -> Phones \cup {None}]
        /\ \A a \in Accounts : IF Writes(U, a) THEN <<a, username'[a]>> \in U
                               ELSE username'[a] = username[a]
    <2>1. /\ Committed(username, U) \in [Accounts -> Phones \cup {None}]
          /\ \A a \in Accounts : IF Writes(U, a) THEN <<a, Committed(username, U)[a]>> \in U
                                 ELSE Committed(username, U)[a] = username[a]
      BY <1>a, <1>1, CommittedColumn, LeftAlone
    <2> QED BY <2>1, <1>3
  <1>b. U \in SUBSET (Accounts \X Numbers) BY <1>1 DEF Numbers
  <1>6. /\ phone' \in [Accounts -> Numbers]
        /\ \A a \in Accounts : IF Writes(U, a) THEN <<a, phone'[a]>> \in U
                               ELSE phone'[a] = phone[a]
    <2>1. /\ Committed(phone, U) \in [Accounts -> Numbers]
          /\ \A a \in Accounts : IF Writes(U, a) THEN <<a, Committed(phone, U)[a]>> \in U
                                 ELSE Committed(phone, U)[a] = phone[a]
      BY <1>a, <1>b, CommittedColumn, LeftAlone
    <2> QED BY <2>1, <1>3
  <1>7. pinfl' \in [Accounts -> Pinfls \cup {None}]
    BY <1>a, <1>2, <1>3, CommittedColumn
  <1>8. \A a \in Accounts :
              IF Writes(U, a) THEN <<a, username'[a]>> \in U /\ phone'[a] = username'[a]
              ELSE username'[a] = username[a] /\ phone'[a] = phone[a]
    BY <1>4, <1>5, <1>6
  <1> QED BY <1>3, <1>5, <1>6, <1>7, <1>8 DEF U

LEMMA AccountsGrow ==
  ASSUME TypeInv, Next
  PROVE  /\ username' \in [Accounts -> Phones \cup {None}]
         /\ phone' \in [Accounts -> Numbers]
         /\ pinfl' \in [Accounts -> Pinfls \cup {None}]
         /\ gone' \in SUBSET Accounts /\ gone \subseteq gone'
         /\ \A a \in Accounts : username[a] # None => username'[a] # None
  <1> USE AccountsAssumption DEF TypeInv, CallsKept
  <1> DEFINE Grown == /\ username' \in [Accounts -> Phones \cup {None}]
                      /\ phone' \in [Accounts -> Numbers]
                      /\ pinfl' \in [Accounts -> Pinfls \cup {None}]
                      /\ gone' \in SUBSET Accounts /\ gone \subseteq gone'
                      /\ \A a \in Accounts : username[a] # None => username'[a] # None
  <1>1. CASE UNCHANGED accountVars BY <1>1 DEF accountVars, TablesOK
  <1>2. ASSUME NEW s \in Sessions, CommitAccounts(s), req[s].at = "row" PROVE Grown
    <2>1. req[s] \in Calls /\ req[s].account \in Accounts BY <1>2 DEF CallKept, Knows
    <2>2. \A a, p : <<a, p>> \in req[s].users => p # None BY <2>1 DEF Calls
    <2>3. /\ username' \in [Accounts -> Phones \cup {None}]
          /\ phone' \in [Accounts -> Numbers]
          /\ pinfl' \in [Accounts -> Pinfls \cup {None}]
          /\ gone' = gone
          /\ \A a \in Accounts : username'[a] = username[a] \/ <<a, username'[a]>> \in req[s].users
      <3>1. TablesOK OBVIOUS
      <3> HIDE DEF TypeInv, CallsKept
      <3> QED BY <1>2, <2>1, <3>1, AccountsCommitted
    <2>4. \A a \in Accounts : username[a] # None => username'[a] # None BY <2>2, <2>3
    <2> QED BY <2>3, <2>4 DEF TablesOK
  <1>3. ASSUME NEW s \in Sessions, UpdateRow(s) PROVE Grown
    <2>1. req[s] \in Calls /\ req[s].account \in Accounts
      BY <1>3 DEF UpdateRow, Running, CallKept, Knows, Operations
    <2>2. CASE UNCHANGED accountVars BY <2>2, <1>1
    <2>3. CASE Edited(s)
      <3>1. req[s].users \in SUBSET (Accounts \X (Phones \cup {None})) BY <2>1 DEF Calls
      <3>2. \A a, p : <<a, p>> \in req[s].users => p # None BY <2>1 DEF Calls
      <3>3. username \in [Accounts -> Phones \cup {None}] BY DEF TablesOK
      <3>4. /\ username' \in [Accounts -> Phones \cup {None}]
            /\ \A a \in Accounts : username'[a] = username[a] \/ <<a, username'[a]>> \in req[s].users
        <4>1. /\ Committed(username, req[s].users) \in [Accounts -> Phones \cup {None}]
              /\ \A a \in Accounts :
                   IF Writes(req[s].users, a)
                   THEN <<a, Committed(username, req[s].users)[a]>> \in req[s].users
                   ELSE Committed(username, req[s].users)[a] = username[a]
          BY <3>1, <3>3, CommittedColumn, LeftAlone
        <4> QED BY <4>1, <2>3 DEF Edited
      <3>5. phone' \in [Accounts -> Numbers] BY <2>1, <2>3 DEF Edited, TablesOK, Calls
      <3>6. pinfl' \in [Accounts -> Pinfls \cup {None}]
        <4>1. /\ pinfl' \in Replaced(pinfl, req[s].account, req[s].pinfl)
              /\ req[s].pinfl \in Pinfls \cup {None} /\ pinfl \in [Accounts -> Pinfls \cup {None}]
          BY <2>1, <2>3 DEF Edited, TablesOK, Calls
        <4> HIDE DEF TypeInv
        <4> QED BY ONLY <2>1, <4>1, ReplacedColumn
      <3>7. gone' \in SUBSET Accounts /\ gone \subseteq gone' BY <2>3 DEF Edited, TablesOK
      <3>8. \A a \in Accounts : username[a] # None => username'[a] # None BY <3>2, <3>4
      <3> QED BY <3>4, <3>5, <3>6, <3>7, <3>8
    <2> QED BY <1>3, <2>2, <2>3 DEF UpdateRow
  <1>4. ASSUME NEW s \in Sessions, WriteProfile(s) PROVE Grown
    <2>1. /\ phone' \in Replaced(phone, req[s].account, req[s].phone)
          /\ req[s].account \in Accounts /\ req[s].phone \in Numbers
          /\ phone \in [Accounts -> Numbers] /\ None \in Numbers
      BY <1>4 DEF WriteProfile, Running, CallKept, Knows, TablesOK, Calls, Numbers
    <2>2. phone' \in [Accounts -> Numbers] BY ONLY <2>1, ReplacedColumn
    <2> QED BY <1>4, <2>2 DEF WriteProfile, TablesOK
  <1>5. ASSUME NEW a \in Accounts, AdminEdits(a) \/ ApproveDeletion(a) PROVE Grown
    <2>1. ASSUME NEW ph \in AsTyped \cup {None}, NEW x \in Pinfls \cup {None}, AdminUpdate(a, ph, x)
          PROVE  Grown
      <3>1. /\ phone' \in Replaced(phone, a, ph) /\ pinfl' \in Replaced(pinfl, a, x)
            /\ phone \in [Accounts -> Numbers] /\ pinfl \in [Accounts -> Pinfls \cup {None}]
            /\ None \in Numbers /\ ph \in Numbers
        BY <2>1 DEF AdminUpdate, TablesOK, Numbers
      <3>2. phone' \in [Accounts -> Numbers] BY ONLY <3>1, ReplacedColumn
      <3>3. pinfl' \in [Accounts -> Pinfls \cup {None}] BY ONLY <3>1, ReplacedColumn
      <3> QED BY <2>1, <3>2, <3>3 DEF AdminUpdate, TablesOK
    <2>2. CASE ApproveDeletion(a) BY <2>2 DEF ApproveDeletion, TablesOK
    <2> QED BY <1>5, <2>1, <2>2 DEF AdminEdits
  <1>6. ASSUME NEW s \in Sessions, CreatePilgrim(s) \/ InsertRegistered(s) \/ ImportPilgrim(s)
        PROVE  Grown
    <2>1. req[s].at = "row" /\ (UNCHANGED accountVars \/ CommitAccounts(s))
      BY <1>6 DEF CreatePilgrim, InsertRegistered, ImportPilgrim, Running, tables
    <2> QED BY <1>1, <1>2, <2>1
  <1> QED BY <1>1, <1>3, <1>4, <1>5, <1>6, StepsWrite DEF Frames

LEMMA CodesGrow ==
  ASSUME TypeInv, Next
  PROVE  otp' \in Seq(Codes) /\ Len(otp') <= MaxCodes /\ Len(otp) <= Len(otp')
  <1> USE AccountsAssumption DEF TypeInv, CallsKept
  <1> DEFINE Grown == otp' \in Seq(Codes) /\ Len(otp') <= MaxCodes /\ Len(otp) <= Len(otp')
  <1>1. CASE UNCHANGED otp BY <1>1 DEF TablesOK
  <1>2. ASSUME NEW k \in 1..Len(otp), NEW row \in Codes, otp' = [otp EXCEPT ![k] = row]
        PROVE  Grown
    BY <1>2, RowWritten DEF TablesOK
  <1>3. ASSUME NEW ph \in Phones, NEW status \in {"open", "PENDING"}, InsertCode(ph, status)
        PROVE  Grown
    <2>1. [phone |-> ph, status |-> status, age |-> 0, sent |-> FALSE, uses |-> 0] \in Codes
      BY <1>3 DEF Codes
    <2> HIDE DEF Codes
    <2> QED BY <1>3, <2>1 DEF InsertCode, TablesOK
  <1>4. \A k \in 1..Len(otp) : otp[k] \in Codes BY DEF TablesOK
  <1>5. CASE CodeAges
    <2>1. PICK k \in DOMAIN otp : otp[k].age < 2 /\ otp' = [otp EXCEPT ![k].age = @ + 1]
      BY <1>5 DEF CodeAges
    <2>2. k \in 1..Len(otp) BY <2>1 DEF TablesOK
    <2>3. [otp[k] EXCEPT !.age = @ + 1] \in Codes BY <2>1, <2>2, <1>4 DEF Codes
    <2> QED BY <1>2, <2>1, <2>2, <2>3
  <1>6. ASSUME NEW s \in Sessions, Deliver(s) PROVE Grown
    <2>1. req[s].code \in 1..Len(otp) BY <1>6 DEF Deliver, Running, CallKept, Knows
    <2>2. [otp[req[s].code] EXCEPT !.sent = TRUE] \in Codes BY <1>4, <2>1 DEF Codes
    <2> QED BY <1>1, <1>2, <1>6, <2>1, <2>2 DEF Deliver
  <1>7. ASSUME NEW s \in Sessions, req[s].code \in 1..Len(otp), otp' = Use(req[s].code)
        PROVE  Grown
    <2> DEFINE row == otp[req[s].code]
    <2>1. row \in Codes /\ row.uses + 1 \in Nat BY <1>4, <1>7 DEF Codes
    <2>2. [row EXCEPT !.status = "USED", !.uses = row.uses + 1] \in Codes
      BY <2>1 DEF Codes
    <2>3. otp' = [otp EXCEPT ![req[s].code] =
                    [row EXCEPT !.status = "USED", !.uses = row.uses + 1]]
      BY <1>4, <1>7 DEF Use, Codes, TablesOK
    <2> QED BY <1>2, <1>7, <2>2, <2>3
  <1>8. ASSUME NEW s \in Sessions, MarkVerified(s) PROVE Grown
    <2>1. req[s].code \in 1..Len(otp) BY <1>8 DEF MarkVerified, CallKept, Knows, Holds
    <2>2. [otp[req[s].code] EXCEPT !.status = "VERIFIED", !.uses = 0] \in Codes
      BY <1>4, <2>1 DEF Codes
    <2>3. otp' = [otp EXCEPT ![req[s].code] =
                    [otp[req[s].code] EXCEPT !.status = "VERIFIED", !.uses = 0]]
      BY <1>4, <1>8, <2>1 DEF MarkVerified, Codes, TablesOK
    <2> QED BY <1>2, <2>1, <2>2, <2>3
  <1>9. ASSUME NEW s \in Sessions, LogIn(s) \/ InsertRegistered(s) PROVE Grown
    <2>1. CASE UNCHANGED otp BY <2>1, <1>1
    <2>2. CASE otp' = Use(req[s].code)
      <3>1. Holds(req[s], req[s].code)
        BY <1>9 DEF LogIn, InsertRegistered, Running, Holds
      <3>2. req[s].code \in 1..Len(otp) BY <3>1 DEF CallKept, Knows
      <3> QED BY <1>7, <2>2, <3>2
    <2> QED BY <1>9, <2>1, <2>2 DEF LogIn, InsertRegistered, tables, signInVars
  <1>10. ASSUME NEW s \in Sessions, InsertTelegramSession(s) PROVE Grown
    <2>1. req[s].phone \in Phones
      BY <1>10 DEF InsertTelegramSession, Running, CallKept, Knows, Operations
    <2> QED BY <1>3, <1>10, <2>1 DEF InsertTelegramSession
  <1>11. ASSUME NEW s \in Sessions, NEW ph \in Phones, BeginSendOtp(s, ph) PROVE Grown
    BY <1>3, <1>11 DEF BeginSendOtp
  <1> QED BY <1>1, <1>5, <1>6, <1>8, <1>9, <1>10, <1>11, StepsWrite DEF Frames

LEMMA TokensGrow ==
  ASSUME TypeInv, Next
  PROVE  /\ tokens' \in Seq(TokenRows) /\ Len(tokens') <= MaxTokens
         /\ Len(tokens) <= Len(tokens')
         /\ \A i \in DOMAIN tokens : /\ i \in DOMAIN tokens'
                                     /\ tokens'[i].account = tokens[i].account
                                     /\ tokens'[i].second = tokens[i].second
                                     /\ tokens'[i].from = tokens[i].from
                                     /\ tokens[i].revoked => tokens'[i].revoked
  <1> USE AccountsAssumption DEF TypeInv, CallsKept
  <1> DEFINE Same(old, new) == /\ new.account = old.account /\ new.second = old.second
                               /\ new.from = old.from /\ (old.revoked => new.revoked)
             Grown == /\ tokens' \in Seq(TokenRows) /\ Len(tokens') <= MaxTokens
                      /\ Len(tokens) <= Len(tokens')
                      /\ \A i \in DOMAIN tokens : i \in DOMAIN tokens' /\ Same(tokens[i], tokens'[i])
  <1>1. /\ tokens \in Seq(TokenRows) /\ Len(tokens) <= MaxTokens /\ second \in 0..LastSecond
        /\ \A i \in 1..Len(tokens) : tokens[i] \in TokenRows
    BY DEF TablesOK
  <1>2. CASE UNCHANGED tokens BY <1>1, <1>2
  <1>3. ASSUME NEW i \in 1..Len(tokens)
        PROVE  /\ Revoke(i) \in Seq(TokenRows) /\ Len(Revoke(i)) = Len(tokens)
               /\ \A j \in DOMAIN tokens : Same(tokens[j], Revoke(i)[j])
    <2>1. [tokens[i] EXCEPT !.revoked = TRUE] \in TokenRows BY <1>1 DEF TokenRows
    <2>2. Revoke(i) = [tokens EXCEPT ![i] = [tokens[i] EXCEPT !.revoked = TRUE]] BY DEF Revoke
    <2>3. Revoke(i) \in Seq(TokenRows) /\ Len(Revoke(i)) = Len(tokens)
      BY <1>1, <2>1, <2>2, RowWritten
    <2>4. Same(tokens[i], [tokens[i] EXCEPT !.revoked = TRUE]) BY <1>1 DEF TokenRows
    <2>5. \A j \in DOMAIN tokens : Same(tokens[j], Revoke(i)[j]) BY <1>1, <2>2, <2>4
    <2> QED BY <2>3, <2>5
  <1>4. ASSUME NEW table \in Seq(TokenRows), Len(table) = Len(tokens), NEW a \in Accounts,
               NEW i \in 0..Len(tokens), Mint(table, a, i),
               \A j \in DOMAIN tokens : Same(tokens[j], table[j])
        PROVE  Grown
    <2> DEFINE row == [account |-> a, second |-> second, revoked |-> FALSE, from |-> i]
    <2>1. row \in TokenRows BY <1>1 DEF TokenRows
    <2>2. tokens' = Append(table, row) /\ Len(tokens) < MaxTokens BY <1>4 DEF Mint
    <2> HIDE DEF row
    <2>3. tokens' \in Seq(TokenRows) /\ Len(tokens') = Len(tokens) + 1 BY <1>4, <2>1, <2>2
    <2>4. \A j \in DOMAIN tokens : j \in DOMAIN tokens' /\ tokens'[j] = table[j]
      BY <1>1, <1>4, <2>1, <2>2, <2>3
    <2> QED BY <1>1, <1>4, <2>2, <2>3, <2>4
  <1>5. ASSUME NEW s \in Sessions, LogIn(s) \/ InsertRegistered(s) PROVE Grown
    <2>1. CASE UNCHANGED tokens BY <2>1, <1>2
    <2>2. CASE Mint(tokens, req[s].account, 0)
      <3>1. req[s].account \in Accounts
        BY <1>5 DEF LogIn, InsertRegistered, Running, CallKept, Knows, Calls
      <3> QED BY <1>1, <1>4, <2>2, <3>1
    <2> QED BY <1>5, <2>1, <2>2 DEF LogIn, InsertRegistered, tables, signInVars
  <1>6. ASSUME NEW s \in Sessions, req[s].at = "revoke" PROVE req[s].row \in 1..Len(tokens)
    BY <1>1, <1>6 DEF CallKept, KnowsToken, RowsIn
  <1>7. ASSUME NEW s \in Sessions, Rotate(s) PROVE Grown
    <2>1. req[s].row \in 1..Len(tokens) BY <1>6, <1>7 DEF Rotate, Running
    <2>2. tokens[req[s].row].account \in Accounts BY <1>1, <2>1 DEF TokenRows
    <2> DEFINE i == req[s].row
    <2>3. /\ Revoke(i) \in Seq(TokenRows) /\ Len(Revoke(i)) = Len(tokens)
          /\ \A j \in DOMAIN tokens : Same(tokens[j], Revoke(i)[j])
      BY <1>3, <2>1
    <2>4. Mint(Revoke(i), tokens[i].account, i) /\ i \in 0..Len(tokens)
      BY <1>7, <2>1 DEF Rotate
    <2> HIDE DEF Same, i
    <2> QED BY <1>4, <2>2, <2>3, <2>4 DEF i
  <1>8. ASSUME NEW s \in Sessions, CommitLogout(s) PROVE Grown
    <2>1. req[s].row \in 1..Len(tokens) BY <1>6, <1>8 DEF CommitLogout, Running
    <2> QED BY <1>1, <1>3, <1>8, <2>1 DEF CommitLogout
  <1> QED BY <1>2, <1>5, <1>7, <1>8, StepsWrite DEF Frames

LEMMA AppsTyped ==
  ASSUME TypeInv, Next
  PROVE  app' \in [Accounts -> Apps] /\ second' \in 0..LastSecond
  <1> USE AccountsAssumption DEF TypeInv, CallsKept
  <1>1. app \in [Accounts -> Apps] /\ second \in 0..LastSecond BY DEF TablesOK
  <1>2. second' \in 0..LastSecond
    <2>1. CASE UNCHANGED second BY <2>1, <1>1
    <2>2. CASE Tick BY <2>2, <1>1 DEF Tick
    <2> QED BY <2>1, <2>2, StepsWrite DEF Frames
  <1> SUFFICES app' \in [Accounts -> Apps] BY <1>2
  <1>3. CASE UNCHANGED app BY <1>1, <1>3
  <1>4. CASE Restart
    <2> DEFINE lost(a) == app[a].lost \/ \E s \in Sessions : req[s].at = "answer" /\ req[s].account = a
    <2>1. app' = [a \in Accounts |-> [app[a] EXCEPT !.lost = lost(a)]] BY <1>4 DEF Restart
    <2>2. \A a \in Accounts : lost(a) \in BOOLEAN OBVIOUS
    <2> HIDE DEF lost
    <2> QED BY <1>1, <2>1, <2>2 DEF Apps
  <1>5. ASSUME NEW s \in Sessions, Receive(s) PROVE app' \in [Accounts -> Apps]
    <2>1. req[s].token \in Tokens /\ req[s].account \in Accounts
      <3>1. req[s].token # None /\ req[s].at = "answer" BY <1>5 DEF Receive, CallKept, Knows
      <3>2. req[s].token \in Tokens \cup {None} BY DEF Calls
      <3>3. req[s].account \in Accounts BY <1>5, <3>1 DEF CallKept, Knows
      <3> QED BY <3>1, <3>2, <3>3
    <2>2. \/ app' = [app EXCEPT ![req[s].account] = [app[req[s].account] EXCEPT !.holds = req[s].token]]
          \/ app' = [app EXCEPT ![req[s].account] = [app[req[s].account] EXCEPT !.lost = TRUE]]
      BY <1>5 DEF Receive
    <2> HIDE DEF TypeInv, CallsKept
    <2>3. \A x \in Apps : \A token \in Tokens : /\ [x EXCEPT !.holds = token] \in Apps
                                                /\ [x EXCEPT !.lost = TRUE] \in Apps
      BY DEF Apps
    <2>4. app[req[s].account] \in Apps BY <1>1, <2>1
    <2> HIDE DEF Apps
    <2> QED BY <1>1, <2>1, <2>2, <2>3, <2>4
  <1>6. ASSUME NEW s \in Sessions, NEW a \in Accounts, BeginLogout(s, a)
        PROVE  app' \in [Accounts -> Apps]
    BY <1>1, <1>6 DEF BeginLogout, Apps
  <1> QED BY <1>2, <1>3, <1>4, <1>5, <1>6, StepsWrite DEF Frames

LEMMA FlowSet ==
  ASSUME TelegramTypeOK, NEW f \in Flows, NEW at \in {"pending", "over", "ticket"},
         NEW ph \in Phones \cup {None}, SetFlow(f, at, ph)
  PROVE  /\ telegram'.used = telegram.used
         /\ telegram' \in [used : SUBSET Flows, flow : [Flows -> FlowRows]]
         /\ \A g \in Flows \ {f} : Flow(g)' = Flow(g)
         /\ Flow(f)'.at = at /\ Flow(f)'.phone = ph /\ Flow(f)'.redeemed = Flow(f).redeemed
  <1> DEFINE row == [telegram.flow[f] EXCEPT !.at = at, !.phone = ph]
  <1>1. telegram' = [telegram EXCEPT !.flow = [telegram.flow EXCEPT ![f] = row]]
    BY DEF SetFlow, TelegramTypeOK, FlowRows
  <1>2. telegram.flow[f] \in FlowRows BY DEF TelegramTypeOK
  <1>3. /\ row \in FlowRows
        /\ row.at = at /\ row.phone = ph /\ row.redeemed = telegram.flow[f].redeemed
    BY <1>2 DEF FlowRows
  <1> HIDE DEF FlowRows, row
  <1> QED BY <1>1, <1>3 DEF TelegramTypeOK, Flow

LEMMA TicketRedeemed ==
  ASSUME TelegramTypeOK, NEW s \in Sessions, NEW f \in Flows, RedeemTicket(s, f)
  PROVE  /\ telegram'.used = Unexpired(telegram.used) \cup {f}
         /\ telegram' \in [used : SUBSET Flows, flow : [Flows -> FlowRows]]
         /\ \A g \in Flows \ {f} : Flow(g)' = Flow(g)
         /\ Flow(f)'.at = "ticket" /\ Flow(f)'.phone = Flow(f).phone
         /\ Flow(f)'.redeemed = Flow(f).redeemed + 1
  <1> DEFINE old == telegram.flow[f]
             row == [old EXCEPT !.redeemed = old.redeemed + 1]
  <1>1. telegram' = [telegram EXCEPT !.used = Unexpired(telegram.used) \cup {f},
                       !.flow = [telegram.flow EXCEPT ![f] = row]]
    BY DEF RedeemTicket, TelegramTypeOK, FlowRows
  <1>2. old \in FlowRows /\ old.at = "ticket" BY DEF TelegramTypeOK, RedeemTicket, Flow
  <1>3. /\ row \in FlowRows
        /\ row.at = "ticket" /\ row.phone = old.phone /\ row.redeemed = old.redeemed + 1
    BY <1>2 DEF FlowRows
  <1>4. Unexpired(telegram.used) \cup {f} \in SUBSET Flows BY DEF Unexpired, TelegramTypeOK
  <1> HIDE DEF FlowRows, row
  <1> QED BY <1>1, <1>3, <1>4 DEF TelegramTypeOK, Flow

LEMMA FlowsRestarted ==
  ASSUME TelegramTypeOK, Restart
  PROVE  /\ telegram' \in [used : SUBSET Flows, flow : [Flows -> FlowRows]]
         /\ \A f \in Flows :
              /\ Flow(f)'.redeemed = 0 /\ Flow(f)'.phone = Flow(f).phone
              /\ Flow(f)'.at = IF Flow(f).at = "pending" THEN "over" ELSE Flow(f).at
  <1> DEFINE at(f) == IF Flow(f).at = "pending" THEN "over" ELSE Flow(f).at
             row(f) == [Flow(f) EXCEPT !.redeemed = 0, !.at = at(f)]
  <1>1. \A f \in Flows : Flow(f) \in FlowRows BY DEF TelegramTypeOK, Flow
  <1>2. telegram' = [used |-> {}, flow |-> [f \in Flows |->
          [Flow(f) EXCEPT !.redeemed = 0, !.at = IF Flow(f).at = "pending" THEN "over" ELSE Flow(f).at]]]
    BY <1>1 DEF Restart, FlowRows
  <1>3. \A f \in Flows : /\ row(f) \in FlowRows
                         /\ row(f).redeemed = 0 /\ row(f).phone = Flow(f).phone /\ row(f).at = at(f)
    BY <1>1 DEF FlowRows
  <1>4. telegram' = [used |-> {}, flow |-> [f \in Flows |-> row(f)]] BY <1>2
  <1>5. telegram' \in [used : SUBSET Flows, flow : [Flows -> FlowRows]]
    <2> HIDE DEF row, FlowRows
    <2> QED BY <1>3, <1>4
  <1>6. \A f \in Flows : Flow(f)' = row(f)
    <2> HIDE DEF row
    <2> QED BY <1>4 DEF Flow
  <1> QED
    <2> HIDE DEF row
    <2> QED BY <1>3, <1>5, <1>6

LEMMA TelegramTyped == ASSUME TypeInv, Next PROVE TelegramTypeOK'
  <1> USE AccountsAssumption DEF TypeInv, CallsKept
  <1>1. CASE UNCHANGED telegram BY <1>1 DEF TelegramTypeOK, Flow
  <1>2. CASE Restart
    BY <1>2, FlowsRestarted DEF TelegramTypeOK
  <1>3. ASSUME NEW f \in Flows, NEW at \in {"pending", "over"}, NEW ph \in Phones \cup {None},
               SetFlow(f, at, ph)
        PROVE  TelegramTypeOK'
    BY <1>3, FlowSet DEF TelegramTypeOK
  <1>4. ASSUME NEW f \in Flows, NEW ph \in Phones, SetFlow(f, "ticket", ph) PROVE TelegramTypeOK'
    BY <1>4, FlowSet DEF TelegramTypeOK
  <1>5. ASSUME NEW s \in Sessions, Exchange(s) PROVE TelegramTypeOK'
    <2>1. req[s].flow \in Flows BY <1>5 DEF Exchange, Running, CallKept, Knows
    <2> QED BY <1>1, <1>4, <1>5, <2>1 DEF Exchange
  <1>6. ASSUME NEW s \in Sessions, NEW f \in Flows, HandleCallback(s, f) PROVE TelegramTypeOK'
    BY <1>3, <1>6 DEF HandleCallback
  <1>7. ASSUME NEW s \in Sessions, NEW f \in Flows, RedeemTicket(s, f) PROVE TelegramTypeOK'
    BY <1>7, TicketRedeemed DEF RedeemTicket, TelegramTypeOK
  <1>8. ASSUME NEW f \in Flows, FlowExpires(f) \/ BuildAuthUrl(f) PROVE TelegramTypeOK'
    <2>1. Flow(f).phone \in Phones \cup {None} BY DEF TelegramTypeOK, FlowRows, Flow
    <2> QED BY <1>3, <1>8, <2>1 DEF FlowExpires, BuildAuthUrl
  <1> QED BY <1>1, <1>2, <1>5, <1>6, <1>7, <1>8, StepsWrite DEF Frames

LEMMA TablesGrow == ASSUME TypeInv, Next PROVE TablesOK' /\ Grows
  BY AccountsGrow, CodesGrow, TokensGrow, AppsTyped DEF TablesOK, Grows

\* What a request holds stays true whatever the others do.
LEMMA CallStays ==
  ASSUME TablesOK, TablesOK', Grows, NEW c \in Calls, CallKept(c, Len(otp), tokens, username)
  PROVE  CallKept(c, Len(otp'), tokens', username')
  <1>1. Knows(c, Len(otp'), tokens', username')
    BY DEF Knows, Grows, Calls, TablesOK, CallKept
  <1>2. \A token : RowsIn(tokens, token) \subseteq RowsIn(tokens', token)
    BY DEF RowsIn, Grows
  <1>3. KnowsToken(c, tokens') BY <1>2 DEF KnowsToken, CallKept
  <1> QED BY <1>1, <1>3 DEF CallKept

Kept(c) == c \in Calls /\ CallKept(c, Len(otp), tokens, username)
KeptNext(c) == c \in Calls /\ CallKept(c, Len(otp'), tokens', username')

\* The request d is c at its next statement.
Moved(c, d, at) ==
  /\ d.at = at
  /\ d.op = c.op /\ d.phone = c.phone /\ d.pinfl = c.pinfl /\ d.account = c.account
  /\ d.code = c.code /\ d.token = c.token /\ d.row = c.row /\ d.flow = c.flow
  /\ d.was = c.was /\ d.rows = c.rows /\ d.items = c.items /\ d.taken = c.taken
  /\ d.users = c.users /\ d.pinfls = c.pinfls

LEMMA FieldSet ==
  ASSUME NEW c \in Calls
  PROVE  /\ \A op \in Operations : [c EXCEPT !.op = op] \in Calls
         /\ \A at \in Stages : [c EXCEPT !.at = at] \in Calls
         /\ \A ph \in Numbers : [c EXCEPT !.phone = ph] \in Calls
         /\ \A x \in Pinfls \cup {None} : [c EXCEPT !.pinfl = x] \in Calls
         /\ \A a \in Accounts \cup {None} : [c EXCEPT !.account = a] \in Calls
         /\ \A k \in Nat : [c EXCEPT !.code = k] \in Calls
         /\ \A token \in Tokens \cup {None} : [c EXCEPT !.token = token] \in Calls
         /\ \A i \in Nat : [c EXCEPT !.row = i] \in Calls
         /\ \A f \in Flows \cup {None} : [c EXCEPT !.flow = f] \in Calls
         /\ \A ph \in Numbers : [c EXCEPT !.was = ph] \in Calls
         /\ \A rows \in Files \cup {<<>>} : [c EXCEPT !.rows = rows] \in Calls
         /\ \A items \in Seq(ImportItems) : [c EXCEPT !.items = items] \in Calls
         /\ \A taken \in SUBSET (Phones \cup Pinfls) : [c EXCEPT !.taken = taken] \in Calls
         /\ \A users \in SUBSET (Accounts \X Phones) : [c EXCEPT !.users = users] \in Calls
         /\ \A pinfls \in SUBSET (Accounts \X Pinfls) : [c EXCEPT !.pinfls = pinfls] \in Calls
  <1>1. \A op \in Operations : [c EXCEPT !.op = op] \in Calls BY DEF Calls
  <1>2. \A at \in Stages : [c EXCEPT !.at = at] \in Calls BY DEF Calls
  <1>3. \A ph \in Numbers : [c EXCEPT !.phone = ph] \in Calls BY DEF Calls
  <1>4. \A x \in Pinfls \cup {None} : [c EXCEPT !.pinfl = x] \in Calls BY DEF Calls
  <1>5. \A a \in Accounts \cup {None} : [c EXCEPT !.account = a] \in Calls BY DEF Calls
  <1>6. \A k \in Nat : [c EXCEPT !.code = k] \in Calls BY DEF Calls
  <1>7. \A token \in Tokens \cup {None} : [c EXCEPT !.token = token] \in Calls BY DEF Calls
  <1>8. \A i \in Nat : [c EXCEPT !.row = i] \in Calls BY DEF Calls
  <1>9. \A f \in Flows \cup {None} : [c EXCEPT !.flow = f] \in Calls BY DEF Calls
  <1>10. \A ph \in Numbers : [c EXCEPT !.was = ph] \in Calls BY DEF Calls
  <1>11. \A rows \in Files \cup {<<>>} : [c EXCEPT !.rows = rows] \in Calls BY DEF Calls
  <1>12. \A items \in Seq(ImportItems) : [c EXCEPT !.items = items] \in Calls BY DEF Calls
  <1>13. \A taken \in SUBSET (Phones \cup Pinfls) : [c EXCEPT !.taken = taken] \in Calls
    BY DEF Calls
  <1>14. \A users \in SUBSET (Accounts \X Phones) : [c EXCEPT !.users = users] \in Calls
    BY DEF Calls
  <1>15. \A pinfls \in SUBSET (Accounts \X Pinfls) : [c EXCEPT !.pinfls = pinfls] \in Calls
    BY DEF Calls
  <1> QED BY <1>1, <1>2, <1>3, <1>4, <1>5, <1>6, <1>7, <1>8, <1>9, <1>10, <1>11, <1>12, <1>13,
             <1>14, <1>15

LEMMA MovedOn ==
  ASSUME NEW c \in Calls, NEW at \in Stages, NEW d, d = [c EXCEPT !.at = at]
  PROVE  d \in Calls /\ Moved(c, d, at)
  BY DEF Calls, Moved

LEMMA RequestSteps ==
  ASSUME req \in [Sessions -> Calls], NEW s \in Sessions
  PROVE  /\ \A c : Begin(s, c) => req[s] = NoCall /\ req'[s] = c
         /\ Reply(s) => req'[s] = NoCall
         /\ \A at \in Stages : GoTo(s, at) => req'[s] \in Calls /\ Moved(req[s], req'[s], at)
  <1>1. \A c : Begin(s, c) => req[s] = NoCall /\ req'[s] = c BY DEF Begin
  <1>2. Reply(s) => req'[s] = NoCall BY DEF Reply
  <1>3. ASSUME NEW at \in Stages, GoTo(s, at) PROVE req'[s] \in Calls /\ Moved(req[s], req'[s], at)
    <2>1. req'[s] = [req[s] EXCEPT !.at = at] /\ req[s] \in Calls BY <1>3 DEF GoTo
    <2> QED BY <2>1, MovedOn
  <1> QED BY <1>1, <1>2, <1>3

LEMMA NoCallKept == ASSUME AccountsAssumption PROVE Kept(NoCall)
  BY DEF Kept, NoCall, Calls, CallKept, Staged, Knows, KnowsToken, KnowsKeys, KnowsFile, Holds,
     Writing, Inserting, Operations, Stages, RowOf, Numbers

\* The requests that begin.
LEMMA Begun ==
  ASSUME AccountsAssumption, NEW op \in Operations, NEW at \in Stages
  PROVE  /\ \A ph \in Phones, k \in Nat :
              [NoCall EXCEPT !.op = op, !.at = at, !.phone = ph, !.code = k] \in Calls
         /\ \A ph \in Phones, x \in Pinfls \cup {None} :
              [NoCall EXCEPT !.op = op, !.at = at, !.phone = ph, !.pinfl = x] \in Calls
         /\ \A ph \in Phones, x \in Pinfls \cup {None} :
              [NoCall EXCEPT !.op = op, !.phone = ph, !.pinfl = x, !.at = at] \in Calls
         /\ \A f \in Flows : [NoCall EXCEPT !.op = op, !.at = at, !.flow = f] \in Calls
         /\ \A ph \in Phones, f \in Flows :
              [NoCall EXCEPT !.op = op, !.at = at, !.phone = ph, !.flow = f] \in Calls
         /\ \A a \in Accounts, token \in Tokens :
              [NoCall EXCEPT !.op = op, !.at = at, !.account = a, !.token = token] \in Calls
         /\ \A rows \in Files : [NoCall EXCEPT !.op = op, !.at = at, !.rows = rows] \in Calls
         /\ \A a \in Accounts, ph \in Phones \cup {None}, x \in Pinfls \cup {None} :
              [NoCall EXCEPT !.op = op, !.at = at, !.account = a, !.phone = ph, !.pinfl = x] \in Calls
         /\ \A a \in Accounts, ph \in Numbers :
              [NoCall EXCEPT !.op = op, !.at = at, !.account = a, !.phone = ph] \in Calls
         /\ \A a \in Accounts, token \in Tokens :
              [NoCall EXCEPT !.at = at, !.account = a, !.token = token] \in Calls
  <1>1. NoCall \in Calls BY NoCallKept DEF Kept
  <1>2. Phones \cup {None} \subseteq Numbers BY DEF Numbers
  <1> QED BY <1>1, <1>2, FieldSet

LEMMA StillKept ==
  ASSUME TypeInv, TablesOK', Grows
  PROVE  /\ \A c : Kept(c) => KeptNext(c)
         /\ KeptNext(NoCall)
         /\ req \in [Sessions -> Calls] /\ \A s \in Sessions : Kept(req[s])
  <1>1. \A c : Kept(c) => KeptNext(c) BY CallStays DEF Kept, KeptNext, TypeInv
  <1> QED BY <1>1, NoCallKept, AccountsAssumption DEF TypeInv, CallsKept, Kept

\* A statement that goes on or ends the request.
LEMMA Checked ==
  ASSUME TypeInv, TablesOK', Grows, NEW s \in Sessions, NEW op, NEW at, NEW next \in Stages,
         NEW test, Check(s, op, at, test, next)
  PROVE  /\ req[s].op = op /\ req[s].at = at
         /\ \/ KeptNext(req'[s])
            \/ req'[s] \in Calls /\ Moved(req[s], req'[s], next)
  BY StillKept, RequestSteps DEF Check, Running

LEMMA VerifyKept ==
  ASSUME TypeInv, NEW s \in Sessions, SendOtp(s) \/ VerifyOtp(s), TablesOK', Grows
  PROVE  KeptNext(req'[s])
  <1>1. /\ \A c : Kept(c) => KeptNext(c)
        /\ KeptNext(NoCall) /\ Kept(NoCall)
        /\ req \in [Sessions -> Calls] /\ Kept(req[s])
        /\ otp \in Seq(Codes)
    BY StillKept, NoCallKept, AccountsAssumption DEF TypeInv, TablesOK
  <1> DEFINE d == req'[s]
  <1>3. CASE Deliver(s) BY <1>1, <1>3, RequestSteps DEF Deliver
  <1>4. ASSUME NEW ph \in Phones, BeginSendOtp(s, ph) PROVE KeptNext(d)
    <2>1. d = [NoCall EXCEPT !.op = "sendOtp", !.at = "deliver", !.phone = ph, !.code = Len(otp) + 1]
      BY <1>1, <1>4, RequestSteps DEF BeginSendOtp
    <2>2. Len(otp) \in Nat /\ Len(otp') = Len(otp) + 1 /\ UNCHANGED <<tokens, username>>
      BY <1>1, <1>4 DEF BeginSendOtp, InsertCode, accountVars
    <2>3. d \in Calls
      <3>1. "sendOtp" \in Operations /\ "deliver" \in Stages /\ Len(otp) + 1 \in Nat
        BY <2>2 DEF Operations, Stages
      <3>2. [NoCall EXCEPT !.op = "sendOtp", !.at = "deliver", !.phone = ph, !.code = Len(otp) + 1] \in Calls
        BY <3>1, Begun, AccountsAssumption
      <3> QED BY <2>1, <3>2
    <2>4. CallKept(d, Len(otp'), tokens', username')
      BY <2>1, <2>2 DEF NoCall, CallKept, Staged, Knows, KnowsToken, KnowsKeys, KnowsFile, Holds,
         Writing, Inserting
    <2> QED BY <2>3, <2>4 DEF KeptNext
  <1>5. CASE BeginVerify(s)
    <2>1. PICK k \in DOMAIN otp : Begin(s, [NoCall EXCEPT !.op = "verify", !.at = "session",
                                                          !.phone = otp[k].phone, !.code = k])
      BY <1>5 DEF BeginVerify
    <2>2. d = [NoCall EXCEPT !.op = "verify", !.at = "session", !.phone = otp[k].phone, !.code = k]
      BY <1>1, <2>1, RequestSteps
    <2>3. k \in 1..Len(otp) /\ otp[k] \in Codes BY <1>1, <2>1
    <2>4. otp[k].phone \in Phones BY <2>3 DEF Codes
    <2>5. d \in Calls
      <3>1. "verify" \in Operations /\ "session" \in Stages /\ k \in Nat
        BY <2>3 DEF Operations, Stages
      <3>2. [NoCall EXCEPT !.op = "verify", !.at = "session", !.phone = otp[k].phone, !.code = k] \in Calls
        BY <2>4, <3>1, Begun, AccountsAssumption
      <3> QED BY <2>2, <3>2
    <2>6. CallKept(d, Len(otp), tokens, username)
      BY <1>1, <2>2, <2>3, <2>4 DEF NoCall, Kept, CallKept, Staged, Knows, KnowsToken, KnowsKeys,
         KnowsFile, Holds, Writing, Inserting
    <2> QED BY <1>1, <2>5, <2>6 DEF Kept
  <1>6. CASE ReadSession(s)
    <2>1. /\ req[s].op = "verify" /\ req[s].at = "session"
          /\ KeptNext(d) \/ (d \in Calls /\ Moved(req[s], d, "user"))
      <3>1. "user" \in Stages BY DEF Stages
      <3> QED BY <1>6, <3>1, Checked DEF ReadSession
    <2>2. ASSUME d \in Calls, Moved(req[s], d, "user") PROVE Kept(d)
      BY <1>1, <2>1, <2>2 DEF Kept, Moved, CallKept, Staged, Knows, KnowsToken, KnowsKeys,
         KnowsFile, Holds, Writing, Inserting, Operations
    <2> QED BY <1>1, <2>1, <2>2
  <1> QED BY <1>3, <1>4, <1>5, <1>6 DEF SendOtp, VerifyOtp

\* A request whose transaction minted a token.
LEMMA Answered ==
  ASSUME TypeInv, TablesOK', Grows, NEW s \in Sessions, NEW a \in Accounts,
         NEW table \in Seq(TokenRows), NEW i \in 0..MaxTokens, Mint(table, a, i), Answering(s, a)
  PROVE  KeptNext(req'[s])
  <1> DEFINE row == [account |-> a, second |-> second, revoked |-> FALSE, from |-> i]
             token == <<a, second>>
  <1>1. row \in TokenRows /\ token \in Tokens /\ row.account = a /\ row.second = second
    BY DEF TypeInv, TablesOK, TokenRows, Tokens
  <1>2. tokens' = Append(table, row) BY DEF Mint
  <1>3. Len(table) + 1 \in RowsIn(tokens', token)
    <2>1. tokens' \in Seq(TokenRows) /\ Len(tokens') = Len(table) + 1 /\ tokens'[Len(table) + 1] = row
      <3> HIDE DEF row, TokenRows
      <3> QED BY <1>1, <1>2
    <2> QED BY <1>1, <2>1 DEF RowsIn
  <1>4. token[1] = a /\ token # None /\ token \in Tokens
    <2> HIDE DEF token
    <2>1. None \notin Tokens BY AccountsAssumption DEF Tokens
    <2> QED BY <1>1, <2>1 DEF token
  <1>5. req'[s] = [NoCall EXCEPT !.at = "answer", !.account = a, !.token = token]
    BY DEF Answering, TypeInv, CallsKept
  <1>6. req'[s] \in Calls
    <2>1. "answer" \in Stages BY DEF Stages
    <2>2. "idle" \in Operations BY DEF Operations
    <2>3. [NoCall EXCEPT !.at = "answer", !.account = a, !.token = token] \in Calls
      BY <1>1, <2>1, <2>2, Begun, AccountsAssumption
    <2> QED BY <1>5, <2>3
  <1> HIDE DEF token
  <1>7. KnowsToken(req'[s], tokens') BY <1>3, <1>4, <1>5 DEF KnowsToken, NoCall
  <1>8. Staged(req'[s]) /\ KnowsKeys(req'[s]) /\ KnowsFile(req'[s])
    BY <1>5 DEF Staged, KnowsKeys, KnowsFile, NoCall, Writing, Inserting
  <1>9. Knows(req'[s], Len(otp'), tokens', username')
    <2>1. Len(otp') \in Nat /\ Len(tokens') \in Nat BY DEF TablesOK
    <2> QED BY <1>4, <1>5, <2>1 DEF Knows, NoCall, Holds, Writing, Operations
  <1> QED BY <1>6, <1>7, <1>8, <1>9 DEF KeptNext, CallKept

LEMMA PhoneLoginKept ==
  ASSUME TypeInv, NEW s \in Sessions, CompletePhoneLogin(s), TablesOK', Grows
  PROVE  KeptNext(req'[s])
  <1>1. /\ \A c : Kept(c) => KeptNext(c)
        /\ KeptNext(NoCall) /\ Kept(req[s])
        /\ req \in [Sessions -> Calls] /\ req[s] \in Calls
        /\ tokens \in Seq(TokenRows)
    BY StillKept DEF TypeInv, TablesOK
  <1> DEFINE c == req[s]
             d == req'[s]
  <1>2. "pilgrim" \in Stages /\ "login" \in Stages BY DEF Stages
  <1>3. CASE ReadUser(s)
    <2>1. CASE GoTo(s, "login")
      <3>1. d \in Calls /\ Moved(c, d, "login") BY <1>1, <1>2, <2>1, RequestSteps
      <3>2. Kept(d)
        BY <1>1, <1>3, <3>1 DEF ReadUser, Kept, Moved, CallKept, Staged, Knows, KnowsToken, KnowsKeys,
           KnowsFile, Holds, Writing, Inserting, Operations
      <3> QED BY <1>1, <3>2
    <2>2. ASSUME NEW a \in Accounts, req' = [req EXCEPT ![s].at = "pilgrim", ![s].account = a]
          PROVE  KeptNext(d)
      <3>1. d = [[c EXCEPT !.at = "pilgrim"] EXCEPT !.account = a] BY <1>1, <2>2 DEF Calls
      <3>2. [c EXCEPT !.at = "pilgrim"] \in Calls BY <1>1, <1>2, FieldSet
      <3>3. d \in Calls BY <3>1, <3>2, FieldSet
      <3>4. /\ d.at = "pilgrim" /\ d.account = a
            /\ d.op = c.op /\ d.phone = c.phone /\ d.pinfl = c.pinfl
            /\ d.code = c.code /\ d.token = c.token /\ d.row = c.row /\ d.flow = c.flow
            /\ d.was = c.was /\ d.rows = c.rows /\ d.items = c.items /\ d.taken = c.taken
            /\ d.users = c.users /\ d.pinfls = c.pinfls
        BY <1>1, <3>1 DEF Calls
      <3>5. c.token = None
        BY <1>1, <1>3 DEF ReadUser, Kept, CallKept, Knows, Staged, Operations, Calls
      <3>6. Kept(d)
        BY <1>1, <1>3, <3>3, <3>4, <3>5 DEF ReadUser, Kept, CallKept, Staged, Knows, KnowsToken,
           KnowsKeys, KnowsFile, Holds, Writing, Inserting, Operations
      <3> QED BY <1>1, <3>6
    <2> QED BY <1>3, <2>1, <2>2 DEF ReadUser
  <1>4. CASE ReadPilgrim(s)
    <2> DEFINE a == IF c.account \in gone THEN None ELSE c.account
    <2>1. d = [[c EXCEPT !.at = "login"] EXCEPT !.account = a]
      BY <1>1, <1>4 DEF ReadPilgrim, Calls
    <2>2. a \in Accounts \cup {None} BY <1>1 DEF Calls
    <2> HIDE DEF a
    <2>3. [c EXCEPT !.at = "login"] \in Calls BY <1>1, <1>2, FieldSet
    <2>4. d \in Calls BY <2>1, <2>2, <2>3, FieldSet
    <2>5. /\ d.at = "login" /\ d.account = a
          /\ d.op = c.op /\ d.phone = c.phone /\ d.pinfl = c.pinfl
          /\ d.code = c.code /\ d.token = c.token /\ d.row = c.row /\ d.flow = c.flow
          /\ d.was = c.was /\ d.rows = c.rows /\ d.items = c.items /\ d.taken = c.taken
          /\ d.users = c.users /\ d.pinfls = c.pinfls
      BY <1>1, <2>1 DEF Calls
    <2>6. c.token = None /\ c.op \in {"verify", "telegram"}
      BY <1>1, <1>4 DEF ReadPilgrim, Kept, CallKept, Knows, Staged, Operations, Calls
    <2>7. Kept(d)
      BY <1>1, <1>4, <2>4, <2>5, <2>6 DEF ReadPilgrim, Kept, CallKept, Staged, Knows, KnowsToken,
         KnowsKeys, KnowsFile, Holds, Writing, Inserting, Operations
    <2> QED BY <1>1, <2>7
  <1>5. CASE LogIn(s)
    <2>1. c.account \in Accounts BY <1>1, <1>5 DEF LogIn, Calls
    <2>2. Mint(tokens, c.account, 0) /\ Answering(s, c.account) BY <1>5 DEF LogIn
    <2>3. 0 \in 0..MaxTokens BY AccountsAssumption
    <2> HIDE DEF c, d
    <2> QED BY <1>1, <2>1, <2>2, <2>3, Answered DEF d
  <1>6. CASE MarkVerified(s) BY <1>1, <1>6, RequestSteps DEF MarkVerified
  <1> QED BY <1>3, <1>4, <1>5, <1>6 DEF CompletePhoneLogin

\* A users row that is inserted or moved.
LEMMA UsernameKept ==
  ASSUME TypeInv, TablesOK', Grows, NEW s \in Sessions, NEW a \in Accounts, WriteUsername(s, a),
         req[s].at = "username", req[s].op = "update" => a = req[s].account
  PROVE  KeptNext(req'[s])
  <1>1. /\ \A c : Kept(c) => KeptNext(c)
        /\ KeptNext(NoCall) /\ Kept(req[s])
        /\ req \in [Sessions -> Calls] /\ req[s] \in Calls
    BY StillKept DEF TypeInv
  <1> DEFINE c == req[s]
             d == req'[s]
             users == c.users \cup {<<a, c.phone>>}
  <1>2. CASE Reply(s) BY <1>1, <1>2, RequestSteps
  <1>3. CASE req' = [req EXCEPT ![s].at = "row", ![s].account = a, ![s].users = @ \cup {<<a, req[s].phone>>}]
    <2>1. c.phone \in Phones /\ c.token = None /\ c.op \in {"register", "create", "import", "update"}
      <3>1. c.op \in {"register", "create", "import", "update"} /\ c.at = "username" /\ Writing(c)
        BY <1>1 DEF Kept, CallKept, Staged, Calls, Operations, Writing
      <3> QED BY <1>1, <3>1 DEF Kept, CallKept, Knows, Operations
    <2>2. d = [[[c EXCEPT !.at = "row"] EXCEPT !.account = a] EXCEPT !.users = users]
      BY <1>1, <1>3 DEF Calls
    <2>3. users \in SUBSET (Accounts \X Phones) BY <1>1, <2>1 DEF Calls
    <2>4. \A u \in users : u \in c.users \/ u = <<a, c.phone>> OBVIOUS
    <2>5. <<a, c.phone>> \in users /\ (c.users = {} => users = {<<a, c.phone>>}) OBVIOUS
    <2> HIDE DEF users
    <2>6. d \in Calls
      <3>1. "row" \in Stages BY DEF Stages
      <3>2. [[c EXCEPT !.at = "row"] EXCEPT !.account = a] \in Calls BY <1>1, <3>1, FieldSet
      <3> QED BY <2>2, <2>3, <3>2, FieldSet
    <2>7. /\ d.at = "row" /\ d.account = a /\ d.users = users
          /\ d.op = c.op /\ d.phone = c.phone /\ d.pinfl = c.pinfl
          /\ d.code = c.code /\ d.token = c.token /\ d.row = c.row /\ d.flow = c.flow
          /\ d.was = c.was /\ d.rows = c.rows /\ d.items = c.items /\ d.taken = c.taken
          /\ d.pinfls = c.pinfls
      BY <1>1, <2>2 DEF Calls
    <2>8. Staged(d) /\ KnowsToken(d, tokens)
      BY <1>1, <2>1, <2>7 DEF Kept, CallKept, Staged, KnowsToken
    <2>9. Knows(d, Len(otp), tokens, username)
      BY <1>1, <2>1, <2>7 DEF Kept, CallKept, Knows, Holds, Writing, Operations
    <2>10. KnowsKeys(d)
      BY <1>1, <2>1, <2>5, <2>7 DEF Kept, CallKept, KnowsKeys, Writing, Inserting
    <2>11. KnowsFile(d)
      <3>1. RowOf(d) = RowOf(c) BY <2>7 DEF RowOf
      <3>2. Writing(d) /\ Writing(c) BY <2>7 DEF Writing
      <3> QED BY <1>1, <2>4, <2>7, <3>1, <3>2 DEF Kept, CallKept, KnowsFile
    <2> QED BY <1>1, <2>6, <2>8, <2>9, <2>10, <2>11 DEF Kept, CallKept
  <1> QED BY <1>2, <1>3 DEF WriteUsername

LEMMA RegisterKept ==
  ASSUME TypeInv, NEW s \in Sessions, Register(s), TablesOK', Grows
  PROVE  KeptNext(req'[s])
  <1>1. /\ \A c : Kept(c) => KeptNext(c)
        /\ KeptNext(NoCall) /\ Kept(NoCall) /\ Kept(req[s])
        /\ req \in [Sessions -> Calls] /\ req[s] \in Calls
        /\ tokens \in Seq(TokenRows) /\ otp \in Seq(Codes)
    BY StillKept, NoCallKept, AccountsAssumption DEF TypeInv, TablesOK
  <1> DEFINE c == req[s]
             d == req'[s]
  <1>2. "taken" \in Stages /\ "pinfl" \in Stages /\ "username" \in Stages BY DEF Stages
  <1>3. ASSUME NEW ph \in Phones, NEW x \in Pinfls \cup {None}, BeginRegister(s, ph, x)
        PROVE  KeptNext(d)
    <2>1. d = [NoCall EXCEPT !.op = "register", !.at = "proof", !.phone = ph, !.pinfl = x]
      BY <1>1, <1>3, RequestSteps DEF BeginRegister
    <2>2. d \in Calls
      <3>1. "register" \in Operations /\ "proof" \in Stages BY DEF Operations, Stages
      <3>2. [NoCall EXCEPT !.op = "register", !.at = "proof", !.phone = ph, !.pinfl = x] \in Calls
        BY <3>1, Begun, AccountsAssumption
      <3> QED BY <2>1, <3>2
    <2>3. CallKept(d, Len(otp), tokens, username)
      BY <1>1, <2>1 DEF NoCall, Kept, CallKept, Staged, Knows, KnowsToken, KnowsKeys, KnowsFile,
         Holds, Writing, Inserting
    <2> QED BY <1>1, <2>2, <2>3 DEF Kept
  <1>4. ASSUME NEW k \in NewestOf(Proofs(c.phone)), Running(s, "register", "proof"),
               req' = [req EXCEPT ![s].at = "taken", ![s].code = k]
        PROVE  KeptNext(d)
    <2>1. k \in 1..Len(otp) /\ k \in Nat BY <1>1 DEF NewestOf, Proofs, CodesOf
    <2>2. d = [[c EXCEPT !.at = "taken"] EXCEPT !.code = k] BY <1>1, <1>4 DEF Calls
    <2>3. [c EXCEPT !.at = "taken"] \in Calls BY <1>1, <1>2, FieldSet
    <2>4. d \in Calls BY <2>1, <2>2, <2>3, FieldSet
    <2>5. /\ d.at = "taken" /\ d.code = k
          /\ d.op = c.op /\ d.phone = c.phone /\ d.pinfl = c.pinfl /\ d.account = c.account
          /\ d.token = c.token /\ d.row = c.row /\ d.flow = c.flow
          /\ d.was = c.was /\ d.rows = c.rows /\ d.items = c.items /\ d.taken = c.taken
          /\ d.users = c.users /\ d.pinfls = c.pinfls
      BY <1>1, <2>2 DEF Calls
    <2>6. Kept(d)
      BY <1>1, <1>4, <2>1, <2>4, <2>5 DEF Running, Kept, CallKept, Staged, Knows, KnowsToken,
         KnowsKeys, KnowsFile, Holds, Writing, Inserting, Operations
    <2> QED BY <1>1, <2>6
  <1>5. CASE FindProof(s)
    <2>1. CASE Reply(s) BY <1>1, <2>1, RequestSteps
    <2> QED BY <1>4, <1>5, <2>1 DEF FindProof
  <1>6. CASE FindRegistered(s)
    <2>1. /\ c.op = "register" /\ c.at = "taken"
          /\ KeptNext(d) \/ (d \in Calls /\ Moved(c, d, "pinfl"))
      BY <1>2, <1>6, Checked DEF FindRegistered
    <2>2. ASSUME d \in Calls, Moved(c, d, "pinfl") PROVE Kept(d)
      BY <1>1, <2>1, <2>2 DEF Kept, Moved, CallKept, Staged, Knows, KnowsToken, KnowsKeys,
         KnowsFile, Holds, Writing, Inserting, Operations
    <2> QED BY <1>1, <2>1, <2>2
  <1>7. CASE FindPinfl(s)
    <2>1. /\ c.op = "register" /\ c.at = "pinfl"
          /\ KeptNext(d) \/ (d \in Calls /\ Moved(c, d, "username"))
      BY <1>2, <1>7, Checked DEF FindPinfl
    <2>2. ASSUME d \in Calls, Moved(c, d, "username") PROVE Kept(d)
      BY <1>1, <2>1, <2>2 DEF Kept, Moved, CallKept, Staged, Knows, KnowsToken, KnowsKeys,
         KnowsFile, Holds, Writing, Inserting, Operations
    <2> QED BY <1>1, <2>1, <2>2
  <1>8. ASSUME NEW a \in Accounts, InsertUser(s, a) PROVE KeptNext(d)
    <2>1. WriteUsername(s, a) /\ c.at = "username" /\ c.op = "register"
      BY <1>8 DEF InsertUser, Running
    <2> QED BY <2>1, UsernameKept
  <1>9. CASE InsertRegistered(s)
    <2>1. CASE Reply(s) BY <1>1, <2>1, RequestSteps
    <2>2. CASE Mint(tokens, c.account, 0) /\ Answering(s, c.account)
      <3>1. c.account \in Accounts
        BY <1>1, <1>9 DEF InsertRegistered, Running, Kept, CallKept, Knows
      <3>2. 0 \in 0..MaxTokens BY AccountsAssumption
      <3> HIDE DEF c, d
      <3> QED BY <1>1, <2>2, <3>1, <3>2, Answered DEF d
    <2> QED BY <1>9, <2>1, <2>2 DEF InsertRegistered
  <1> QED BY <1>3, <1>5, <1>6, <1>7, <1>8, <1>9 DEF Register

LEMMA TelegramKept ==
  ASSUME TypeInv, NEW s \in Sessions, LoginWithTelegram(s), TablesOK', Grows
  PROVE  KeptNext(req'[s])
  <1>1. /\ \A c : Kept(c) => KeptNext(c)
        /\ KeptNext(NoCall) /\ Kept(NoCall) /\ Kept(req[s])
        /\ req \in [Sessions -> Calls] /\ req[s] \in Calls
        /\ otp \in Seq(Codes)
    BY StillKept, NoCallKept, AccountsAssumption DEF TypeInv, TablesOK
  <1> DEFINE c == req[s]
             d == req'[s]
  <1>2. CASE Exchange(s) BY <1>1, <1>2, RequestSteps DEF Exchange
  <1>3. ASSUME NEW f \in Flows, HandleCallback(s, f) PROVE KeptNext(d)
    <2>1. d = [NoCall EXCEPT !.op = "callback", !.at = "exchange", !.flow = f]
      BY <1>1, <1>3, RequestSteps DEF HandleCallback
    <2>2. d \in Calls
      <3>1. "callback" \in Operations /\ "exchange" \in Stages BY DEF Operations, Stages
      <3>2. [NoCall EXCEPT !.op = "callback", !.at = "exchange", !.flow = f] \in Calls
        BY <3>1, Begun, AccountsAssumption
      <3> QED BY <2>1, <3>2
    <2>3. CallKept(d, Len(otp), tokens, username)
      BY <1>1, <2>1 DEF NoCall, Kept, CallKept, Staged, Knows, KnowsToken, KnowsKeys, KnowsFile,
         Holds, Writing, Inserting
    <2> QED BY <1>1, <2>2, <2>3 DEF Kept
  <1>4. ASSUME NEW f \in Flows, RedeemTicket(s, f) PROVE KeptNext(d)
    <2>1. d = [NoCall EXCEPT !.op = "telegram", !.at = "insert", !.phone = Flow(f).phone, !.flow = f]
      BY <1>1, <1>4, RequestSteps DEF RedeemTicket
    <2>2. Flow(f).phone \in Phones BY <1>4 DEF RedeemTicket, TypeInv, TelegramTypeOK
    <2>3. d \in Calls
      <3>1. "telegram" \in Operations /\ "insert" \in Stages BY DEF Operations, Stages
      <3>2. [NoCall EXCEPT !.op = "telegram", !.at = "insert", !.phone = Flow(f).phone, !.flow = f] \in Calls
        BY <2>2, <3>1, Begun, AccountsAssumption
      <3> QED BY <2>1, <3>2
    <2>4. CallKept(d, Len(otp), tokens, username)
      BY <1>1, <2>1, <2>2 DEF NoCall, Kept, CallKept, Staged, Knows, KnowsToken, KnowsKeys, KnowsFile,
         Holds, Writing, Inserting
    <2> QED BY <1>1, <2>3, <2>4 DEF Kept
  <1>5. CASE InsertTelegramSession(s)
    <2>1. d = [[c EXCEPT !.at = "user"] EXCEPT !.code = Len(otp) + 1]
      BY <1>1, <1>5 DEF InsertTelegramSession, Calls
    <2>2. Len(otp) + 1 \in Nat /\ Len(otp') = Len(otp) + 1 /\ UNCHANGED <<tokens, username>>
      BY <1>1, <1>5 DEF InsertTelegramSession, InsertCode, accountVars
    <2>3. "user" \in Stages BY DEF Stages
    <2>4. [c EXCEPT !.at = "user"] \in Calls BY <1>1, <2>3, FieldSet
    <2>5. d \in Calls BY <2>1, <2>2, <2>4, FieldSet
    <2>6. /\ d.at = "user" /\ d.code = Len(otp) + 1
          /\ d.op = c.op /\ d.phone = c.phone /\ d.pinfl = c.pinfl /\ d.account = c.account
          /\ d.token = c.token /\ d.row = c.row /\ d.flow = c.flow
          /\ d.was = c.was /\ d.rows = c.rows /\ d.items = c.items /\ d.taken = c.taken
          /\ d.users = c.users /\ d.pinfls = c.pinfls
      BY <1>1, <2>1 DEF Calls
    <2>7. CallKept(d, Len(otp'), tokens', username')
      BY <1>1, <1>5, <2>2, <2>6 DEF InsertTelegramSession, Running, Kept, CallKept, Staged, Knows,
         KnowsToken, KnowsKeys, KnowsFile, Holds, Writing, Inserting, Operations
    <2> QED BY <2>5, <2>7 DEF KeptNext
  <1> QED BY <1>2, <1>3, <1>4, <1>5 DEF LoginWithTelegram

\* A request that presents the token an app holds.
LEMMA TokenPresented ==
  ASSUME TypeInv, AppsInv, TablesOK', Grows, NEW s \in Sessions, NEW op \in {"refresh", "logout"},
         NEW a \in Accounts, app[a].holds # None,
         Begin(s, [NoCall EXCEPT !.op = op, !.at = "find", !.account = a, !.token = app[a].holds])
  PROVE  KeptNext(req'[s])
  <1>1. /\ \A c : Kept(c) => KeptNext(c)
        /\ Kept(NoCall)
        /\ req \in [Sessions -> Calls]
        /\ tokens \in Seq(TokenRows) /\ otp \in Seq(Codes)
    BY StillKept, NoCallKept, AccountsAssumption DEF TypeInv, TablesOK
  <1> DEFINE d == req'[s]
  <1>2. d = [NoCall EXCEPT !.op = op, !.at = "find", !.account = a, !.token = app[a].holds]
    BY <1>1, RequestSteps
  <1>3. app[a].holds \in Tokens
    <2>1. app[a] \in Apps BY DEF TypeInv, TablesOK
    <2> QED BY <2>1 DEF Apps
  <1>4. app[a].holds[1] = a /\ RowsIn(tokens, app[a].holds) # {}
    BY DEF AppsInv, RowsOf, TokenOf, RowsIn
  <1>5. d \in Calls
    <2>1. op \in Operations /\ "find" \in Stages BY DEF Operations, Stages
    <2>2. [NoCall EXCEPT !.op = op, !.at = "find", !.account = a, !.token = app[a].holds] \in Calls
      BY <1>3, <2>1, Begun, AccountsAssumption
    <2> QED BY <1>2, <2>2
  <1>6. /\ d.op = op /\ d.at = "find" /\ d.account = a /\ d.token = app[a].holds
        /\ d.phone = None /\ d.pinfl = None /\ d.code = 0 /\ d.row = 0 /\ d.flow = None
        /\ d.users = {} /\ d.pinfls = {} /\ d.rows = <<>>
    BY <1>2 DEF NoCall
  <1>7. CallKept(d, Len(otp), tokens, username)
    BY <1>1, <1>4, <1>6 DEF CallKept, Staged, Knows, KnowsToken, KnowsKeys, KnowsFile, Holds,
       Writing, Inserting
  <1> QED BY <1>1, <1>5, <1>7 DEF Kept

LEMMA TokensKept ==
  ASSUME TypeInv, AppsInv, NEW s \in Sessions, RefreshToken(s) \/ Logout(s), TablesOK', Grows
  PROVE  KeptNext(req'[s])
  <1>1. /\ \A c : Kept(c) => KeptNext(c)
        /\ KeptNext(NoCall) /\ Kept(req[s])
        /\ req \in [Sessions -> Calls] /\ req[s] \in Calls
        /\ tokens \in Seq(TokenRows) /\ Len(tokens) <= MaxTokens
    BY StillKept DEF TypeInv, TablesOK
  <1> DEFINE c == req[s]
             d == req'[s]
  <1>2. CASE RefuseToken(s) \/ Receive(s) \/ CommitLogout(s)
    BY <1>1, <1>2, RequestSteps DEF RefuseToken, Receive, CommitLogout
  <1>3. ASSUME NEW a \in Accounts, BeginRefresh(s, a) \/ BeginLogout(s, a) PROVE KeptNext(d)
    BY <1>3, TokenPresented DEF BeginRefresh, BeginLogout
  <1>4. ASSUME NEW i \in DOMAIN tokens, FindToken(s, i) PROVE KeptNext(d)
    <2>1. d = [[c EXCEPT !.at = "revoke"] EXCEPT !.row = i] BY <1>1, <1>4 DEF FindToken, Calls
    <2>2. i \in RowsIn(tokens, c.token) /\ c.op \in {"refresh", "logout"} /\ c.at = "find"
      BY <1>4 DEF FindToken, Running, RowsOf, TokenOf, RowsIn
    <2>3. "revoke" \in Stages /\ i \in 1..Len(tokens) /\ i \in Nat BY <1>1 DEF Stages
    <2>4. [c EXCEPT !.at = "revoke"] \in Calls BY <1>1, <2>3, FieldSet
    <2>5. d \in Calls BY <2>1, <2>3, <2>4, FieldSet
    <2>6. /\ d.at = "revoke" /\ d.row = i
          /\ d.op = c.op /\ d.phone = c.phone /\ d.pinfl = c.pinfl /\ d.account = c.account
          /\ d.token = c.token /\ d.code = c.code /\ d.flow = c.flow
          /\ d.was = c.was /\ d.rows = c.rows /\ d.items = c.items /\ d.taken = c.taken
          /\ d.users = c.users /\ d.pinfls = c.pinfls
      BY <1>1, <2>1 DEF Calls
    <2>7. Kept(d)
      BY <1>1, <2>2, <2>3, <2>5, <2>6 DEF Kept, CallKept, Staged, Knows, KnowsToken, KnowsKeys,
         KnowsFile, Holds, Writing, Inserting, Operations
    <2> QED BY <1>1, <2>7
  <1>5. CASE Rotate(s)
    <2> DEFINE i == c.row
               a == tokens[i].account
    <2>1. i \in 1..Len(tokens) /\ tokens[i] \in TokenRows
      BY <1>1, <1>5 DEF Rotate, Running, Kept, CallKept, KnowsToken, RowsIn
    <2>2. a \in Accounts /\ i \in 0..MaxTokens BY <1>1, <2>1, AccountsAssumption DEF TokenRows
    <2>3. Revoke(i) \in Seq(TokenRows)
      <3>1. [tokens[i] EXCEPT !.revoked = TRUE] \in TokenRows BY <2>1 DEF TokenRows
      <3>2. Revoke(i) = [tokens EXCEPT ![i] = [tokens[i] EXCEPT !.revoked = TRUE]] BY DEF Revoke
      <3> QED BY <1>1, <2>1, <3>1, <3>2, RowWritten
    <2>4. Mint(Revoke(i), a, i) /\ Answering(s, a) BY <1>5 DEF Rotate
    <2> HIDE DEF c, d, i, a
    <2> QED BY <2>2, <2>3, <2>4, Answered DEF d
  <1> QED BY <1>2, <1>3, <1>4, <1>5 DEF RefreshToken, Logout

LEMMA CreateKept ==
  ASSUME TypeInv, NEW s \in Sessions, Create(s), TablesOK', Grows
  PROVE  KeptNext(req'[s])
  <1>1. /\ \A c : Kept(c) => KeptNext(c)
        /\ KeptNext(NoCall) /\ Kept(NoCall) /\ Kept(req[s])
        /\ req \in [Sessions -> Calls] /\ req[s] \in Calls
    BY StillKept, NoCallKept, AccountsAssumption DEF TypeInv, TablesOK
  <1> DEFINE c == req[s]
             d == req'[s]
  <1>2. "taken" \in Stages /\ "pinfl" \in Stages /\ "username" \in Stages /\ "create" \in Operations
    BY DEF Stages, Operations
  <1>3. ASSUME NEW ph \in Phones, NEW x \in Pinfls \cup {None},
               BeginCreate(s, ph, x) \/ BeginAdminCreate(s, ph, x)
        PROVE  KeptNext(d)
    <2>1. PICK at \in {"taken", "username"} :
            d = [NoCall EXCEPT !.op = "create", !.phone = ph, !.pinfl = x, !.at = at]
      BY <1>1, <1>3, RequestSteps DEF BeginCreate, BeginAdminCreate
    <2>2. d \in Calls
      <3>1. [NoCall EXCEPT !.op = "create", !.phone = ph, !.pinfl = x, !.at = at] \in Calls
        BY <1>2, Begun, AccountsAssumption
      <3> QED BY <2>1, <3>1
    <2>3. CallKept(d, Len(otp), tokens, username)
      BY <1>1, <2>1 DEF NoCall, Kept, CallKept, Staged, Knows, KnowsToken, KnowsKeys, KnowsFile,
         Holds, Writing, Inserting
    <2> QED BY <1>1, <2>2, <2>3 DEF Kept
  <1>4. CASE FindUsed(s)
    <2>1. /\ c.op = "create" /\ c.at = "taken"
          /\ KeptNext(d) \/ (d \in Calls /\ Moved(c, d, "pinfl"))
      BY <1>2, <1>4, Checked DEF FindUsed
    <2>2. ASSUME d \in Calls, Moved(c, d, "pinfl") PROVE Kept(d)
      BY <1>1, <2>1, <2>2 DEF Kept, Moved, CallKept, Staged, Knows, KnowsToken, KnowsKeys,
         KnowsFile, Holds, Writing, Inserting, Operations
    <2> QED BY <1>1, <2>1, <2>2
  <1>5. CASE FindUsedPinfl(s)
    <2>1. /\ c.op = "create" /\ c.at = "pinfl"
          /\ KeptNext(d) \/ (d \in Calls /\ Moved(c, d, "username"))
      BY <1>2, <1>5, Checked DEF FindUsedPinfl
    <2>2. ASSUME d \in Calls, Moved(c, d, "username") PROVE Kept(d)
      BY <1>1, <2>1, <2>2 DEF Kept, Moved, CallKept, Staged, Knows, KnowsToken, KnowsKeys,
         KnowsFile, Holds, Writing, Inserting, Operations
    <2> QED BY <1>1, <2>1, <2>2
  <1>6. ASSUME NEW a \in Accounts, CreateUser(s, a) PROVE KeptNext(d)
    <2>1. WriteUsername(s, a) /\ c.at = "username" /\ c.op # "update" BY <1>6 DEF CreateUser
    <2> QED BY <2>1, UsernameKept
  <1>7. CASE CreatePilgrim(s) BY <1>1, <1>7, RequestSteps DEF CreatePilgrim
  <1> QED BY <1>3, <1>4, <1>5, <1>6, <1>7 DEF Create

LEMMA UpdateKept ==
  ASSUME TypeInv, NEW s \in Sessions, Update(s), TablesOK', Grows
  PROVE  KeptNext(req'[s])
  <1>1. /\ \A c : Kept(c) => KeptNext(c)
        /\ KeptNext(NoCall) /\ Kept(NoCall) /\ Kept(req[s])
        /\ req \in [Sessions -> Calls] /\ req[s] \in Calls
        /\ phone \in [Accounts -> Numbers]
    BY StillKept, NoCallKept, AccountsAssumption DEF TypeInv, TablesOK
  <1> DEFINE c == req[s]
             d == req'[s]
  <1>2. "row" \in Stages /\ "taken" \in Stages /\ "username" \in Stages BY DEF Stages
  <1>3. ASSUME NEW a \in Accounts, NEW ph \in Phones \cup {None}, NEW x \in Pinfls \cup {None},
               BeginUpdate(s, a, ph, x)
        PROVE  KeptNext(d)
    <2>1. d = [NoCall EXCEPT !.op = "update", !.at = "read", !.account = a, !.phone = ph, !.pinfl = x]
      BY <1>1, <1>3, RequestSteps DEF BeginUpdate
    <2>2. d \in Calls
      <3>1. "update" \in Operations /\ "read" \in Stages BY DEF Operations, Stages
      <3>2. [NoCall EXCEPT !.op = "update", !.at = "read", !.account = a, !.phone = ph, !.pinfl = x] \in Calls
        BY <3>1, Begun, AccountsAssumption
      <3> QED BY <2>1, <3>2
    <2>3. CallKept(d, Len(otp), tokens, username)
      BY <1>1, <1>3, <2>1 DEF BeginUpdate, NoCall, Kept, CallKept, Staged, Knows, KnowsToken,
         KnowsKeys, KnowsFile, Holds, Writing, Inserting
    <2> QED BY <1>1, <2>2, <2>3 DEF Kept
  <1>4. CASE ReadOwn(s)
    <2>1. CASE Reply(s) BY <1>1, <2>1, RequestSteps
    <2>2. ASSUME NEW at \in {"row", "taken"},
                 IF at = "row" THEN c.phone \in {None, phone[c.account]} ELSE c.phone # None,
                 req' = [req EXCEPT ![s].was = phone[c.account], ![s].at = at]
          PROVE  KeptNext(d)
      <3>1. c.op = "update" /\ c.at = "read" BY <1>4 DEF ReadOwn, Running
      <3>2. phone[c.account] \in Numbers
        BY <1>1, <3>1 DEF Kept, CallKept, Knows
      <3>3. d = [[c EXCEPT !.was = phone[c.account]] EXCEPT !.at = at] BY <1>1, <2>2 DEF Calls
      <3>4. [c EXCEPT !.was = phone[c.account]] \in Calls BY <1>1, <3>2, FieldSet
      <3>5. d \in Calls
        <4>1. at \in Stages BY <1>2, <2>2
        <4> QED BY <3>3, <3>4, <4>1, FieldSet
      <3>6. /\ d.at = at /\ d.was = phone[c.account]
            /\ d.op = c.op /\ d.phone = c.phone /\ d.pinfl = c.pinfl /\ d.account = c.account
            /\ d.code = c.code /\ d.token = c.token /\ d.row = c.row /\ d.flow = c.flow
            /\ d.rows = c.rows /\ d.items = c.items /\ d.taken = c.taken
            /\ d.users = c.users /\ d.pinfls = c.pinfls
        BY <1>1, <3>3 DEF Calls
      <3>7. CallKept(c, Len(otp), tokens, username) BY <1>1 DEF Kept
      <3>8. Staged(d) /\ KnowsToken(d, tokens) /\ KnowsFile(d)
        BY <2>2, <3>1, <3>6, <3>7 DEF CallKept, Staged, KnowsToken, KnowsFile, Writing
      <3>9. Knows(d, Len(otp), tokens, username)
        <4>1. Knows(c, Len(otp), tokens, username) BY <3>7 DEF CallKept
        <4>2. d.op = "update" /\ (d.at = "row" \/ d.at = "taken") BY <2>2, <3>1, <3>6
        <4>3. d.phone \in Phones \/ (d.phone = None /\ d.at = "row")
          BY <2>2, <3>1, <3>6, <4>1 DEF Knows
        <4>4. /\ d.code <= Len(otp) /\ d.row <= Len(tokens) /\ d.account \in Accounts
              /\ username[d.account] # None /\ d.token = None
          BY <3>1, <3>6, <4>1 DEF Knows
        <4> QED BY <4>2, <4>3, <4>4 DEF Knows, Holds, Writing
      <3>10. KnowsKeys(d)
        BY <2>2, <3>1, <3>6, <3>7 DEF CallKept, KnowsKeys, Writing, Inserting
      <3>11. Kept(d) BY <3>5, <3>8, <3>9, <3>10 DEF Kept, CallKept
      <3> QED BY <1>1, <3>11
    <2> DEFINE next == IF c.phone \in {None, phone[c.account]} THEN "row" ELSE "taken"
    <2>3. /\ next \in {"row", "taken"}
          /\ IF next = "row" THEN c.phone \in {None, phone[c.account]} ELSE c.phone # None
      OBVIOUS
    <2>4. \/ Reply(s)
          \/ req' = [req EXCEPT ![s].was = phone[c.account], ![s].at = next]
      BY <1>4 DEF ReadOwn
    <2> HIDE DEF next
    <2> QED BY <2>1, <2>2, <2>3, <2>4
  <1>5. CASE FindOther(s)
    <2>1. /\ c.op = "update" /\ c.at = "taken"
          /\ KeptNext(d) \/ (d \in Calls /\ Moved(c, d, "username"))
      BY <1>2, <1>5, Checked DEF FindOther
    <2>2. ASSUME d \in Calls, Moved(c, d, "username") PROVE Kept(d)
      BY <1>1, <2>1, <2>2 DEF Kept, Moved, CallKept, Staged, Knows, KnowsToken, KnowsKeys,
         KnowsFile, Holds, Writing, Inserting, Operations
    <2> QED BY <1>1, <2>1, <2>2
  <1>6. CASE MoveLogin(s)
    <2>1. WriteUsername(s, c.account) /\ c.at = "username" /\ c.op = "update"
      BY <1>6 DEF MoveLogin, Running
    <2>2. c.account \in Accounts BY <1>1, <2>1 DEF Kept, CallKept, Knows
    <2> QED BY <2>1, <2>2, UsernameKept
  <1>7. CASE UpdateRow(s) BY <1>1, <1>7, RequestSteps DEF UpdateRow
  <1> QED BY <1>3, <1>4, <1>5, <1>6, <1>7 DEF Update

LEMMA ProfileKept ==
  ASSUME TypeInv, NEW s \in Sessions, UpdateProfile(s) \/ AbortVictim(s), TablesOK', Grows
  PROVE  KeptNext(req'[s])
  <1>1. /\ \A c : Kept(c) => KeptNext(c)
        /\ KeptNext(NoCall) /\ Kept(NoCall) /\ Kept(req[s])
        /\ req \in [Sessions -> Calls] /\ req[s] \in Calls
    BY StillKept, NoCallKept, AccountsAssumption DEF TypeInv
  <1> DEFINE c == req[s]
             d == req'[s]
  <1>2. ASSUME NEW a \in Accounts, NEW ph \in Numbers, BeginProfile(s, a, ph) PROVE KeptNext(d)
    <2>1. d = [NoCall EXCEPT !.op = "profile", !.at = "find", !.account = a, !.phone = ph]
      BY <1>1, <1>2, RequestSteps DEF BeginProfile
    <2>2. d \in Calls
      <3>1. "profile" \in Operations /\ "find" \in Stages BY DEF Operations, Stages
      <3>2. [NoCall EXCEPT !.op = "profile", !.at = "find", !.account = a, !.phone = ph] \in Calls
        BY <3>1, Begun, AccountsAssumption
      <3> QED BY <2>1, <3>2
    <2>3. CallKept(d, Len(otp), tokens, username)
      BY <1>1, <1>2, <2>1 DEF BeginProfile, NoCall, Kept, CallKept, Staged, Knows, KnowsToken,
         KnowsKeys, KnowsFile, Holds, Writing, Inserting
    <2> QED BY <1>1, <2>2, <2>3 DEF Kept
  <1>3. CASE FindPhone(s)
    <2>1. /\ c.op = "profile" /\ c.at = "find"
          /\ KeptNext(d) \/ (d \in Calls /\ Moved(c, d, "write"))
      <3>1. "write" \in Stages BY DEF Stages
      <3> QED BY <1>3, <3>1, Checked DEF FindPhone
    <2>2. ASSUME d \in Calls, Moved(c, d, "write") PROVE Kept(d)
      BY <1>1, <2>1, <2>2 DEF Kept, Moved, CallKept, Staged, Knows, KnowsToken, KnowsKeys,
         KnowsFile, Holds, Writing, Inserting, Operations
    <2> QED BY <1>1, <2>1, <2>2
  <1>4. CASE WriteProfile(s) \/ AbortVictim(s)
    BY <1>1, <1>4, RequestSteps DEF WriteProfile, AbortVictim
  <1> QED BY <1>2, <1>3, <1>4 DEF UpdateProfile, Numbers

\* What is inserted for a file, and what its rows hold once it is accepted.
LEMMA ItemsOf ==
  ASSUME NEW rows \in Files
  PROVE  /\ rows # <<>> /\ Len(rows) \in Nat \ {0} /\ DOMAIN rows = 1..Len(rows)
         /\ Import!Items(rows) \in Seq(ImportItems) /\ Len(Import!Items(rows)) = Len(rows)
         /\ \A i \in 1..Len(rows) : /\ Import!Items(rows)[i].phone = rows[i].phone
                                    /\ Import!Items(rows)[i].pinfl = rows[i].pinfl
  <1> DEFINE S == {rows[i] : i \in DOMAIN rows}
  <1>1. rows # <<>> /\ rows \in Seq(S) BY RecordsAssumption
  <1> HIDE DEF S
  <1>2. Len(rows) \in Nat \ {0} /\ DOMAIN rows = 1..Len(rows) BY <1>1
  <1>3. \A i \in 1..Len(rows) : Import!Items(rows)[i] \in ImportItems BY <1>2 DEF ImportItems
  <1>4. /\ \A i \in 1..Len(rows) : /\ Import!Items(rows)[i].phone = rows[i].phone
                                   /\ Import!Items(rows)[i].pinfl = rows[i].pinfl
        /\ DOMAIN Import!Items(rows) = 1..Len(rows)
        /\ Import!Items(rows) = [i \in 1..Len(rows) |-> Import!Items(rows)[i]]
    BY <1>2 DEF Import!Items
  <1> DEFINE items == Import!Items(rows)
  <1>5. items \in Seq(ImportItems) /\ Len(items) = Len(rows)
    <2>1. items = [i \in 1..Len(rows) |-> items[i]] /\ \A i \in 1..Len(rows) : items[i] \in ImportItems
      BY <1>3, <1>4
    <2> HIDE DEF items
    <2>2. items \in [1..Len(rows) -> ImportItems] BY <2>1
    <2> QED BY <1>2, <2>2
  <1> QED BY <1>1, <1>2, <1>4, <1>5

LEMMA FileAccepted ==
  ASSUME NEW rows \in Files, NEW taken, Import!FileOk(rows, taken)
  PROVE  \A i \in 1..Len(rows) : rows[i].phone \in Phones /\ rows[i].pinfl \in Pinfls \cup {None}
  BY ItemsOf DEF Import!FileOk, Import!RowOk, Import!PhoneOk, Import!PinflOk

\* An import at its next row.
LEMMA Loaded ==
  ASSUME NEW c \in Calls, NEW items \in Seq(ImportItems), items # <<>>,
         items[1].phone \in Phones, items[1].pinfl \in Pinfls \cup {None},
         NEW d, d = Load(c, items)
  PROVE  /\ d \in Calls
         /\ d.at = "username" /\ d.items = Tail(items) /\ d.account = None
         /\ d.phone = items[1].phone /\ d.pinfl = items[1].pinfl
         /\ d.op = c.op /\ d.code = c.code /\ d.token = c.token /\ d.row = c.row /\ d.flow = c.flow
         /\ d.was = c.was /\ d.rows = c.rows /\ d.taken = c.taken
         /\ d.users = c.users /\ d.pinfls = c.pinfls
  <1> DEFINE rest == Tail(items)
             ph == items[1].phone
             x == items[1].pinfl
  <1>1. rest \in Seq(ImportItems) /\ ph \in Phones \cup {None} /\ x \in Pinfls \cup {None} OBVIOUS
  <1>2. d = [c EXCEPT !.at = "username", !.items = rest, !.account = None, !.phone = ph, !.pinfl = x]
    BY DEF Load
  <1> HIDE DEF rest, ph, x
  <1>3. "username" \in Stages BY DEF Stages
  <1>4. d \in Calls
    <2>1. [c EXCEPT !.at = "username"] \in Calls BY <1>3, FieldSet
    <2>2. [c EXCEPT !.at = "username", !.items = rest] \in Calls BY <1>1, <2>1, FieldSet
    <2>3. [c EXCEPT !.at = "username", !.items = rest, !.account = None] \in Calls BY <2>2, FieldSet
    <2>4. [c EXCEPT !.at = "username", !.items = rest, !.account = None, !.phone = ph] \in Calls
      BY <1>1, <2>3, FieldSet DEF Numbers
    <2>5. [c EXCEPT !.at = "username", !.items = rest, !.account = None, !.phone = ph, !.pinfl = x] \in Calls
      BY <1>1, <2>4, FieldSet
    <2> QED BY <1>2, <2>5
  <1> QED BY <1>2, <1>4 DEF Calls, rest, ph, x

LEMMA ImportKept ==
  ASSUME TypeInv, NEW s \in Sessions, ImportFromExcel(s), TablesOK', Grows
  PROVE  KeptNext(req'[s])
  <1>1. /\ \A c : Kept(c) => KeptNext(c)
        /\ KeptNext(NoCall) /\ Kept(NoCall) /\ Kept(req[s])
        /\ req \in [Sessions -> Calls] /\ req[s] \in Calls
        /\ Len(otp) \in Nat /\ Len(tokens) \in Nat
    BY StillKept, NoCallKept, AccountsAssumption DEF TypeInv, TablesOK
  <1> DEFINE c == req[s]
             d == req'[s]
  <1>2. ASSUME NEW rows \in Files, BeginImport(s, rows) PROVE KeptNext(d)
    <2>1. d = [NoCall EXCEPT !.op = "import", !.at = "phones", !.rows = rows]
      BY <1>1, <1>2, RequestSteps DEF BeginImport
    <2>2. d \in Calls
      <3>1. "import" \in Operations /\ "phones" \in Stages BY DEF Operations, Stages
      <3>2. [NoCall EXCEPT !.op = "import", !.at = "phones", !.rows = rows] \in Calls
        BY <3>1, Begun, AccountsAssumption
      <3> QED BY <2>1, <3>2
    <2>3. CallKept(d, Len(otp), tokens, username)
      BY <1>1, <2>1 DEF NoCall, Kept, CallKept, Staged, Knows, KnowsToken, KnowsKeys, KnowsFile,
         Holds, Writing, Inserting
    <2> QED BY <1>1, <2>2, <2>3 DEF Kept
  <1>3. CASE ReadTakenPhones(s)
    <2> DEFINE taken == {ph \in Phones : PhoneTaken(ph)}
    <2>1. taken \subseteq Phones /\ taken \in SUBSET (Phones \cup Pinfls) OBVIOUS
    <2>2. d = [[c EXCEPT !.at = "pinfls"] EXCEPT !.taken = taken]
      BY <1>1, <1>3 DEF ReadTakenPhones, Calls
    <2> HIDE DEF taken
    <2>3. "pinfls" \in Stages BY DEF Stages
    <2>4. [c EXCEPT !.at = "pinfls"] \in Calls BY <1>1, <2>3, FieldSet
    <2>5. d \in Calls BY <2>1, <2>2, <2>4, FieldSet
    <2>6. /\ d.at = "pinfls" /\ d.taken = taken
          /\ d.op = c.op /\ d.phone = c.phone /\ d.pinfl = c.pinfl /\ d.account = c.account
          /\ d.code = c.code /\ d.token = c.token /\ d.row = c.row /\ d.flow = c.flow
          /\ d.was = c.was /\ d.rows = c.rows /\ d.items = c.items
          /\ d.users = c.users /\ d.pinfls = c.pinfls
      BY <1>1, <2>2 DEF Calls
    <2>7. Kept(d)
      BY <1>1, <1>3, <2>1, <2>5, <2>6 DEF ReadTakenPhones, Running, Kept, CallKept, Staged, Knows,
         KnowsToken, KnowsKeys, KnowsFile, Holds, Writing, Inserting, Operations
    <2> QED BY <1>1, <2>7
  <1>4. CASE ReadTakenPinfls(s)
    <2> DEFINE rows == c.rows
               taken == c.taken \cup {x \in Pinfls : PinflTaken(x)}
               items == Import!Items(rows)
               read == [c EXCEPT !.taken = taken]
    <2>1. CASE Reply(s) BY <1>1, <2>1, RequestSteps
    <2>2. CASE Import!FileOk(rows, taken) /\ req' = [req EXCEPT ![s] = Load(read, items)]
      <3>1. c.op = "import" /\ c.at = "pinfls" BY <1>4 DEF ReadTakenPinfls, Running
      <3>2. rows \in Files /\ taken \in SUBSET (Phones \cup Pinfls)
        BY <1>1, <3>1 DEF Kept, CallKept, KnowsFile, Writing
      <3>3. /\ items \in Seq(ImportItems) /\ Len(items) = Len(rows) /\ Len(rows) \in Nat \ {0}
            /\ \A i \in 1..Len(rows) : items[i].phone = rows[i].phone /\ items[i].pinfl = rows[i].pinfl
        BY <3>2, ItemsOf
      <3>4. \A i \in 1..Len(rows) : rows[i].phone \in Phones /\ rows[i].pinfl \in Pinfls \cup {None}
        BY <2>2, <3>2, FileAccepted
      <3>5. Import!FileOk(rows, taken) /\ d = Load(read, items) BY <1>1, <2>2
      <3> HIDE DEF taken, items
      <3>6. /\ read \in Calls
            /\ read.taken = taken /\ read.op = c.op /\ read.at = c.at /\ read.code = c.code
            /\ read.token = c.token /\ read.row = c.row /\ read.flow = c.flow
            /\ read.was = c.was /\ read.rows = rows /\ read.users = c.users /\ read.pinfls = c.pinfls
        BY <1>1, <3>2 DEF Calls
      <3> HIDE DEF read, rows, d
      <3>7. /\ d \in Calls
            /\ d.at = "username" /\ d.items = Tail(items) /\ d.account = None
            /\ d.phone = rows[1].phone /\ d.pinfl = rows[1].pinfl
            /\ d.op = c.op /\ d.code = c.code /\ d.token = c.token /\ d.row = c.row /\ d.flow = c.flow
            /\ d.was = c.was /\ d.rows = rows /\ d.taken = taken
            /\ d.users = c.users /\ d.pinfls = c.pinfls
        <4>1. items # <<>> /\ items[1].phone = rows[1].phone /\ items[1].pinfl = rows[1].pinfl
              /\ items[1].phone \in Phones /\ items[1].pinfl \in Pinfls \cup {None}
          BY <3>3, <3>4
        <4> QED BY <3>3, <3>5, <3>6, <4>1, Loaded
      <3>8. /\ RowOf(d) = 1
            /\ \A k \in 1..Len(d.items) : d.items[k] = Import!Items(d.rows)[RowOf(d) + k]
        <4>1. Len(Tail(items)) = Len(rows) - 1 /\ \A k \in 1..Len(Tail(items)) : Tail(items)[k] = items[1 + k]
          BY <3>3
        <4> QED BY <3>3, <3>7, <4>1 DEF RowOf, items
      <3>9. c.users = {} /\ c.pinfls = {} /\ c.token = None
        BY <1>1, <3>1 DEF Kept, CallKept, KnowsKeys, Knows, Writing
      <3>10. KnowsFile(d)
        BY <3>1, <3>2, <3>3, <3>5, <3>7, <3>8, <3>9 DEF KnowsFile, Writing
      <3>11. rows[1].phone \in Phones BY <3>3, <3>4
      <3>12. Staged(d) /\ Knows(d, Len(otp), tokens, username) /\ KnowsToken(d, tokens) /\ KnowsKeys(d)
        BY <1>1, <3>1, <3>7, <3>9, <3>11 DEF Kept, CallKept, Staged, Knows, KnowsToken, KnowsKeys,
           Holds, Writing, Inserting, Operations
      <3> QED BY <1>1, <3>7, <3>10, <3>12 DEF Kept, CallKept, d
    <2> QED BY <1>4, <2>1, <2>2 DEF ReadTakenPinfls
  <1>5. CASE ImportPilgrim(s)
    <2> DEFINE rows == c.rows
               r == RowOf(c)
               pinfls == c.pinfls \cup PinflKeys(s)
               read == [c EXCEPT !.pinfls = pinfls]
               items == c.items
    <2>1. CASE Reply(s) BY <1>1, <2>1, RequestSteps
    <2>2. CASE items # <<>> /\ req' = [req EXCEPT ![s] = Load(read, items)]
      <3>1. c.op = "import" /\ c.at = "row" /\ Writing(c) BY <1>5 DEF ImportPilgrim, Running, Writing
      <3>2. /\ rows \in Files /\ Import!FileOk(rows, c.taken)
            /\ r \in 1..Len(rows) /\ items \in Seq(ImportItems)
            /\ \A k \in 1..Len(items) : items[k] = Import!Items(rows)[r + k]
            /\ c.phone = rows[r].phone /\ c.pinfl = rows[r].pinfl
            /\ c.account \in Accounts /\ c.token = None
            /\ \A u \in c.users : \/ \E j \in 1..(r - 1) : u[2] = rows[j].phone
                                  \/ u = <<c.account, c.phone>>
            /\ \A w \in c.pinfls : \E j \in 1..(r - 1) : w[2] = rows[j].pinfl
        BY <1>1, <3>1 DEF Kept, CallKept, KnowsFile, Knows, Calls
      <3>3. /\ Len(rows) \in Nat \ {0}
            /\ \A i \in 1..Len(rows) : /\ Import!Items(rows)[i].phone = rows[i].phone
                                       /\ Import!Items(rows)[i].pinfl = rows[i].pinfl
        BY <3>2, ItemsOf
      <3>4. \A i \in 1..Len(rows) : rows[i].phone \in Phones /\ rows[i].pinfl \in Pinfls \cup {None}
        BY <3>2, FileAccepted
      <3>5. pinfls \in SUBSET (Accounts \X Pinfls) /\ \A w \in pinfls : w \in c.pinfls \/ w[2] = c.pinfl
        BY <1>1, <3>2 DEF PinflKeys, Calls
      <3>6. d = Load(read, items) BY <1>1, <2>2
      <3>7. Len(items) \in Nat \ {0} /\ r = Len(rows) - Len(items) BY <2>2, <3>2 DEF RowOf
      <3> HIDE DEF pinfls, r
      <3>8. /\ read \in Calls
            /\ read.pinfls = pinfls /\ read.op = c.op /\ read.at = c.at /\ read.code = c.code
            /\ read.token = c.token /\ read.row = c.row /\ read.flow = c.flow
            /\ read.was = c.was /\ read.rows = rows /\ read.users = c.users /\ read.taken = c.taken
        <4>1. pinfls \in SUBSET (Accounts \X Pinfls) BY <3>5
        <4>2. read \in Calls BY <1>1, <4>1, FieldSet
        <4> QED BY <1>1, <4>2 DEF Calls
      <3> HIDE DEF read, rows, d, items
      <3>9. r + 1 \in 1..Len(rows) /\ items[1] = Import!Items(rows)[r + 1]
        <4>1. r \in 1..Len(rows) /\ Len(rows) \in Nat BY <3>2, <3>3
        <4>2. r + 1 \in 1..Len(rows) /\ 1 \in 1..Len(items) BY <3>7, <4>1
        <4> QED BY <3>2, <4>2
      <3>10. /\ d \in Calls
             /\ d.at = "username" /\ d.items = Tail(items) /\ d.account = None
             /\ d.phone = rows[r + 1].phone /\ d.pinfl = rows[r + 1].pinfl
             /\ d.op = c.op /\ d.code = c.code /\ d.token = c.token /\ d.row = c.row /\ d.flow = c.flow
             /\ d.was = c.was /\ d.rows = rows /\ d.taken = c.taken
             /\ d.users = c.users /\ d.pinfls = pinfls
        <4>1. /\ items[1].phone = rows[r + 1].phone /\ items[1].pinfl = rows[r + 1].pinfl
              /\ items[1].phone \in Phones /\ items[1].pinfl \in Pinfls \cup {None}
          BY <3>3, <3>4, <3>9
        <4>2. items \in Seq(ImportItems) /\ items # <<>> BY <2>2, <3>2
        <4> QED BY <3>6, <3>8, <4>1, <4>2, Loaded
      <3>11. /\ RowOf(d) = r + 1
             /\ \A k \in 1..Len(d.items) : d.items[k] = Import!Items(d.rows)[RowOf(d) + k]
        <4>1. /\ Len(Tail(items)) = Len(items) - 1
              /\ \A k \in 1..Len(Tail(items)) : Tail(items)[k] = items[k + 1]
          <5>1. items \in Seq(ImportItems) BY <3>2
          <5> QED BY <2>2, <5>1
        <4>2. RowOf(d) = r + 1
          <5>1. Len(d.rows) = Len(rows) /\ Len(d.items) = Len(items) - 1 BY <3>10, <4>1
          <5> QED BY <3>3, <3>7, <5>1 DEF RowOf
        <4>3. ASSUME NEW k \in 1..Len(d.items)
              PROVE  d.items[k] = Import!Items(d.rows)[RowOf(d) + k]
          <5>1. d.items[k] = items[k + 1] /\ k + 1 \in 1..Len(items) BY <3>7, <3>10, <4>1, <4>3
          <5>2. items[k + 1] = Import!Items(rows)[r + (k + 1)] BY <3>2, <5>1
          <5>3. r + (k + 1) = RowOf(d) + k BY <3>2, <3>3, <3>7, <4>2, <4>3
          <5> QED BY <3>10, <5>1, <5>2, <5>3
        <4> QED BY <4>2, <4>3
      <3>12. KnowsFile(d)
        <4>1. \A u \in c.users : \E j \in 1..r : u[2] = rows[j].phone BY <3>2, <3>3
        <4>2. \A w \in pinfls : \E j \in 1..r : w[2] = rows[j].pinfl
          <5>1. r \in 1..r /\ 1..(r - 1) \subseteq 1..r /\ c.pinfl = rows[r].pinfl BY <3>2, <3>3
          <5>2. \A w \in c.pinfls : \E j \in 1..(r - 1) : w[2] = rows[j].pinfl BY <3>2
          <5>3. \A w \in pinfls : w \in c.pinfls \/ w[2] = c.pinfl BY <3>5
          <5> QED BY <5>1, <5>2, <5>3
        <4>3. RowOf(d) - 1 = r BY <3>2, <3>3, <3>11
        <4> QED BY <3>1, <3>2, <3>9, <3>10, <3>11, <4>1, <4>2, <4>3 DEF KnowsFile, Writing
      <3>13. rows[r + 1].phone \in Phones BY <3>4, <3>9
      <3>14. Staged(d) /\ Knows(d, Len(otp), tokens, username) /\ KnowsToken(d, tokens) /\ KnowsKeys(d)
        BY <1>1, <3>1, <3>2, <3>10, <3>13 DEF Kept, CallKept, Staged, Knows, KnowsToken, KnowsKeys,
           Holds, Writing, Inserting, Operations
      <3> QED BY <1>1, <3>10, <3>12, <3>14 DEF Kept, CallKept, d
    <2> QED BY <1>5, <2>1, <2>2 DEF ImportPilgrim
  <1> QED BY <1>2, <1>3, <1>4, <1>5 DEF ImportFromExcel

LEMMA CallsKeptNext == ASSUME TypeInv, AppsInv, Next PROVE TypeInv'
  <1>1. TablesOK' /\ Grows /\ TelegramTypeOK' BY TablesGrow, TelegramTyped
  <1>2. /\ \A c : Kept(c) => KeptNext(c)
        /\ KeptNext(NoCall) /\ req \in [Sessions -> Calls]
        /\ \A s \in Sessions : Kept(req[s])
    BY <1>1, StillKept
  <1>3. ASSUME NEW s \in Sessions, Serve(s) PROVE KeptNext(req'[s])
    BY <1>1, <1>3, VerifyKept, PhoneLoginKept, RegisterKept, TelegramKept, TokensKept, CreateKept,
       ImportKept, UpdateKept, ProfileKept DEF Serve, Records
  <1>4. req' \in [Sessions -> Calls] /\ \A s \in Sessions : KeptNext(req'[s])
    <2>1. CASE UNCHANGED req BY <1>2, <2>1
    <2>2. CASE Restart BY <1>2, <2>2 DEF Restart, KeptNext
    <2>3. ASSUME NEW s \in Sessions, Serve(s), req' = [req EXCEPT ![s] = req'[s]]
          PROVE  /\ req' \in [Sessions -> Calls]
                 /\ \A t \in Sessions : KeptNext(req'[t])
      <3>1. KeptNext(req'[s]) BY <1>3, <2>3
      <3>2. req'[s] \in Calls BY <3>1 DEF KeptNext
      <3> DEFINE d == req'[s]
      <3>3. req' = [req EXCEPT ![s] = d] BY <2>3
      <3> HIDE DEF d
      <3>4. req' \in [Sessions -> Calls] BY <1>2, <3>2, <3>3 DEF d
      <3> QED BY <1>2, <2>3, <3>1, <3>4
    <2> QED BY <1>2, <2>1, <2>2, <2>3, StepsWrite DEF Frames
  <1> QED BY <1>1, <1>4 DEF TypeInv, CallsKept, KeptNext

-----------------------------------------------------------------------------
(* Accounts that are being inserted *)

\* The unique keys of s stay, are given up, or grow by the users row it writes.
KeysStep(s) ==
  \/ /\ req'[s].users \subseteq req[s].users
     /\ req'[s].users # {} => req'[s].op = req[s].op
  \/ \E a \in Accounts :
       /\ a \in Fresh \/ (req[s].op = "update" /\ a = req[s].account)
       /\ req'[s].users = req[s].users \cup {<<a, req[s].phone>>} /\ req'[s].op = req[s].op
       /\ UNCHANGED tables

LEMMA KeysWritten == ASSUME TypeInv, NEW s \in Sessions, Serve(s) PROVE KeysStep(s)
  <1>1. /\ req \in [Sessions -> Calls] /\ Kept(req[s]) /\ req[s] \in Calls
        /\ \A c : Begin(s, c) => req'[s] = c
        /\ Reply(s) => req'[s].users = {}
        /\ NoCall.users = {}
    BY RequestSteps DEF TypeInv, CallsKept, Kept, NoCall
  <1>2. \A at : GoTo(s, at) => req'[s].users = req[s].users /\ req'[s].op = req[s].op
    BY <1>1 DEF GoTo, Calls
  <1>3. \A a : Answering(s, a) => req'[s].users = {} BY <1>1 DEF Answering, NoCall
  <1>4. \A op, at, test, next : Check(s, op, at, test, next) => KeysStep(s)
    BY <1>1, <1>2 DEF Check, KeysStep
  <1>5. ASSUME NEW a \in Accounts, WriteUsername(s, a),
               a \in Fresh \/ (req[s].op = "update" /\ a = req[s].account)
        PROVE  KeysStep(s)
    <2>1. CASE Reply(s) BY <1>1, <2>1 DEF KeysStep
    <2>2. CASE req' = [req EXCEPT ![s].at = "row", ![s].account = a,
                                  ![s].users = @ \cup {<<a, req[s].phone>>}]
      <3>1. req'[s].users = req[s].users \cup {<<a, req[s].phone>>} /\ req'[s].op = req[s].op
        BY <1>1, <2>2 DEF Calls
      <3>2. UNCHANGED tables BY <1>5 DEF WriteUsername
      <3> QED BY <1>5, <3>1, <3>2 DEF KeysStep
    <2> QED BY <1>5, <2>1, <2>2 DEF WriteUsername
  <1>6. CASE SendOtp(s) \/ VerifyOtp(s)
    BY <1>1, <1>4, <1>6 DEF SendOtp, Deliver, BeginSendOtp, VerifyOtp, BeginVerify, ReadSession, KeysStep, NoCall
  <1>7. CASE CompletePhoneLogin(s)
    <2>1. ASSUME NEW a \in Accounts,
                 req' = [req EXCEPT ![s].at = "pilgrim", ![s].account = a]
          PROVE  KeysStep(s)
      BY <1>1, <2>1 DEF KeysStep, Calls
    <2>2. CASE ReadUser(s) BY <1>2, <2>1, <2>2 DEF ReadUser, KeysStep
    <2>3. CASE ReadPilgrim(s) BY <1>1, <2>3 DEF ReadPilgrim, KeysStep, Calls
    <2>4. CASE LogIn(s) BY <1>3, <2>4 DEF LogIn, KeysStep
    <2>5. CASE MarkVerified(s) BY <1>1, <2>5 DEF MarkVerified, KeysStep
    <2> QED BY <1>7, <2>2, <2>3, <2>4, <2>5 DEF CompletePhoneLogin
  <1>8. CASE Register(s)
    <2>1. ASSUME NEW a \in Accounts, InsertUser(s, a) PROVE KeysStep(s)
      BY <1>5, <2>1 DEF InsertUser
    <2>2. CASE FindProof(s) BY <1>1, <2>2 DEF FindProof, KeysStep, Calls
    <2> QED BY <1>1, <1>3, <1>4, <1>8, <2>1, <2>2
        DEF Register, FindRegistered, FindPinfl, InsertRegistered, BeginRegister, KeysStep, NoCall
  <1>9. CASE LoginWithTelegram(s)
    <2>1. CASE InsertTelegramSession(s) BY <1>1, <2>1 DEF InsertTelegramSession, KeysStep, Calls
    <2>2. CASE Exchange(s) BY <1>1, <2>2 DEF Exchange, KeysStep
    <2>3. ASSUME NEW f \in Flows, HandleCallback(s, f) PROVE KeysStep(s)
      BY <1>1, <2>3 DEF HandleCallback, KeysStep, NoCall
    <2>4. ASSUME NEW f \in Flows, RedeemTicket(s, f) PROVE KeysStep(s)
      BY <1>1, <2>4 DEF RedeemTicket, KeysStep, NoCall
    <2> QED BY <1>9, <2>1, <2>2, <2>3, <2>4 DEF LoginWithTelegram
  <1>10. CASE RefreshToken(s) \/ Logout(s)
    <2>1. ASSUME NEW i \in DOMAIN tokens, FindToken(s, i) PROVE KeysStep(s)
      BY <1>1, <2>1 DEF FindToken, KeysStep, Calls
    <2>2. ASSUME NEW a \in Accounts, BeginRefresh(s, a) \/ BeginLogout(s, a) PROVE KeysStep(s)
      BY <1>1, <2>2 DEF BeginRefresh, BeginLogout, KeysStep, NoCall
    <2> QED BY <1>1, <1>3, <1>10, <2>1, <2>2
        DEF RefreshToken, RefuseToken, Rotate, Receive, Logout, CommitLogout, KeysStep
  <1>11. CASE Create(s)
    <2>1. ASSUME NEW a \in Accounts, CreateUser(s, a) PROVE KeysStep(s)
      BY <1>5, <2>1 DEF CreateUser
    <2> QED BY <1>1, <1>4, <1>11, <2>1
        DEF Create, FindUsed, FindUsedPinfl, CreatePilgrim, BeginCreate, BeginAdminCreate, KeysStep, NoCall
  <1>12. CASE ImportFromExcel(s)
    <2>1. CASE ReadTakenPhones(s) BY <1>1, <2>1 DEF ReadTakenPhones, KeysStep, Calls
    <2>4. ASSUME NEW c \in Calls, NEW items, c.users = req[s].users, c.op = req[s].op,
                 req' = [req EXCEPT ![s] = Load(c, items)]
          PROVE  KeysStep(s)
      <3>1. Load(c, items).users = c.users /\ Load(c, items).op = c.op BY DEF Load, Calls
      <3> QED BY <1>1, <2>4, <3>1 DEF KeysStep
    <2>2. CASE ReadTakenPinfls(s)
      <3> DEFINE taken == req[s].taken \cup {x \in Pinfls : PinflTaken(x)}
                 items == Import!Items(req[s].rows)
      <3>1. \/ Reply(s)
            \/ req' = [req EXCEPT ![s] = Load([req[s] EXCEPT !.taken = taken], items)]
        BY <2>2 DEF ReadTakenPinfls
      <3>2. req[s].op = "import" /\ req[s].at = "pinfls" BY <2>2 DEF ReadTakenPinfls, Running
      <3>3. taken \in SUBSET (Phones \cup Pinfls)
        BY <1>1, <3>2 DEF Kept, CallKept, KnowsFile, Writing
      <3> HIDE DEF taken, items
      <3>4. [req[s] EXCEPT !.taken = taken] \in Calls BY <1>1, <3>3, FieldSet
      <3>5. [req[s] EXCEPT !.taken = taken].users = req[s].users
            /\ [req[s] EXCEPT !.taken = taken].op = req[s].op
        BY <1>1 DEF Calls
      <3>6. CASE Reply(s) BY <1>1, <3>6 DEF KeysStep
      <3> QED BY <2>4, <3>1, <3>4, <3>5, <3>6
    <2>3. CASE ImportPilgrim(s)
      <3> DEFINE pinfls == req[s].pinfls \cup PinflKeys(s)
                 items == req[s].items
      <3>1. \/ Reply(s)
            \/ req' = [req EXCEPT ![s] = Load([req[s] EXCEPT !.pinfls = pinfls], items)]
        BY <2>3 DEF ImportPilgrim
      <3>2. req[s].account \in Accounts BY <1>1, <2>3 DEF ImportPilgrim, Running, Kept, CallKept, Knows
      <3>3. pinfls \in SUBSET (Accounts \X Pinfls) BY <1>1, <3>2 DEF PinflKeys, Calls
      <3> HIDE DEF pinfls, items
      <3>4. [req[s] EXCEPT !.pinfls = pinfls] \in Calls BY <1>1, <3>3, FieldSet
      <3>5. [req[s] EXCEPT !.pinfls = pinfls].users = req[s].users
            /\ [req[s] EXCEPT !.pinfls = pinfls].op = req[s].op
        BY <1>1 DEF Calls
      <3>6. CASE Reply(s) BY <1>1, <3>6 DEF KeysStep
      <3> QED BY <2>4, <3>1, <3>4, <3>5, <3>6
    <2> QED BY <1>1, <1>12, <2>1, <2>2, <2>3 DEF ImportFromExcel, BeginImport, KeysStep, NoCall
  <1>13. CASE Update(s)
    <2>1. CASE MoveLogin(s)
      <3>1. req[s].op = "update" /\ WriteUsername(s, req[s].account) BY <2>1 DEF MoveLogin, Running
      <3>2. req[s].account \in Accounts BY <1>1, <3>1 DEF Kept, CallKept, Knows
      <3> QED BY <1>5, <3>1, <3>2
    <2>2. CASE ReadOwn(s)
      <3> DEFINE next == IF req[s].phone \in {None, phone[req[s].account]} THEN "row" ELSE "taken"
                 was == phone[req[s].account]
      <3>1. Reply(s) \/ req'[s] = [req[s] EXCEPT !.was = was, !.at = next]
        BY <1>1, <2>2 DEF ReadOwn
      <3> HIDE DEF next, was
      <3>2. Reply(s) \/ (req'[s].users = req[s].users /\ req'[s].op = req[s].op)
        BY <1>1, <3>1 DEF Calls
      <3> QED BY <1>1, <3>2 DEF KeysStep
    <2> QED BY <1>1, <1>4, <1>13, <2>1, <2>2 DEF Update, FindOther, UpdateRow, BeginUpdate, KeysStep, NoCall
  <1>14. CASE UpdateProfile(s) \/ AbortVictim(s)
    BY <1>1, <1>4, <1>14 DEF UpdateProfile, FindPhone, WriteProfile, BeginProfile, AbortVictim, KeysStep, NoCall
  <1> QED BY <1>6, <1>7, <1>8, <1>9, <1>10, <1>11, <1>12, <1>13, <1>14 DEF Serve, Records

\* A login changes by the commit of a transaction that wrote it.
LEMMA LoginsCommitted ==
  ASSUME TypeInv, Next, NEW a \in Accounts, username'[a] # username[a]
  PROVE  \E s \in Sessions : /\ req[s].at = "row" /\ Writes(req[s].users, a) /\ req'[s].users = {}
                             /\ <<a, username'[a]>> \in req[s].users
  <1>1. /\ req \in [Sessions -> Calls] /\ TablesOK
        /\ \A s \in Sessions : Kept(req[s]) /\ req[s] \in Calls
    BY DEF TypeInv, CallsKept, Kept
  <1>6. ASSUME NEW s \in Sessions, Reply(s) \/ \E b : Answering(s, b) PROVE req'[s].users = {}
    <2>1. CASE Reply(s) BY <1>1, <2>1 DEF Reply, NoCall
    <2>2. ASSUME NEW b, Answering(s, b) PROVE req'[s].users = {}
      BY <1>1, <2>2 DEF Answering, NoCall
    <2> QED BY <1>6, <2>1, <2>2
  <1>2. ASSUME NEW s \in Sessions, CommitAccounts(s), req[s].at = "row"
        PROVE  Writes(req[s].users, a) /\ <<a, username'[a]>> \in req[s].users
    <2>1. req[s] \in Calls /\ req[s].account \in Accounts BY <1>1, <1>2 DEF Kept, CallKept, Knows
    <2> QED BY <1>1, <1>2, <2>1, AccountsCommitted
  <1>3. ASSUME NEW s \in Sessions, CreatePilgrim(s) \/ InsertRegistered(s) \/ ImportPilgrim(s)
        PROVE  /\ req[s].at = "row" /\ Writes(req[s].users, a) /\ req'[s].users = {}
               /\ <<a, username'[a]>> \in req[s].users
    <2>1. req[s].at = "row" /\ (UNCHANGED accountVars \/ (CommitAccounts(s) /\ req'[s].users = {}))
      BY <1>1, <1>3, <1>6 DEF CreatePilgrim, InsertRegistered, ImportPilgrim, Running, tables
    <2> QED BY <1>2, <2>1 DEF accountVars
  <1>4. ASSUME NEW s \in Sessions, UpdateRow(s)
        PROVE  /\ req[s].at = "row" /\ Writes(req[s].users, a) /\ req'[s].users = {}
               /\ <<a, username'[a]>> \in req[s].users
    <2>1. req[s].at = "row" /\ req'[s].users = {} /\ username' = Committed(username, req[s].users)
      BY <1>1, <1>4, <1>6 DEF UpdateRow, Running, Edited, accountVars
    <2>2. /\ username \in [Accounts -> Phones \cup {None}]
          /\ req[s].users \in SUBSET (Accounts \X (Phones \cup {None}))
      BY <1>1 DEF TablesOK, Calls
    <2>3. IF Writes(req[s].users, a)
          THEN <<a, Committed(username, req[s].users)[a]>> \in req[s].users
          ELSE Committed(username, req[s].users)[a] = username[a]
      BY <2>2, CommittedColumn, LeftAlone
    <2> QED BY <2>1, <2>3
  <1>5. UNCHANGED username
        \/ \E s \in Sessions : CreatePilgrim(s) \/ InsertRegistered(s) \/ ImportPilgrim(s) \/ UpdateRow(s)
    BY <1>1, StepsWrite DEF Frames, accountVars, WriteProfile, ApproveDeletion, AdminEdits, AdminUpdate
  <1> QED BY <1>3, <1>4, <1>5

LEMMA InsertsStayApart == ASSUME TypeInv, InsertsApart, Next PROVE InsertsApart'
  <1>1. /\ req \in [Sessions -> Calls]
        /\ \A s \in Sessions : Kept(req[s])
    BY DEF TypeInv, CallsKept, Kept
  <1>2. \/ \A s \in Sessions : req'[s].users = {}
        \/ UNCHANGED req
        \/ \E s \in Sessions : KeysStep(s) /\ \A t \in Sessions \ {s} : req'[t] = req[t]
    <2>1. CASE Restart BY <2>1 DEF Restart, NoCall
    <2>2. ASSUME NEW s \in Sessions, Serve(s), req' = [req EXCEPT ![s] = req'[s]]
          PROVE  KeysStep(s) /\ \A t \in Sessions \ {s} : req'[t] = req[t]
      BY <1>1, <2>2, KeysWritten
    <2> QED BY <1>1, <2>1, <2>2, StepsWrite DEF Frames
  <1>3. CASE \A s \in Sessions : req'[s].users = {} BY <1>3 DEF InsertsApart
  <1> DEFINE Apart(s, u) == username'[u[1]] = None /\ \A t \in Sessions \ {s} : ~HoldsUser(t, u[1])'
  <1>4. ASSUME NEW s \in Sessions, Inserting(req[s]), NEW u \in req[s].users, u \in req'[s].users,
               \/ UNCHANGED req
               \/ \E t \in Sessions : KeysStep(t) /\ \A v \in Sessions \ {t} : req'[v] = req[v]
        PROVE  Apart(s, u)
    <2>1. /\ username[u[1]] = None /\ \A t \in Sessions \ {s} : ~HoldsUser(t, u[1])
          /\ u[1] \in Accounts
      BY <1>1, <1>4 DEF InsertsApart, Calls
    <2>2. username'[u[1]] = None
      <3> SUFFICES ASSUME username'[u[1]] # None PROVE FALSE OBVIOUS
      <3>1. PICK t \in Sessions : Writes(req[t].users, u[1]) /\ req'[t].users = {}
        BY <2>1, LoginsCommitted
      <3> QED BY <1>4, <2>1, <3>1 DEF Writes, HoldsUser
    <2>3. ASSUME NEW t \in Sessions \ {s}, HoldsUser(t, u[1])' PROVE FALSE
      <3>1. PICK w \in req'[t].users : w[1] = u[1] BY <2>3 DEF HoldsUser
      <3>2. w \notin req[t].users BY <2>1, <3>1 DEF HoldsUser
      <3>3. KeysStep(t) BY <1>4, <3>1, <3>2
      <3>4. PICK a \in Accounts : /\ a \in Fresh \/ (req[t].op = "update" /\ a = req[t].account)
                                  /\ w = <<a, req[t].phone>>
        BY <3>1, <3>2, <3>3 DEF KeysStep
      <3>5. a = u[1] /\ HoldsUser(s, a) BY <1>4, <3>1, <3>4 DEF HoldsUser
      <3>6. req[t].op = "update" /\ u[1] = req[t].account BY <3>4, <3>5 DEF Fresh
      <3>7. username[u[1]] # None BY <1>1, <3>6 DEF Kept, CallKept, Knows
      <3> QED BY <2>1, <3>7
    <2> QED BY <2>2, <2>3
  <1>5. CASE UNCHANGED req BY <1>4, <1>5 DEF InsertsApart
  <1>6. ASSUME NEW t \in Sessions, KeysStep(t), \A v \in Sessions \ {t} : req'[v] = req[v]
        PROVE  InsertsApart'
    <2>1. ASSUME NEW s \in Sessions, Inserting(req'[s]), NEW u \in req'[s].users PROVE Apart(s, u)
      <3>1. Inserting(req[s]) BY <1>6, <2>1 DEF KeysStep, Inserting
      <3>2. CASE u \in req[s].users BY <1>4, <1>6, <2>1, <3>1, <3>2
      <3>3. CASE u \notin req[s].users
        <4>1. s = t BY <1>6, <2>1, <3>3
        <4>2. PICK a \in Accounts : a \in Fresh /\ u = <<a, req[s].phone>> /\ UNCHANGED tables
          BY <1>6, <2>1, <3>1, <3>3, <4>1 DEF KeysStep, Inserting
        <4>3. username'[a] = None BY <4>2 DEF Fresh, tables, accountVars
        <4>4. \A v \in Sessions \ {s} : ~HoldsUser(v, a)' BY <1>6, <4>1, <4>2 DEF Fresh, HoldsUser
        <4> QED BY <4>2, <4>3, <4>4
      <3> QED BY <3>2, <3>3
    <2> QED BY <2>1 DEF InsertsApart
  <1> QED BY <1>2, <1>3, <1>5, <1>6

LEMMA GoneStay == ASSUME TypeInv, GoneWereThere, Next PROVE GoneWereThere'
  <1>1. \A a \in Accounts : username[a] # None => username'[a] # None BY AccountsGrow
  <1>2. \A a \in gone' : username[a] # None
    <2>1. req \in [Sessions -> Calls] /\ gone \subseteq Accounts BY DEF TypeInv, CallsKept, TablesOK
    <2>2. gone' = gone \/ \E a \in Accounts : ApproveDeletion(a)
      BY <2>1, StepsWrite DEF Frames, accountVars, CreatePilgrim, InsertRegistered, ImportPilgrim,
         UpdateRow, WriteProfile, CommitAccounts, Edited, tables, AdminEdits, AdminUpdate
    <2> QED BY <2>2 DEF GoneWereThere, ApproveDeletion
  <1>3. gone' \subseteq Accounts BY AccountsGrow
  <1> QED BY <1>1, <1>2, <1>3 DEF GoneWereThere

-----------------------------------------------------------------------------
(* What a step makes of a request, as the invariants below tell it *)

Ends(s) == req'[s] = NoCall
Answers(s) == /\ LogIn(s) \/ InsertRegistered(s) \/ Rotate(s)
              /\ \E a : Answering(s, a)

Starts(s) ==
  /\ req[s] = NoCall
  /\ req'[s].at \notin {"answer", "revoke"} /\ \A k : ~Holds(req'[s], k)
  /\ req'[s].op = "refresh" => \E a \in Accounts : BeginRefresh(s, a)
  /\ req'[s].op = "logout" => \E a \in Accounts : BeginLogout(s, a)
  /\ req'[s].op = "callback" => req'[s].flow \in Flows /\ HandleCallback(s, req'[s].flow)
  /\ req'[s].op \notin {"refresh", "logout"} => req'[s].token = None

Goes(s) ==
  /\ req[s].at # "answer" /\ req'[s].at # "answer"
  /\ req'[s].op = req[s].op /\ req'[s].token = req[s].token /\ req'[s].flow = req[s].flow
  /\ req[s].op \in {"refresh", "logout"} => req'[s].account = req[s].account
  /\ req'[s].at = "revoke" => FindToken(s, req'[s].row)
  /\ \A k : Holds(req'[s], k) => \/ Holds(req[s], k) \/ k = Len(otp) + 1
                                 \/ otp[k].status # "USED" /\ UNCHANGED otp

Served(s) == Ends(s) \/ Answers(s) \/ Starts(s) \/ Goes(s)

LEMMA CallOver ==
  ASSUME req \in [Sessions -> Calls], NEW s \in Sessions
  PROVE  /\ Ends(s) => /\ req'[s].op = "idle" /\ req'[s].at = "idle" /\ req'[s].token = None
                       /\ \A k : ~Holds(req'[s], k)
         /\ \A a : Answering(s, a) =>
              /\ req'[s].op = "idle" /\ req'[s].at = "answer" /\ req'[s].account = a
              /\ req'[s].token = <<a, second>> /\ \A k : ~Holds(req'[s], k)
  <1>2. ASSUME NEW a, Answering(s, a)
        PROVE  /\ req'[s].op = "idle" /\ req'[s].at = "answer" /\ req'[s].account = a
               /\ req'[s].token = <<a, second>> /\ \A k : ~Holds(req'[s], k)
    <2> DEFINE token == <<a, second>>
    <2>1. req'[s] = [NoCall EXCEPT !.at = "answer", !.account = a, !.token = token]
      BY <1>2 DEF Answering
    <2> HIDE DEF token
    <2>2. /\ req'[s].op = "idle" /\ req'[s].at = "answer" /\ req'[s].account = a
          /\ req'[s].token = token
      BY <2>1 DEF NoCall
    <2> QED BY <2>2 DEF Holds, token
  <1>3. Ends(s) => /\ req'[s].op = "idle" /\ req'[s].at = "idle" /\ req'[s].token = None
                   /\ \A k : ~Holds(req'[s], k)
    BY DEF Ends, NoCall, Holds
  <1> QED BY <1>2, <1>3

LEMMA CheckGoes ==
  ASSUME TypeInv, NEW s \in Sessions, NEW op, NEW at \in {"session", "taken", "pinfl", "find"},
         NEW next \in {"user", "pinfl", "username", "write"}, NEW test, Check(s, op, at, test, next),
         next = "user" => op = "verify" /\ (test => otp[req[s].code].status # "USED"),
         op = "register" => at \in {"taken", "pinfl"}
  PROVE  Served(s)
  <1>1. req \in [Sessions -> Calls] /\ req[s].op = op /\ req[s].at = at /\ UNCHANGED otp
    BY DEF TypeInv, CallsKept, Check, Running, tables, signInVars
  <1>2. CASE Reply(s) BY <1>1, <1>2, RequestSteps DEF Served, Ends
  <1>3. CASE test /\ GoTo(s, next)
    <2>1. next \in Stages BY DEF Stages
    <2>2. Moved(req[s], req'[s], next) BY <1>1, <1>3, <2>1, RequestSteps
    <2>3. Goes(s) BY <1>1, <1>3, <2>2 DEF Goes, Moved, Holds
    <2> QED BY <2>3 DEF Served
  <1> QED BY <1>2, <1>3 DEF Check

LEMMA AllServed == ASSUME TypeInv, NEW s \in Sessions, Serve(s) PROVE Served(s)
  <1>1. /\ req \in [Sessions -> Calls] /\ Kept(req[s]) /\ req[s] \in Calls
        /\ \A c : Begin(s, c) => req[s] = NoCall /\ req'[s] = c
        /\ Reply(s) => Served(s)
        /\ \A a : Answering(s, a) /\ (LogIn(s) \/ InsertRegistered(s) \/ Rotate(s)) => Served(s)
    BY RequestSteps DEF TypeInv, CallsKept, Kept, Served, Ends, Answers
  <1>13. ASSUME req[s] = NoCall, req'[s].token = None,
                req'[s].op \in {"sendOtp", "verify", "register", "telegram", "create", "import", "update", "profile"},
                req'[s].at \in {"deliver", "session", "proof", "insert", "taken", "username", "phones", "read", "find"},
                req'[s].op = "register" => req'[s].at = "proof"
         PROVE  Served(s)
    <2>1. Starts(s) BY <1>13 DEF Starts, Holds
    <2> QED BY <2>1 DEF Served
  <1>2. CASE SendOtp(s)
    <2>1. CASE Deliver(s) BY <1>1, <2>1 DEF Deliver
    <2>2. ASSUME NEW ph \in Phones, BeginSendOtp(s, ph) PROVE Served(s)
      <3>1. req[s] = NoCall
            /\ req'[s] = [NoCall EXCEPT !.op = "sendOtp", !.at = "deliver", !.phone = ph, !.code = Len(otp) + 1]
        BY <1>1, <2>2 DEF BeginSendOtp
      <3>2. req'[s].token = None /\ req'[s].op = "sendOtp" /\ req'[s].at = "deliver"
        BY <3>1 DEF NoCall
      <3> QED BY <1>13, <3>1, <3>2
    <2> QED BY <1>2, <2>1, <2>2 DEF SendOtp
  <1>3. CASE VerifyOtp(s)
    <2>1. CASE BeginVerify(s)
      <3>1. PICK ph, k : req[s] = NoCall
            /\ req'[s] = [NoCall EXCEPT !.op = "verify", !.at = "session", !.phone = ph, !.code = k]
        BY <1>1, <2>1 DEF BeginVerify
      <3>2. req'[s].token = None /\ req'[s].op = "verify" /\ req'[s].at = "session"
        BY <3>1 DEF NoCall
      <3> QED BY <1>13, <3>1, <3>2
    <2>2. CASE ReadSession(s) BY <2>2, CheckGoes DEF ReadSession
    <2> QED BY <1>3, <2>1, <2>2 DEF VerifyOtp
  <1>4. CASE CompletePhoneLogin(s)
    <2>1. CASE ReadUser(s)
      <3>1. \/ req'[s] = [req[s] EXCEPT !.at = "login"]
            \/ \E a : req'[s] = [req[s] EXCEPT !.at = "pilgrim", !.account = a]
        BY <1>1, <2>1 DEF ReadUser, GoTo
      <3>2. req[s].op \in {"verify", "telegram"} /\ req[s].at = "user" BY <2>1 DEF ReadUser
      <3>3. Goes(s) BY <1>1, <3>1, <3>2 DEF Goes, Holds, Calls
      <3> QED BY <3>3 DEF Served
    <2>2. CASE ReadPilgrim(s)
      <3>1. \E a : req'[s] = [req[s] EXCEPT !.at = "login", !.account = a]
        BY <1>1, <2>2 DEF ReadPilgrim
      <3>2. req[s].op \in {"verify", "telegram"} /\ req[s].at = "pilgrim"
        BY <1>1, <2>2 DEF ReadPilgrim, Kept, CallKept, Staged, Calls, Operations
      <3>3. Goes(s) BY <1>1, <3>1, <3>2 DEF Goes, Holds, Calls
      <3> QED BY <3>3 DEF Served
    <2>3. CASE LogIn(s)
      <3>1. Answering(s, req[s].account) BY <2>3 DEF LogIn
      <3> QED BY <1>1, <2>3, <3>1
    <2> QED BY <1>1, <1>4, <2>1, <2>2, <2>3 DEF CompletePhoneLogin, MarkVerified
  <1>5. ASSUME NEW a \in Accounts, WriteUsername(s, a), req[s].at = "username",
               req[s].op \in {"register", "create", "import", "update"}
        PROVE  Served(s)
    <2>1. \/ Reply(s)
          \/ \E users : req'[s] = [req[s] EXCEPT !.at = "row", !.account = a, !.users = users]
      BY <1>1, <1>5 DEF WriteUsername
    <2>2. ASSUME NEW users, req'[s] = [req[s] EXCEPT !.at = "row", !.account = a, !.users = users]
          PROVE  Goes(s)
      BY <1>1, <1>5, <2>2 DEF Goes, Holds, Calls
    <2> QED BY <1>1, <2>1, <2>2 DEF Served
  <1>6. CASE Register(s)
    <2>1. ASSUME NEW ph \in Phones, NEW x \in Pinfls \cup {None}, BeginRegister(s, ph, x)
          PROVE  Served(s)
      <3>1. req[s] = NoCall
            /\ req'[s] = [NoCall EXCEPT !.op = "register", !.at = "proof", !.phone = ph, !.pinfl = x]
        BY <1>1, <2>1 DEF BeginRegister
      <3>2. req'[s].token = None /\ req'[s].op = "register" /\ req'[s].at = "proof"
        BY <3>1 DEF NoCall
      <3> QED BY <1>13, <3>1, <3>2
    <2>2. CASE FindProof(s)
      <3>1. ASSUME NEW k \in NewestOf(Proofs(req[s].phone)),
                   req'[s] = [req[s] EXCEPT !.at = "taken", !.code = k]
            PROVE  Goes(s)
        <4>1. req[s].op = "register" /\ req[s].at = "proof" /\ UNCHANGED otp
          BY <2>2 DEF FindProof, Running, tables, signInVars
        <4>2. otp[k].status # "USED" BY DEF NewestOf, Proofs
        <4> QED BY <1>1, <3>1, <4>1, <4>2 DEF Goes, Holds, Calls
      <3>2. Reply(s) \/ \E k \in NewestOf(Proofs(req[s].phone)) :
                          req'[s] = [req[s] EXCEPT !.at = "taken", !.code = k]
        BY <1>1, <2>2 DEF FindProof
      <3> QED BY <1>1, <3>1, <3>2 DEF Served
    <2>3. CASE FindRegistered(s) \/ FindPinfl(s)
      BY <2>3, CheckGoes DEF FindRegistered, FindPinfl
    <2>4. ASSUME NEW a \in Accounts, InsertUser(s, a) PROVE Served(s)
      BY <1>5, <2>4 DEF InsertUser, Running
    <2>5. CASE InsertRegistered(s)
      <3>1. Reply(s) \/ Answering(s, req[s].account) BY <2>5 DEF InsertRegistered
      <3> QED BY <1>1, <2>5, <3>1
    <2> QED BY <1>6, <2>1, <2>2, <2>3, <2>4, <2>5 DEF Register
  <1>7. CASE LoginWithTelegram(s)
    <2>1. CASE Exchange(s) BY <1>1, <2>1 DEF Exchange
    <2>2. CASE InsertTelegramSession(s)
      <3>1. req'[s] = [req[s] EXCEPT !.at = "user", !.code = Len(otp) + 1]
            /\ req[s].op = "telegram" /\ req[s].at = "insert"
        BY <1>1, <2>2 DEF InsertTelegramSession, Running
      <3>2. Goes(s) BY <1>1, <3>1 DEF Goes, Holds, Calls
      <3> QED BY <3>2 DEF Served
    <2>3. ASSUME NEW f \in Flows, HandleCallback(s, f) PROVE Served(s)
      <3>1. req[s] = NoCall /\ req'[s] = [NoCall EXCEPT !.op = "callback", !.at = "exchange", !.flow = f]
        BY <1>1, <2>3 DEF HandleCallback
      <3>2. req'[s].flow = f BY <3>1 DEF NoCall
      <3>3. Starts(s) BY <2>3, <3>1, <3>2 DEF Starts, Holds, NoCall
      <3> QED BY <3>3 DEF Served
    <2>4. ASSUME NEW f \in Flows, RedeemTicket(s, f) PROVE Served(s)
      <3>1. req[s] = NoCall
            /\ req'[s] = [NoCall EXCEPT !.op = "telegram", !.at = "insert", !.phone = Flow(f).phone, !.flow = f]
        BY <1>1, <2>4 DEF RedeemTicket
      <3>2. req'[s].token = None /\ req'[s].op = "telegram" /\ req'[s].at = "insert"
        BY <3>1 DEF NoCall
      <3> QED BY <1>13, <3>1, <3>2
    <2> QED BY <1>7, <2>1, <2>2, <2>3, <2>4 DEF LoginWithTelegram
  <1>8. CASE RefreshToken(s) \/ Logout(s)
    <2>1. ASSUME NEW a \in Accounts, BeginRefresh(s, a) PROVE Served(s)
      <3>1. req[s] = NoCall
            /\ req'[s] = [NoCall EXCEPT !.op = "refresh", !.at = "find", !.account = a, !.token = app[a].holds]
        BY <1>1, <2>1 DEF BeginRefresh
      <3>2. Starts(s) BY <2>1, <3>1 DEF Starts, Holds, NoCall
      <3> QED BY <3>2 DEF Served
    <2>2. ASSUME NEW a \in Accounts, BeginLogout(s, a) PROVE Served(s)
      <3>1. req[s] = NoCall
            /\ req'[s] = [NoCall EXCEPT !.op = "logout", !.at = "find", !.account = a, !.token = app[a].holds]
        BY <1>1, <2>2 DEF BeginLogout
      <3>2. Starts(s) BY <2>2, <3>1 DEF Starts, Holds, NoCall
      <3> QED BY <3>2 DEF Served
    <2>3. ASSUME NEW i \in DOMAIN tokens, FindToken(s, i) PROVE Served(s)
      <3>1. /\ req'[s] = [req[s] EXCEPT !.at = "revoke", !.row = i]
            /\ req[s].op \in {"refresh", "logout"} /\ req[s].at = "find"
        BY <1>1, <2>3 DEF FindToken, Running
      <3>2. req'[s].row = i BY <1>1, <3>1 DEF Calls
      <3>3. Goes(s) BY <1>1, <2>3, <3>1, <3>2 DEF Goes, Holds, Calls
      <3> QED BY <3>3 DEF Served
    <2>4. CASE Rotate(s)
      <3>1. Answering(s, tokens[req[s].row].account) BY <2>4 DEF Rotate
      <3> QED BY <1>1, <2>4, <3>1
    <2> QED BY <1>1, <1>8, <2>1, <2>2, <2>3, <2>4
        DEF RefreshToken, RefuseToken, Receive, Logout, CommitLogout
  <1>9. CASE Create(s)
    <2>1. ASSUME NEW ph \in Phones, NEW x \in Pinfls \cup {None},
                 BeginCreate(s, ph, x) \/ BeginAdminCreate(s, ph, x)
          PROVE  Served(s)
      <3>1. PICK at \in {"taken", "username"} : req[s] = NoCall
            /\ req'[s] = [NoCall EXCEPT !.op = "create", !.phone = ph, !.pinfl = x, !.at = at]
        BY <1>1, <2>1 DEF BeginCreate, BeginAdminCreate
      <3>2. req'[s].token = None /\ req'[s].op = "create" /\ req'[s].at = at
        BY <3>1 DEF NoCall
      <3> QED BY <1>13, <3>1, <3>2
    <2>2. CASE FindUsed(s) \/ FindUsedPinfl(s) BY <2>2, CheckGoes DEF FindUsed, FindUsedPinfl
    <2>3. ASSUME NEW a \in Accounts, CreateUser(s, a) PROVE Served(s)
      BY <1>5, <2>3 DEF CreateUser
    <2>4. CASE CreatePilgrim(s) BY <1>1, <2>4 DEF CreatePilgrim
    <2> QED BY <1>9, <2>1, <2>2, <2>3, <2>4 DEF Create
  <1>10. CASE ImportFromExcel(s)
    <2>1. ASSUME NEW rows \in Files, BeginImport(s, rows) PROVE Served(s)
      <3>1. req[s] = NoCall
            /\ req'[s] = [NoCall EXCEPT !.op = "import", !.at = "phones", !.rows = rows]
        BY <1>1, <2>1 DEF BeginImport
      <3>2. req'[s].token = None /\ req'[s].op = "import" /\ req'[s].at = "phones"
        BY <3>1 DEF NoCall
      <3> QED BY <1>13, <3>1, <3>2
    <2>2. CASE ReadTakenPhones(s)
      <3>1. /\ \E taken : req'[s] = [req[s] EXCEPT !.at = "pinfls", !.taken = taken]
            /\ req[s].op = "import" /\ req[s].at = "phones"
        BY <1>1, <2>2 DEF ReadTakenPhones, Running
      <3>2. Goes(s) BY <1>1, <3>1 DEF Goes, Holds, Calls
      <3> QED BY <3>2 DEF Served
    <2>3. ASSUME NEW c, NEW items, req'[s] = Load(c, items), req[s].op = "import", req[s].at # "answer",
                 c \in Calls, c.op = "import", c.token = req[s].token, c.flow = req[s].flow
          PROVE  Served(s)
      <3>1. /\ Load(c, items).op = "import" /\ Load(c, items).at = "username"
            /\ Load(c, items).token = c.token /\ Load(c, items).flow = c.flow
        BY <2>3 DEF Load, Calls
      <3>2. Goes(s) BY <2>3, <3>1 DEF Goes, Holds
      <3> QED BY <3>2 DEF Served
    <2>4. CASE ReadTakenPinfls(s)
      <3> DEFINE taken == req[s].taken \cup {x \in Pinfls : PinflTaken(x)}
                 items == Import!Items(req[s].rows)
      <3>1. Reply(s) \/ req'[s] = Load([req[s] EXCEPT !.taken = taken], items)
        BY <1>1, <2>4 DEF ReadTakenPinfls
      <3>2. req[s].op = "import" /\ req[s].at = "pinfls" BY <2>4 DEF ReadTakenPinfls, Running
      <3>3. taken \in SUBSET (Phones \cup Pinfls)
        BY <1>1, <3>2 DEF Kept, CallKept, KnowsFile, Writing
      <3> HIDE DEF taken, items
      <3>4. [req[s] EXCEPT !.taken = taken] \in Calls BY <1>1, <3>3, FieldSet
      <3>5. /\ [req[s] EXCEPT !.taken = taken].op = req[s].op
            /\ [req[s] EXCEPT !.taken = taken].token = req[s].token
            /\ [req[s] EXCEPT !.taken = taken].flow = req[s].flow
        BY <1>1 DEF Calls
      <3>6. CASE req'[s] = Load([req[s] EXCEPT !.taken = taken], items)
        BY <2>3, <3>2, <3>4, <3>5, <3>6
      <3> QED BY <1>1, <3>1, <3>6
    <2>5. CASE ImportPilgrim(s)
      <3> DEFINE pinfls == req[s].pinfls \cup PinflKeys(s)
                 items == req[s].items
      <3>1. Reply(s) \/ req'[s] = Load([req[s] EXCEPT !.pinfls = pinfls], items)
        BY <1>1, <2>5 DEF ImportPilgrim
      <3>2. req[s].op = "import" /\ req[s].at = "row" /\ req[s].account \in Accounts
        BY <1>1, <2>5 DEF ImportPilgrim, Running, Kept, CallKept, Knows
      <3>3. pinfls \in SUBSET (Accounts \X Pinfls) BY <1>1, <3>2 DEF PinflKeys, Calls
      <3> HIDE DEF pinfls, items
      <3>4. [req[s] EXCEPT !.pinfls = pinfls] \in Calls BY <1>1, <3>3, FieldSet
      <3>5. /\ [req[s] EXCEPT !.pinfls = pinfls].op = req[s].op
            /\ [req[s] EXCEPT !.pinfls = pinfls].token = req[s].token
            /\ [req[s] EXCEPT !.pinfls = pinfls].flow = req[s].flow
        BY <1>1 DEF Calls
      <3>6. CASE req'[s] = Load([req[s] EXCEPT !.pinfls = pinfls], items)
        BY <2>3, <3>2, <3>4, <3>5, <3>6
      <3> QED BY <1>1, <3>1, <3>6
    <2> QED BY <1>10, <2>1, <2>2, <2>4, <2>5 DEF ImportFromExcel
  <1>11. CASE Update(s)
    <2>1. ASSUME NEW a \in Accounts, NEW ph \in Phones \cup {None}, NEW x \in Pinfls \cup {None},
                 BeginUpdate(s, a, ph, x)
          PROVE  Served(s)
      <3>1. req[s] = NoCall
            /\ req'[s] = [NoCall EXCEPT !.op = "update", !.at = "read", !.account = a, !.phone = ph, !.pinfl = x]
        BY <1>1, <2>1 DEF BeginUpdate
      <3>2. req'[s].token = None /\ req'[s].op = "update" /\ req'[s].at = "read"
        BY <3>1 DEF NoCall
      <3> QED BY <1>13, <3>1, <3>2
    <2>2. CASE ReadOwn(s)
      <3> DEFINE next == IF req[s].phone \in {None, phone[req[s].account]} THEN "row" ELSE "taken"
                 was == phone[req[s].account]
      <3>1. Reply(s) \/ req'[s] = [req[s] EXCEPT !.was = was, !.at = next]
        BY <1>1, <2>2 DEF ReadOwn
      <3>2. req[s].op = "update" /\ req[s].at = "read" /\ next \in {"row", "taken"}
        BY <2>2 DEF ReadOwn, Running
      <3> HIDE DEF next, was
      <3>3. CASE req'[s] = [req[s] EXCEPT !.was = was, !.at = next]
        <4>1. Goes(s) BY <1>1, <3>2, <3>3 DEF Goes, Holds, Calls
        <4> QED BY <4>1 DEF Served
      <3> QED BY <1>1, <3>1, <3>3
    <2>3. CASE FindOther(s) BY <2>3, CheckGoes DEF FindOther
    <2>4. CASE MoveLogin(s)
      <3>1. req[s].op = "update" /\ req[s].at = "username" /\ WriteUsername(s, req[s].account)
        BY <2>4 DEF MoveLogin, Running
      <3>2. req[s].account \in Accounts BY <1>1, <3>1 DEF Kept, CallKept, Knows
      <3> QED BY <1>5, <3>1, <3>2
    <2>5. CASE UpdateRow(s) BY <1>1, <2>5 DEF UpdateRow
    <2> QED BY <1>11, <2>1, <2>2, <2>3, <2>4, <2>5 DEF Update
  <1>12. CASE UpdateProfile(s) \/ AbortVictim(s)
    <2>1. ASSUME NEW a \in Accounts, NEW ph \in Numbers, BeginProfile(s, a, ph) PROVE Served(s)
      <3>1. req[s] = NoCall
            /\ req'[s] = [NoCall EXCEPT !.op = "profile", !.at = "find", !.account = a, !.phone = ph]
        BY <1>1, <2>1 DEF BeginProfile
      <3>2. req'[s].token = None /\ req'[s].op = "profile" /\ req'[s].at = "find"
        BY <3>1 DEF NoCall
      <3> QED BY <1>13, <3>1, <3>2
    <2>2. CASE FindPhone(s) BY <2>2, CheckGoes DEF FindPhone
    <2> QED BY <1>1, <1>12, <2>1, <2>2 DEF UpdateProfile, WriteProfile, AbortVictim, Numbers
  <1> QED BY <1>2, <1>3, <1>4, <1>6, <1>7, <1>8, <1>9, <1>10, <1>11, <1>12 DEF Serve, Records

\* One request is served, or all of them end.
LEMMA OneServed ==
  ASSUME TypeInv, Next
  PROVE  \/ UNCHANGED req
         \/ Restart /\ \A s \in Sessions : Ends(s)
         \/ \E s \in Sessions : /\ Serve(s) /\ Served(s)
                                /\ \A t \in Sessions \ {s} : req'[t] = req[t]
  <1>1. req \in [Sessions -> Calls] BY DEF TypeInv, CallsKept
  <1>2. CASE Restart BY <1>2 DEF Restart, Ends
  <1>3. ASSUME NEW s \in Sessions, Serve(s), req' = [req EXCEPT ![s] = req'[s]]
        PROVE  Served(s) /\ \A t \in Sessions \ {s} : req'[t] = req[t]
    BY <1>1, <1>3, AllServed
  <1> QED BY <1>1, <1>2, <1>3, StepsWrite DEF Frames

-----------------------------------------------------------------------------
(* Refresh tokens *)

Minted(a, from) ==
  /\ Len(tokens') = Len(tokens) + 1
  /\ tokens'[Len(tokens) + 1] = [account |-> a, second |-> second, revoked |-> FALSE, from |-> from]

\* Every row but i stays, and i is revoked.
Spent(i) ==
  /\ i \in 1..Len(tokens)
  /\ \A j \in 1..Len(tokens) : j # i => tokens'[j] = tokens[j]
  /\ tokens'[i].revoked

SignsIn(s) == \E a \in Accounts : /\ LogIn(s) \/ InsertRegistered(s)
                                  /\ Answering(s, a) /\ Minted(a, 0)
                                  /\ \A i \in 1..Len(tokens) : tokens'[i] = tokens[i]
Rotates(s) == /\ Rotate(s) /\ Spent(req[s].row)
              /\ Answering(s, tokens[req[s].row].account)
              /\ Minted(tokens[req[s].row].account, req[s].row)
EndsRow(s) == /\ CommitLogout(s) /\ Spent(req[s].row)
              /\ Len(tokens') = Len(tokens)

LEMMA TokenWrites ==
  ASSUME TypeInv, NEW s \in Sessions
  PROVE  /\ LogIn(s) \/ InsertRegistered(s) => (UNCHANGED tokens /\ Ends(s)) \/ SignsIn(s)
         /\ Rotate(s) => Rotates(s)
         /\ CommitLogout(s) => EndsRow(s)
  <1>1. /\ tokens \in Seq(TokenRows) /\ Len(tokens) \in Nat /\ second \in 0..LastSecond
        /\ \A i \in 1..Len(tokens) : tokens[i] \in TokenRows
        /\ req \in [Sessions -> Calls] /\ \A t \in Sessions : Kept(req[t])
    BY DEF TypeInv, TablesOK, CallsKept, Kept
  <1>2. ASSUME NEW i \in 1..Len(tokens)
        PROVE  /\ Revoke(i) \in Seq(TokenRows) /\ Len(Revoke(i)) = Len(tokens)
               /\ \A j \in 1..Len(tokens) : j # i => Revoke(i)[j] = tokens[j]
               /\ Revoke(i)[i].revoked
    <2>1. [tokens[i] EXCEPT !.revoked = TRUE] \in TokenRows /\ [tokens[i] EXCEPT !.revoked = TRUE].revoked
      BY <1>1 DEF TokenRows
    <2>2. Revoke(i) = [tokens EXCEPT ![i] = [tokens[i] EXCEPT !.revoked = TRUE]] BY DEF Revoke
    <2> HIDE DEF TokenRows
    <2>3. Revoke(i) \in Seq(TokenRows) /\ Len(Revoke(i)) = Len(tokens)
      BY <1>1, <2>1, <2>2, RowWritten
    <2> QED BY <1>1, <2>1, <2>2, <2>3
  <1>3. ASSUME NEW table \in Seq(TokenRows), Len(table) = Len(tokens), NEW a \in Accounts,
               NEW from \in 0..MaxTokens, Mint(table, a, from)
        PROVE  Minted(a, from) /\ \A i \in 1..Len(tokens) : tokens'[i] = table[i]
    <2> DEFINE row == [account |-> a, second |-> second, revoked |-> FALSE, from |-> from]
    <2>1. tokens' = Append(table, row) /\ row \in TokenRows BY <1>1, <1>3 DEF Mint, TokenRows
    <2> HIDE DEF row
    <2> QED BY <1>1, <1>3, <2>1 DEF Minted, row
  <1>4. ASSUME LogIn(s) \/ InsertRegistered(s)
        PROVE  (UNCHANGED tokens /\ Ends(s)) \/ SignsIn(s)
    <2>1. CASE Mint(tokens, req[s].account, 0) /\ Answering(s, req[s].account)
      <3>1. req[s].account \in Accounts
        BY <1>1, <1>4 DEF LogIn, InsertRegistered, Running, Kept, CallKept, Knows, Calls
      <3>2. 0 \in 0..MaxTokens BY AccountsAssumption
      <3> QED BY <1>1, <1>3, <1>4, <2>1, <3>1, <3>2 DEF SignsIn
    <2>2. CASE Reply(s) /\ UNCHANGED tokens BY <1>1, <2>2, RequestSteps DEF Ends
    <2> QED BY <1>4, <2>1, <2>2 DEF LogIn, InsertRegistered, tables, signInVars
  <1>5. ASSUME req[s].at = "revoke"
        PROVE  req[s].row \in 1..Len(tokens) /\ req[s].row \in 0..MaxTokens
    <2>1. req[s].row \in 1..Len(tokens) BY <1>1, <1>5 DEF Kept, CallKept, KnowsToken, RowsIn
    <2>2. Len(tokens) <= MaxTokens /\ MaxTokens \in Nat BY AccountsAssumption DEF TypeInv, TablesOK
    <2> QED BY <1>1, <2>1, <2>2
  <1>6. ASSUME Rotate(s) PROVE Rotates(s)
    <2> DEFINE i == req[s].row
               a == tokens[i].account
    <2>1. i \in 1..Len(tokens) /\ i \in 0..MaxTokens BY <1>5, <1>6 DEF Rotate, Running
    <2>2. a \in Accounts BY <1>1, <2>1 DEF TokenRows
    <2>3. Mint(Revoke(i), a, i) /\ Answering(s, a) BY <1>6 DEF Rotate
    <2>4. Minted(a, i) /\ \A j \in 1..Len(tokens) : tokens'[j] = Revoke(i)[j]
      <3> HIDE DEF i, a
      <3> QED BY <1>2, <1>3, <2>1, <2>2, <2>3
    <2>5. Spent(i) BY <1>2, <2>1, <2>4 DEF Spent
    <2> QED BY <1>6, <2>3, <2>4, <2>5 DEF Rotates
  <1>7. ASSUME CommitLogout(s) PROVE EndsRow(s)
    <2>1. req[s].row \in 1..Len(tokens) BY <1>5, <1>7 DEF CommitLogout, Running
    <2>2. tokens' = Revoke(req[s].row) BY <1>7 DEF CommitLogout
    <2>3. Spent(req[s].row) /\ Len(tokens') = Len(tokens) BY <1>2, <2>1, <2>2 DEF Spent
    <2> QED BY <1>7, <2>3 DEF EndsRow
  <1> QED BY <1>4, <1>6, <1>7

LEMMA TokenSteps ==
  ASSUME TypeInv, Next
  PROVE  UNCHANGED tokens \/ \E s \in Sessions : SignsIn(s) \/ Rotates(s) \/ EndsRow(s)
  <1>1. req \in [Sessions -> Calls] BY DEF TypeInv, CallsKept
  <1> QED BY <1>1, TokenWrites, StepsWrite DEF Frames

LEMMA RevokingSteps ==
  ASSUME TypeInv, Next, NEW i
  PROVE  \/ Revoking(i)' \subseteq Revoking(i)
         \/ /\ UNCHANGED tokens /\ i \in DOMAIN tokens /\ ~tokens[i].revoked
            /\ Revoking(i)' \subseteq Sessions
  <1>1. req \in [Sessions -> Calls] BY DEF TypeInv, CallsKept
  <1>2. ASSUME NEW s \in Sessions, Served(s), req'[s].op = "refresh", req'[s].at = "revoke"
        PROVE  FindToken(s, req'[s].row) /\ req[s].op = "refresh"
    <2>1. ~Ends(s) /\ ~Answers(s) BY <1>1, <1>2, CallOver DEF Answers
    <2> QED BY <1>2, <2>1 DEF Served, Starts, Goes
  <1>3. CASE UNCHANGED req BY <1>3 DEF Revoking, Running
  <1>4. CASE \A s \in Sessions : Ends(s) BY <1>4 DEF Revoking, Running, Ends, NoCall
  <1>5. ASSUME NEW s \in Sessions, Served(s), \A t \in Sessions \ {s} : req'[t] = req[t],
               ~(Revoking(i)' \subseteq Revoking(i))
        PROVE  UNCHANGED tokens /\ i \in DOMAIN tokens /\ ~tokens[i].revoked
    <2>1. req'[s].op = "refresh" /\ req'[s].at = "revoke" /\ req'[s].row = i
      BY <1>5 DEF Revoking, Running
    <2>2. FindToken(s, i) /\ req[s].op = "refresh" BY <1>2, <1>5, <2>1
    <2> QED BY <2>2 DEF FindToken, RowsOf, tables, signInVars
  <1>6. Revoking(i)' \subseteq Sessions BY DEF Revoking
  <1> QED BY <1>3, <1>4, <1>5, <1>6, OneServed

LEMMA RotationKept == ASSUME TypeInv, RotationInv, Next PROVE RotationInv'
  <1> DEFINE n == Cardinality(Sessions)
             N == Len(tokens)
  <1>1. /\ N \in Nat /\ DOMAIN tokens = 1..N /\ Len(tokens') \in Nat /\ DOMAIN tokens' = 1..Len(tokens')
        /\ \A i \in 1..N : tokens'[i].from = tokens[i].from
        /\ req \in [Sessions -> Calls]
    BY TablesGrow DEF TypeInv, TablesOK, Grows, CallsKept
  <1>2. IsFiniteSet(Sessions) /\ n \in Nat BY AccountsAssumption, FS_CardinalityType
  <1>3. ASSUME NEW i PROVE IsFiniteSet(Children(i)) /\ Cardinality(Children(i)) \in Nat
    <2>1. Children(i) \in SUBSET (1..N) BY <1>1 DEF Children
    <2>2. IsFiniteSet(1..N) BY <1>1, FS_Interval
    <2>3. IsFiniteSet(Children(i)) BY <2>1, <2>2, FS_Subset
    <2> QED BY <2>3, FS_CardinalityType
  <1>4. ASSUME NEW T \in SUBSET Sessions, NEW S \in SUBSET T
        PROVE  /\ Cardinality(S) <= Cardinality(T) /\ Cardinality(T) <= n
               /\ Cardinality(S) \in Nat /\ Cardinality(T) \in Nat /\ IsFiniteSet(T)
    <2>1. IsFiniteSet(T) /\ Cardinality(T) <= n BY <1>2, FS_Subset
    <2>2. IsFiniteSet(S) /\ Cardinality(S) <= Cardinality(T) BY <2>1, FS_Subset
    <2> QED BY <2>1, <2>2, FS_CardinalityType
  <1>5. \A i : Revoking(i) \in SUBSET Sessions /\ Revoking(i)' \in SUBSET Sessions BY DEF Revoking
  <1>6. Cardinality({}) = 0 BY FS_EmptySet
  <1> HIDE DEF n, N
  <1> DEFINE Old(i) == /\ tokens[i].from < i
                       /\ ~tokens[i].revoked => Children(i) = {}
                       /\ Cardinality(Children(i)) + Cardinality(Revoking(i)) <= n
             New(i) == /\ tokens'[i].from < i
                       /\ ~tokens'[i].revoked => Children(i)' = {}
                       /\ Cardinality(Children(i)') + Cardinality(Revoking(i)') <= n
  <1>7. \A i \in 1..N : Old(i) BY <1>1 DEF RotationInv, n
  <1>8. ASSUME NEW i \in 1..N, Children(i)' = Children(i), Revoking(i)' \subseteq Revoking(i),
               ~tokens'[i].revoked => ~tokens[i].revoked
        PROVE  New(i)
    <2>1. Cardinality(Revoking(i)') <= Cardinality(Revoking(i))
          /\ Cardinality(Revoking(i)') \in Nat /\ Cardinality(Revoking(i)) \in Nat
      BY <1>4, <1>5, <1>8
    <2>2. Cardinality(Children(i)) \in Nat BY <1>3
    <2>3. tokens'[i].from = tokens[i].from /\ Old(i) BY <1>1, <1>7
    <2>4. Cardinality(Children(i)') = Cardinality(Children(i)) BY <1>8
    <2>5. Cardinality(Children(i)') + Cardinality(Revoking(i)') <= n BY <1>2, <2>1, <2>2, <2>3, <2>4
    <2> QED BY <1>8, <2>3, <2>5
  <1>9. ASSUME NEW m, m = N + 1, Len(tokens') = m, tokens'[m].from < m, \A i \in 1..N : New(i)
        PROVE  RotationInv'
    <2>1. DOMAIN tokens' = 1..N \cup {m} BY <1>1, <1>9 DEF N
    <2>2. Children(m)' = {}
      <3>1. ASSUME NEW j \in 1..N \cup {m}, tokens'[j].from = m PROVE FALSE
        <4>1. j \in 1..N BY <1>1, <1>9, <3>1 DEF N
        <4>2. tokens'[j].from < j BY <1>1, <1>7, <4>1 DEF N
        <4> QED BY <1>1, <1>9, <3>1, <4>1, <4>2 DEF N
      <3> QED BY <2>1, <3>1 DEF Children
    <2>3. Cardinality(Children(m)') = 0 BY <1>6, <2>2
    <2>4. Cardinality(Revoking(m)') <= n /\ Cardinality(Revoking(m)') \in Nat BY <1>4, <1>5
    <2>5. Cardinality(Children(m)') + Cardinality(Revoking(m)') <= n BY <1>2, <2>3, <2>4
    <2>6. New(m) BY <1>9, <2>2, <2>5
    <2> QED BY <1>9, <2>1, <2>6 DEF RotationInv, n
  <1>10. CASE UNCHANGED tokens
    <2>1. \A i : Children(i)' = Children(i) BY <1>10 DEF Children
    <2>2. ASSUME NEW i \in 1..N PROVE New(i)
      <3>1. CASE Revoking(i)' \subseteq Revoking(i) BY <1>8, <1>10, <2>1, <3>1
      <3>2. CASE ~tokens[i].revoked
        <4>1. Children(i)' = {} /\ tokens'[i].from < i BY <1>7, <1>10, <2>1, <3>2
        <4>2. Cardinality(Revoking(i)') <= n /\ Cardinality(Revoking(i)') \in Nat BY <1>4, <1>5
        <4> QED BY <1>2, <1>6, <4>1, <4>2
      <3> QED BY <3>1, <3>2, RevokingSteps
    <2> QED BY <1>1, <1>10, <2>2 DEF RotationInv, N, n
  <1>11. ASSUME ~UNCHANGED tokens PROVE \A i : Revoking(i)' \subseteq Revoking(i)
    BY <1>11, RevokingSteps
  <1>12. ASSUME NEW s \in Sessions, SignsIn(s) PROVE RotationInv'
    <2>1. /\ Len(tokens') = N + 1 /\ tokens'[N + 1].from = 0
          /\ \A i \in 1..N : tokens'[i] = tokens[i]
      BY <1>12 DEF SignsIn, Minted, N
    <2>2. ~UNCHANGED tokens BY <1>1, <2>1 DEF N
    <2>3. \A i \in 1..N : Children(i)' = Children(i) BY <1>1, <2>1 DEF Children, N
    <2>4. ASSUME NEW i \in 1..N PROVE New(i)
      <3>1. Revoking(i)' \subseteq Revoking(i) BY <1>11, <2>2
      <3>2. Children(i)' = Children(i) /\ tokens'[i] = tokens[i] BY <2>1, <2>3
      <3> QED BY <1>8, <3>1, <3>2
    <2>5. N + 1 = Len(tokens') /\ tokens'[N + 1].from < N + 1 BY <1>1, <2>1 DEF N
    <2> QED BY <1>9, <2>1, <2>4, <2>5
  <1>13. ASSUME NEW s \in Sessions, Rotates(s), NEW r, r = req[s].row, NEW m, m = N + 1
         PROVE  RotationInv'
    <2>1. /\ r \in 1..N /\ Len(tokens') = m /\ tokens'[m].from = r
          /\ \A i \in 1..N : i # r => tokens'[i] = tokens[i]
          /\ tokens'[r].revoked
      BY <1>13 DEF Rotates, Minted, Spent, N
    <2>2. ~UNCHANGED tokens BY <1>1, <1>13, <2>1 DEF N
    <2>3. s \in Revoking(r) /\ s \notin Revoking(r)'
      <3>1. Running(s, "refresh", "revoke") BY <1>13 DEF Rotates, Rotate
      <3>2. req'[s].op = "idle" BY <1>1, <1>13, CallOver DEF Rotates
      <3> QED BY <1>13, <3>1, <3>2 DEF Revoking, Running
    <2>4. \A i \in 1..N : i # r => Children(i)' = Children(i) BY <1>1, <1>13, <2>1 DEF Children, N
    <2>5. ASSUME NEW i \in 1..N, i # r PROVE New(i)
      <3>1. Revoking(i)' \subseteq Revoking(i) BY <1>11, <2>2
      <3>2. Children(i)' = Children(i) /\ tokens'[i] = tokens[i] BY <2>1, <2>4, <2>5
      <3> QED BY <1>8, <3>1, <3>2
    <2>6. tokens'[m].from < m BY <1>1, <1>13, <2>1 DEF N
    <2>7. New(r)
      <3>1. Children(r)' = Children(r) \cup {m}
        <4>1. DOMAIN tokens' = 1..N \cup {m} BY <1>1, <1>13, <2>1 DEF N
        <4>2. \A i \in 1..N : tokens'[i].from = tokens[i].from BY <1>1 DEF N
        <4>3. DOMAIN tokens = 1..N BY <1>1 DEF N
        <4> QED BY <2>1, <4>1, <4>2, <4>3 DEF Children
      <3>2. m \notin Children(r) BY <1>1, <1>13 DEF Children, N
      <3>3. Cardinality(Children(r)') = Cardinality(Children(r)) + 1
        <4>1. IsFiniteSet(Children(r)) BY <1>3
        <4>2. Cardinality(Children(r) \cup {m}) = Cardinality(Children(r)) + 1
          BY <3>2, <4>1, FS_AddElement
        <4> QED BY <3>1, <4>2
      <3>4. Revoking(r)' \in SUBSET (Revoking(r) \ {s}) BY <1>11, <2>2, <2>3
      <3>5. Cardinality(Revoking(r) \ {s}) = Cardinality(Revoking(r)) - 1
        BY <1>4, <1>5, <2>3, FS_RemoveElement
      <3>6. Revoking(r) \ {s} \in SUBSET Sessions BY <1>5
      <3>7. Cardinality(Revoking(r)') <= Cardinality(Revoking(r) \ {s}) /\ Cardinality(Revoking(r)') \in Nat
        BY <1>4, <3>4, <3>6
      <3>8. Cardinality(Revoking(r)) \in Nat BY <1>4, <1>5
      <3>9. Old(r) /\ tokens'[r].from = tokens[r].from BY <1>1, <1>7, <2>1
      <3>10. Cardinality(Children(r)) \in Nat BY <1>3
      <3>11. Cardinality(Children(r)') + Cardinality(Revoking(r)') <= n
        BY <1>2, <3>3, <3>5, <3>7, <3>8, <3>9, <3>10
      <3> QED BY <2>1, <3>9, <3>11
    <2> QED BY <1>9, <1>13, <2>1, <2>5, <2>6, <2>7
  <1>14. ASSUME NEW s \in Sessions, EndsRow(s) PROVE RotationInv'
    <2> DEFINE r == req[s].row
    <2>1. /\ r \in 1..N /\ Len(tokens') = N
          /\ \A i \in 1..N : i # r => tokens'[i] = tokens[i]
          /\ tokens'[r].revoked
      BY <1>14 DEF EndsRow, Spent, N
    <2> HIDE DEF r
    <2>2. CASE ~UNCHANGED tokens
      <3>1. \A i : Children(i)' = Children(i) BY <1>1, <2>1 DEF Children, N
      <3>2. \A i \in 1..N : New(i) BY <1>8, <1>11, <2>1, <2>2, <3>1
      <3> QED BY <1>1, <2>1, <3>2 DEF RotationInv, N, n
    <2> QED BY <1>10, <2>2
  <1> QED BY <1>10, <1>12, <1>13, <1>14, TokenSteps

-----------------------------------------------------------------------------
(* One-time codes *)

\* Statuses and uses stay, but for k.
CodesStay(k) == \A j \in 1..Len(otp) : j # k =>
  otp'[j].status = otp[j].status /\ otp'[j].uses = otp[j].uses

\* s, which held k, has used it, or marked it VERIFIED.
Uses(s, k) == /\ k \in 1..Len(otp) /\ Len(otp') = Len(otp) /\ CodesStay(k)
              /\ Holds(req[s], k) /\ ~Holds(req'[s], k)
              /\ \/ otp'[k].status = "USED" /\ otp'[k].uses = otp[k].uses + 1
                 \/ otp'[k].status = "VERIFIED" /\ otp'[k].uses = 0

LEMMA CodeSteps ==
  ASSUME TypeInv, Next
  PROVE  \/ UNCHANGED otp
         \/ /\ CodesStay(0)
            /\ \A k \in Len(otp) + 1..Len(otp') : otp'[k].status # "USED" /\ otp'[k].uses = 0
         \/ \E s \in Sessions, k \in 1..Len(otp) : Uses(s, k)
  <1> DEFINE Goal == \/ UNCHANGED otp
                     \/ /\ CodesStay(0)
                        /\ \A k \in Len(otp) + 1..Len(otp') : otp'[k].status # "USED" /\ otp'[k].uses = 0
                     \/ \E s \in Sessions, k \in 1..Len(otp) : Uses(s, k)
  <1>1. /\ otp \in Seq(Codes) /\ Len(otp) \in Nat
        /\ \A k \in 1..Len(otp) : otp[k] \in Codes
        /\ req \in [Sessions -> Calls] /\ \A s \in Sessions : Kept(req[s])
    BY DEF TypeInv, TablesOK, CallsKept, Kept
  <1>2. ASSUME NEW k \in 1..Len(otp), NEW row, otp' = [otp EXCEPT ![k] = row]
        PROVE  Len(otp') = Len(otp) /\ CodesStay(k) /\ otp'[k] = row
    BY <1>1, <1>2 DEF CodesStay
  <1>3. ASSUME NEW k \in 1..Len(otp), NEW row, otp' = [otp EXCEPT ![k] = row],
               row.status = otp[k].status, row.uses = otp[k].uses
        PROVE  Goal
    <2>1. CodesStay(0) /\ Len(otp') = Len(otp) BY <1>1, <1>2, <1>3 DEF CodesStay
    <2> QED BY <1>1, <2>1
  <1>4. ASSUME NEW ph, NEW status \in {"open", "PENDING"}, InsertCode(ph, status) PROVE Goal
    <2> DEFINE row == [phone |-> ph, status |-> status, age |-> 0, sent |-> FALSE, uses |-> 0]
    <2>1. otp' = Append(otp, row) /\ row.status # "USED" /\ row.uses = 0 BY <1>4 DEF InsertCode
    <2> HIDE DEF row
    <2>2. Len(otp') = Len(otp) + 1 /\ otp'[Len(otp) + 1] = row BY <1>1, <2>1
    <2>3. CodesStay(0) BY <1>1, <2>1 DEF CodesStay
    <2> QED BY <1>1, <2>1, <2>2, <2>3
  <1>5. CASE CodeAges
    <2>1. PICK k \in DOMAIN otp : otp' = [otp EXCEPT ![k] = [otp[k] EXCEPT !.age = otp[k].age + 1]]
      BY <1>5 DEF CodeAges
    <2>2. k \in 1..Len(otp) /\ otp[k] \in Codes BY <1>1, <2>1
    <2>3. [otp[k] EXCEPT !.age = otp[k].age + 1].status = otp[k].status
          /\ [otp[k] EXCEPT !.age = otp[k].age + 1].uses = otp[k].uses
      BY <2>2 DEF Codes
    <2> QED BY <1>3, <2>1, <2>2, <2>3
  <1>6. ASSUME NEW s \in Sessions, Deliver(s) PROVE Goal
    <2>1. req[s].code \in 1..Len(otp) BY <1>1, <1>6 DEF Deliver, Running, Kept, CallKept, Knows
    <2>2. otp' = otp \/ otp' = [otp EXCEPT ![req[s].code] = [otp[req[s].code] EXCEPT !.sent = TRUE]]
      BY <1>6 DEF Deliver
    <2>3. [otp[req[s].code] EXCEPT !.sent = TRUE].status = otp[req[s].code].status
          /\ [otp[req[s].code] EXCEPT !.sent = TRUE].uses = otp[req[s].code].uses
      BY <1>1, <2>1 DEF Codes
    <2> QED BY <1>3, <2>1, <2>2, <2>3
  <1>7. ASSUME NEW s \in Sessions, InsertTelegramSession(s) PROVE Goal
    BY <1>4, <1>7 DEF InsertTelegramSession
  <1>8. ASSUME NEW s \in Sessions, NEW ph \in Phones, BeginSendOtp(s, ph) PROVE Goal
    BY <1>4, <1>8 DEF BeginSendOtp
  <1>9. ASSUME NEW s \in Sessions, MarkVerified(s) PROVE Goal
    <2> DEFINE k == req[s].code
               row == [otp[k] EXCEPT !.status = "VERIFIED", !.uses = 0]
    <2>1. req[s].at = "login" /\ Reply(s) BY <1>9 DEF MarkVerified
    <2>2. Holds(req[s], k) /\ k \in 1..Len(otp) BY <1>1, <2>1 DEF Holds, Kept, CallKept, Knows
    <2>3. otp' = [otp EXCEPT ![k] = row] BY <1>1, <1>9, <2>2 DEF MarkVerified, Codes
    <2>4. row.status = "VERIFIED" /\ row.uses = 0 BY <1>1, <2>2 DEF Codes
    <2>5. ~Holds(req'[s], k) BY <1>1, <2>1, RequestSteps, CallOver DEF Ends
    <2> HIDE DEF k, row
    <2> QED BY <1>2, <2>2, <2>3, <2>4, <2>5 DEF Uses
  <1>10. ASSUME NEW s \in Sessions, LogIn(s) \/ InsertRegistered(s) PROVE Goal
    <2> DEFINE k == req[s].code
               row == [otp[k] EXCEPT !.status = "USED", !.uses = otp[k].uses + 1]
    <2>1. CASE UNCHANGED otp BY <2>1
    <2>2. CASE otp' = Use(k) /\ Answers(s)
      <3>1. Holds(req[s], k) BY <1>10 DEF LogIn, InsertRegistered, Running, Holds
      <3>2. k \in 1..Len(otp) BY <1>1, <3>1 DEF Kept, CallKept, Knows
      <3>3. otp' = [otp EXCEPT ![k] = row] BY <1>1, <2>2, <3>2 DEF Use, Codes
      <3>4. row.status = "USED" /\ row.uses = otp[k].uses + 1 BY <1>1, <3>2 DEF Codes
      <3>5. ~Holds(req'[s], k) BY <1>1, <2>2, CallOver DEF Answers
      <3> HIDE DEF k, row
      <3> QED BY <1>2, <3>1, <3>2, <3>3, <3>4, <3>5 DEF Uses
    <2> QED BY <1>10, <2>1, <2>2 DEF LogIn, InsertRegistered, tables, signInVars, Answers
  <1> QED BY <1>1, <1>5, <1>6, <1>7, <1>8, <1>9, <1>10, StepsWrite DEF Frames

\* A code that is used finds no new holder.
LEMMA HolderSteps ==
  ASSUME TypeInv, Next, NEW k \in 1..Len(otp)
  PROVE  Holders(k)' \subseteq Holders(k) \/ (UNCHANGED otp /\ otp[k].status # "USED")
  <1>1. req \in [Sessions -> Calls] /\ Len(otp) \in Nat BY DEF TypeInv, CallsKept, TablesOK
  <1>2. ASSUME NEW s \in Sessions, Served(s), Holds(req'[s], k)
        PROVE  Holds(req[s], k) \/ (otp[k].status # "USED" /\ UNCHANGED otp)
    <2>1. ~Ends(s) /\ ~Answers(s) BY <1>1, <1>2, CallOver DEF Answers
    <2>2. k # Len(otp) + 1 BY <1>1
    <2> QED BY <1>2, <2>1, <2>2 DEF Served, Starts, Goes
  <1>3. CASE UNCHANGED req BY <1>3 DEF Holders, Holds
  <1>4. CASE \A s \in Sessions : Ends(s) BY <1>1, <1>4, CallOver DEF Holders
  <1>5. ASSUME NEW s \in Sessions, Served(s), \A t \in Sessions \ {s} : req'[t] = req[t],
               ~(Holders(k)' \subseteq Holders(k))
        PROVE  UNCHANGED otp /\ otp[k].status # "USED"
    <2>1. PICK t \in Sessions : Holds(req'[t], k) /\ ~Holds(req[t], k)
      BY <1>5 DEF Holders, Holds
    <2> QED BY <1>2, <1>5, <2>1
  <1> QED BY <1>3, <1>4, <1>5, OneServed

LEMMA CodesKept == ASSUME TypeInv, CodesInv, Next PROVE CodesInv'
  <1> DEFINE n == Cardinality(Sessions)
             N == Len(otp)
             Old(k) == IF otp[k].status = "USED" THEN otp[k].uses + Cardinality(Holders(k)) <= n
                       ELSE otp[k].uses = 0
             New(k) == IF otp'[k].status = "USED" THEN otp'[k].uses + Cardinality(Holders(k)') <= n
                       ELSE otp'[k].uses = 0
  <1>1. /\ N \in Nat /\ DOMAIN otp = 1..N /\ Len(otp') \in Nat /\ DOMAIN otp' = 1..Len(otp')
        /\ N <= Len(otp')
        /\ \A k \in 1..N : otp[k].uses \in Nat
    <2>1. otp \in Seq(Codes) /\ otp' \in Seq(Codes) /\ Len(otp) <= Len(otp')
      BY TablesGrow DEF TypeInv, TablesOK, Grows
    <2>2. \A row \in Codes : row.uses \in Nat BY DEF Codes
    <2> HIDE DEF Codes
    <2> QED BY <2>1, <2>2
  <1>2. IsFiniteSet(Sessions) /\ n \in Nat BY AccountsAssumption, FS_CardinalityType
  <1>3. ASSUME NEW T \in SUBSET Sessions, NEW S \in SUBSET T
        PROVE  /\ Cardinality(S) <= Cardinality(T) /\ Cardinality(T) <= n
               /\ Cardinality(S) \in Nat /\ Cardinality(T) \in Nat /\ IsFiniteSet(T)
    <2>1. IsFiniteSet(T) /\ Cardinality(T) <= n BY <1>2, FS_Subset
    <2>2. IsFiniteSet(S) /\ Cardinality(S) <= Cardinality(T) BY <2>1, FS_Subset
    <2> QED BY <2>1, <2>2, FS_CardinalityType
  <1>4. \A k : Holders(k) \in SUBSET Sessions /\ Holders(k)' \in SUBSET Sessions BY DEF Holders
  <1>5. \A k \in 1..N : Old(k) BY <1>1 DEF CodesInv
  <1> SUFFICES \A k \in 1..Len(otp') : New(k) BY <1>1 DEF CodesInv
  <1> HIDE DEF n, N
  <1>6. ASSUME NEW k \in 1..N, otp'[k].status = otp[k].status, otp'[k].uses = otp[k].uses
        PROVE  New(k)
    <2>1. CASE otp[k].status = "USED"
      <3>1. Holders(k)' \subseteq Holders(k) BY <2>1, HolderSteps DEF N
      <3>2. /\ Cardinality(Holders(k)') <= Cardinality(Holders(k))
            /\ Cardinality(Holders(k)') \in Nat /\ Cardinality(Holders(k)) \in Nat
        BY <1>3, <1>4, <3>1
      <3>3. otp[k].uses + Cardinality(Holders(k)) <= n /\ otp[k].uses \in Nat BY <1>1, <1>5, <2>1 DEF N
      <3>4. otp[k].uses + Cardinality(Holders(k)') <= n BY <1>2, <3>2, <3>3
      <3> QED BY <1>6, <2>1, <3>4
    <2>2. CASE otp[k].status # "USED" BY <1>5, <1>6, <2>2
    <2> QED BY <2>1, <2>2
  <1>7. CASE UNCHANGED otp BY <1>6, <1>7 DEF N
  <1>8. CASE /\ CodesStay(0)
             /\ \A k \in N + 1..Len(otp') : otp'[k].status # "USED" /\ otp'[k].uses = 0
    <2>1. \A k \in 1..N : New(k) BY <1>1, <1>6, <1>8 DEF CodesStay, N
    <2>2. \A k \in N + 1..Len(otp') : New(k) BY <1>8
    <2>3. \A k \in 1..Len(otp') : k \in 1..N \/ k \in N + 1..Len(otp') BY <1>1 DEF N
    <2> QED BY <2>1, <2>2, <2>3
  <1>9. ASSUME NEW s \in Sessions, NEW k \in 1..N, Uses(s, k) PROVE \A j \in 1..Len(otp') : New(j)
    <2>1. CASE UNCHANGED otp BY <1>7, <2>1
    <2>2. CASE ~UNCHANGED otp
      <3>1. \A j \in 1..N : j # k => New(j) BY <1>6, <1>9 DEF Uses, CodesStay, N
      <3>2. New(k)
        <4>1. CASE otp'[k].status = "VERIFIED" /\ otp'[k].uses = 0 BY <4>1
        <4>2. CASE otp'[k].status = "USED" /\ otp'[k].uses = otp[k].uses + 1
          <5>1. Holders(k)' \subseteq Holders(k) BY <2>2, HolderSteps DEF N
          <5>2. s \in Holders(k) /\ s \notin Holders(k)' BY <1>9 DEF Uses, Holders, Holds
          <5>3. Holders(k)' \in SUBSET (Holders(k) \ {s}) BY <5>1, <5>2
          <5>4. Holders(k) \ {s} \in SUBSET Sessions BY <1>4
          <5>5. Cardinality(Holders(k)') <= Cardinality(Holders(k) \ {s}) /\ Cardinality(Holders(k)') \in Nat
            BY <1>3, <5>3, <5>4
          <5>6. IsFiniteSet(Holders(k)) /\ Cardinality(Holders(k)) \in Nat /\ Cardinality(Holders(k)) <= n
            BY <1>3, <1>4
          <5>7. Cardinality(Holders(k) \ {s}) = Cardinality(Holders(k)) - 1
            BY <5>2, <5>6, FS_RemoveElement
          <5>8. /\ otp[k].uses \in Nat
                /\ otp[k].uses = 0 \/ otp[k].uses + Cardinality(Holders(k)) <= n
            BY <1>1, <1>5 DEF N
          <5>9. otp[k].uses + 1 + Cardinality(Holders(k)') <= n
            BY <1>2, <5>5, <5>6, <5>7, <5>8
          <5> QED BY <4>2, <5>9
        <4> QED BY <1>9, <4>1, <4>2 DEF Uses
      <3>3. Len(otp') = N BY <1>9 DEF Uses, N
      <3> QED BY <3>1, <3>2, <3>3
    <2> QED BY <2>1, <2>2
  <1> QED BY <1>7, <1>8, <1>9, CodeSteps DEF N

-----------------------------------------------------------------------------
(* Telegram's tickets *)

TicketInv(f) ==
  /\ Flow(f).redeemed \in {0, 1}
  /\ Flow(f).at \in {"new", "pending"} => Flow(f).redeemed = 0
  /\ Flow(f).at = "ticket" /\ Flow(f).redeemed = 1 => f \in telegram.used
  /\ \A s \in Sessions : Calling(s, f) => /\ Flow(f).at = "over" /\ Flow(f).redeemed = 0
                                          /\ \A t \in Sessions : Calling(t, f) => t = s

LEMMA CallingSteps ==
  ASSUME TypeInv, Next, NEW s \in Sessions, NEW f, Calling(s, f)'
  PROVE  Calling(s, f) \/ HandleCallback(s, f)
  <1>1. req \in [Sessions -> Calls] BY DEF TypeInv, CallsKept
  <1>2. CASE Served(s)
    <2>1. ~Ends(s) /\ ~Answers(s) BY <1>1, CallOver DEF Answers, Calling
    <2> QED BY <1>2, <2>1 DEF Served, Starts, Goes, Calling
  <1>3. CASE req'[s] = req[s] BY <1>3 DEF Calling
  <1> QED BY <1>2, <1>3, OneServed DEF Served

LEMMA TicketsKept == ASSUME TypeInv, TicketsInv, Next PROVE TicketsInv'
  <1>1. \A f \in Flows : TicketInv(f) BY DEF TicketsInv, TicketInv
  <1>2. SUFFICES ASSUME NEW f \in Flows PROVE TicketInv(f)' BY DEF TicketsInv, TicketInv
  <1>3. /\ TelegramTypeOK /\ req \in [Sessions -> Calls] /\ Flow(f) \in FlowRows
        /\ TicketInv(f)
    BY <1>1 DEF TypeInv, CallsKept, TelegramTypeOK, Flow
  <1>4. ASSUME Flow(f)' = Flow(f),
               f \in telegram.used /\ Flow(f).at = "ticket" => f \in telegram'.used
        PROVE  TicketInv(f)'
    <2>1. \A s \in Sessions : Calling(s, f)' => Calling(s, f)
      <3>1. ASSUME NEW s \in Sessions, HandleCallback(s, f) PROVE FALSE
        <4>1. Flow(f).at = "pending" /\ Flow(f)'.at = "over"
          BY <1>3, <3>1, AccountsAssumption, FlowSet DEF HandleCallback
        <4> QED BY <1>4, <4>1
      <3> QED BY <3>1, CallingSteps
    <2> QED BY <1>3, <1>4, <2>1 DEF TicketInv
  <1>5. ASSUME NEW g \in Flows, NEW at \in {"pending", "over"}, NEW ph \in Phones \cup {None},
               SetFlow(g, at, ph), at = "pending" => Flow(g).at = "new",
               Flow(g).at \in {"new", "pending", "ticket"}
        PROVE  TicketInv(f)'
    <2>1. CASE f # g BY <1>3, <1>4, <1>5, <2>1, FlowSet
    <2>2. CASE f = g
      <3>1. Flow(f)'.at = at /\ Flow(f)'.redeemed = Flow(f).redeemed BY <1>3, <1>5, <2>2, FlowSet
      <3>2. \A s \in Sessions : ~Calling(s, f) BY <1>3, <1>5, <2>2 DEF TicketInv
      <3>3. ASSUME NEW s \in Sessions, Calling(s, f)'
            PROVE  /\ Flow(f).at = "pending" /\ Flow(f)'.at = "over"
                   /\ \A t \in Sessions : Calling(t, f)' => t = s
        <4>1. HandleCallback(s, f) BY <3>2, <3>3, CallingSteps
        <4>2. Flow(f).at = "pending" /\ req'= [req EXCEPT ![s] = req'[s]]
          BY <1>3, <4>1 DEF HandleCallback, Begin
        <4>3. \A t \in Sessions \ {s} : ~Calling(t, f)' BY <1>3, <3>2, <4>2 DEF Calling
        <4>4. at = "over" BY <1>5, <2>2, <4>2
        <4> QED BY <3>1, <4>2, <4>3, <4>4
      <3> QED BY <1>3, <1>5, <2>2, <3>1, <3>3 DEF TicketInv
    <2> QED BY <2>1, <2>2
  <1>6. CASE UNCHANGED telegram BY <1>4, <1>6 DEF Flow
  <1>7. CASE Restart
    <2>1. /\ Flow(f)'.redeemed = 0
      BY <1>3, <1>7, FlowsRestarted
    <2>2. \A s \in Sessions : ~Calling(s, f)'
      BY <1>3, <1>7 DEF Restart, Calling, NoCall
    <2> QED BY <2>1, <2>2 DEF TicketInv
  <1>8. ASSUME NEW s \in Sessions, Exchange(s) PROVE TicketInv(f)'
    <2> DEFINE g == req[s].flow
    <2>1. CASE UNCHANGED telegram BY <1>6, <2>1
    <2>2. ASSUME NEW ph \in Phones, SetFlow(g, "ticket", ph) PROVE TicketInv(f)'
      <3>1. g \in Flows /\ Calling(s, g)
        BY <1>8 DEF Exchange, Running, TypeInv, CallsKept, CallKept, Knows, Calling
      <3>2. CASE f # g BY <1>3, <1>4, <2>2, <3>1, <3>2, FlowSet
      <3>3. CASE f = g
        <4>1. Flow(f)'.at = "ticket" /\ Flow(f)'.redeemed = Flow(f).redeemed
          BY <1>3, <2>2, <3>1, <3>3, FlowSet
        <4>2. Flow(f).redeemed = 0 /\ Flow(f).at = "over"
              /\ \A t \in Sessions : Calling(t, f) => t = s
          BY <1>3, <3>1, <3>3 DEF TicketInv
        <4>3. ~Calling(s, f)' BY <1>3, <1>8, RequestSteps, CallOver DEF Exchange, Ends, Calling
        <4>4. \A t \in Sessions : ~HandleCallback(t, f) BY <4>2 DEF HandleCallback
        <4>5. \A t \in Sessions : ~Calling(t, f)' BY <4>2, <4>3, <4>4, CallingSteps
        <4> QED BY <4>1, <4>2, <4>5 DEF TicketInv
      <3> QED BY <3>2, <3>3
    <2> QED BY <1>8, <2>1, <2>2 DEF Exchange
  <1>9. ASSUME NEW s \in Sessions, NEW g \in Flows, HandleCallback(s, g) PROVE TicketInv(f)'
    <2>1. SetFlow(g, "over", None) /\ Flow(g).at = "pending" BY <1>9 DEF HandleCallback
    <2> QED BY <1>5, <2>1
  <1>10. ASSUME NEW s \in Sessions, NEW g \in Flows, RedeemTicket(s, g) PROVE TicketInv(f)'
    <2>1. /\ telegram'.used = Unexpired(telegram.used) \cup {g}
          /\ \A h \in Flows \ {g} : Flow(h)' = Flow(h)
          /\ Flow(g)'.at = "ticket" /\ Flow(g)'.redeemed = Flow(g).redeemed + 1
      BY <1>3, <1>10, TicketRedeemed
    <2>2. CASE f # g
      <3>1. f \in telegram.used /\ Flow(f).at = "ticket" => f \in telegram'.used
        BY <2>1 DEF Unexpired
      <3> QED BY <1>4, <2>1, <2>2, <3>1
    <2>3. CASE f = g
      <3>1. Flow(f).at = "ticket" /\ f \notin telegram.used BY <1>10, <2>3 DEF RedeemTicket, Unexpired
      <3>2. Flow(f).redeemed = 0 BY <1>3, <3>1 DEF TicketInv
      <3>3. \A t \in Sessions : ~Calling(t, f) BY <1>3, <3>1 DEF TicketInv
      <3>4. \A t \in Sessions : ~HandleCallback(t, f) BY <3>1 DEF HandleCallback
      <3>5. \A t \in Sessions : ~Calling(t, f)' BY <3>3, <3>4, CallingSteps
      <3> QED BY <2>1, <2>3, <3>2, <3>5 DEF TicketInv
    <2> QED BY <2>2, <2>3
  <1>11. ASSUME NEW g \in Flows, FlowExpires(g) \/ BuildAuthUrl(g) PROVE TicketInv(f)'
    <2>1. Flow(g).phone \in Phones \cup {None} BY <1>3 DEF TelegramTypeOK, FlowRows, Flow
    <2>2. PICK at \in {"pending", "over"}, ph \in Phones \cup {None} :
            /\ SetFlow(g, at, ph) /\ (at = "pending" => Flow(g).at = "new")
            /\ Flow(g).at \in {"new", "pending", "ticket"}
      BY <1>11, <2>1 DEF FlowExpires, BuildAuthUrl
    <2> QED BY <1>5, <2>2
  <1> QED BY <1>3, <1>6, <1>7, <1>8, <1>9, <1>10, <1>11, StepsWrite DEF Frames

-----------------------------------------------------------------------------
(* Which tokens apps and requests hold *)

LEMMA RowsStay ==
  ASSUME TypeInv, Next, NEW T
  PROVE  /\ RowsOf(T) \subseteq RowsOf(T)' /\ (Several(T) => Several(T)')
         /\ RowsOf(T) \subseteq 1..Len(tokens) /\ Len(tokens) \in Nat
  <1>1. tokens \in Seq(TokenRows) BY DEF TypeInv, TablesOK
  <1>2. RowsOf(T) \subseteq RowsOf(T)' BY TablesGrow DEF Grows, RowsOf, TokenOf
  <1>3. RowsOf(T) \subseteq 1..Len(tokens) BY <1>1 DEF RowsOf
  <1> QED BY <1>1, <1>2, <1>3 DEF Several

\* A token is revoked by the request that presented it.
LEMMA RevokedBy ==
  ASSUME TypeInv, Next, NEW T, Revoked(T)', ~Revoked(T)
  PROVE  \E s \in Sessions : /\ req[s].token = T /\ req[s].at = "revoke"
                             /\ \/ Rotates(s) /\ tokens[req[s].row].account = T[1]
                                \/ EndsRow(s) /\ req[s].op = "logout"
  <1>1. PICK i \in RowsOf(T)' : tokens'[i].revoked BY DEF Revoked
  <1>2. /\ Len(tokens) \in Nat /\ DOMAIN tokens = 1..Len(tokens)
        /\ Len(tokens') \in Nat /\ DOMAIN tokens' = 1..Len(tokens')
        /\ \A j \in DOMAIN tokens : tokens'[j].account = tokens[j].account /\ tokens'[j].second = tokens[j].second
        /\ req \in [Sessions -> Calls] /\ \A s \in Sessions : KnowsToken(req[s], tokens)
    BY TablesGrow DEF TypeInv, TablesOK, Grows, CallsKept, CallKept
  <1>3. i \in 1..Len(tokens') /\ <<tokens'[i].account, tokens'[i].second>> = T
    BY <1>1, <1>2 DEF RowsOf, TokenOf
  <1>4. i \in 1..Len(tokens) => ~tokens[i].revoked
    BY <1>2, <1>3 DEF Revoked, RowsOf, TokenOf
  <1>5. ~UNCHANGED tokens BY <1>1, <1>2, <1>3, <1>4
  <1>6. ASSUME NEW a, NEW from, Minted(a, from) PROVE i \in 1..Len(tokens)
    <2>1. Len(tokens') = Len(tokens) + 1 /\ ~tokens'[Len(tokens) + 1].revoked BY <1>6 DEF Minted
    <2> QED BY <1>1, <1>2, <1>3, <2>1
  <1>7. ASSUME NEW s \in Sessions, Spent(req[s].row), req[s].at = "revoke", i \in 1..Len(tokens)
        PROVE  req[s].token = T /\ tokens[req[s].row].account = T[1]
    <2>1. i = req[s].row BY <1>1, <1>4, <1>7 DEF Spent
    <2>2. <<tokens[i].account, tokens[i].second>> = T BY <1>2, <1>3, <1>7
    <2>3. i \in RowsIn(tokens, req[s].token) BY <1>2, <1>7, <2>1 DEF KnowsToken
    <2> QED BY <2>1, <2>2, <2>3 DEF RowsIn
  <1>8. ASSUME NEW s \in Sessions, SignsIn(s) PROVE FALSE
    BY <1>1, <1>4, <1>6, <1>8 DEF SignsIn
  <1>9. ASSUME NEW s \in Sessions, Rotates(s)
        PROVE  req[s].token = T /\ req[s].at = "revoke" /\ tokens[req[s].row].account = T[1]
    <2>1. req[s].at = "revoke" /\ Spent(req[s].row) BY <1>9 DEF Rotates, Rotate, Running
    <2>2. i \in 1..Len(tokens) BY <1>6, <1>9 DEF Rotates
    <2> QED BY <1>7, <2>1, <2>2
  <1>10. ASSUME NEW s \in Sessions, EndsRow(s)
         PROVE  req[s].token = T /\ req[s].at = "revoke" /\ req[s].op = "logout"
    <2>1. req[s].at = "revoke" /\ req[s].op = "logout" /\ Spent(req[s].row)
      BY <1>10 DEF EndsRow, CommitLogout, Running
    <2>2. i \in 1..Len(tokens) BY <1>3, <1>10 DEF EndsRow
    <2> QED BY <1>7, <2>1, <2>2
  <1> QED BY <1>5, <1>8, <1>9, <1>10, TokenSteps

LEMMA AppSteps ==
  ASSUME TypeInv, Next, NEW a \in Accounts
  PROVE  \/ app'[a].holds = app[a].holds /\ (app[a].lost => app'[a].lost)
         \/ app'[a].holds = None
         \/ \E s \in Sessions : /\ Receive(s) /\ req[s].account = a
                                /\ app'[a].holds = req[s].token
  <1>1. app \in [Accounts -> Apps] /\ app[a] \in Apps /\ req \in [Sessions -> Calls]
    BY DEF TypeInv, TablesOK, CallsKept
  <1>2. CASE UNCHANGED app BY <1>2
  <1>3. CASE Restart
    <2> DEFINE lost(b) == app[b].lost \/ \E s \in Sessions : req[s].at = "answer" /\ req[s].account = b
    <2>1. app'[a] = [app[a] EXCEPT !.lost = lost(a)] BY <1>3 DEF Restart
    <2>2. app[a].lost => lost(a) OBVIOUS
    <2> HIDE DEF lost
    <2> QED BY <1>1, <2>1, <2>2 DEF Apps
  <1>4. ASSUME NEW s \in Sessions, Receive(s)
        PROVE  \/ app'[a].holds = app[a].holds /\ (app[a].lost => app'[a].lost)
               \/ req[s].account = a /\ app'[a].holds = req[s].token
    <2>1. CASE req[s].account # a BY <1>1, <1>4, <2>1 DEF Receive
    <2>2. CASE req[s].account = a
      <3>1. app'[a] = [app[a] EXCEPT !.holds = req[s].token] \/ app'[a] = [app[a] EXCEPT !.lost = TRUE]
        BY <1>1, <1>4, <2>2 DEF Receive
      <3> QED BY <1>1, <2>2, <3>1 DEF Apps
    <2> QED BY <2>1, <2>2
  <1>5. ASSUME NEW s \in Sessions, NEW b \in Accounts, BeginLogout(s, b)
        PROVE  app'[a].holds = None \/ app'[a] = app[a]
    BY <1>1, <1>5 DEF BeginLogout, Apps
  <1> QED BY <1>1, <1>2, <1>3, <1>4, <1>5, StepsWrite DEF Frames

\* Nothing but its delivery follows an answer.
LEMMA OnlyReceived ==
  ASSUME TypeInv, NEW s \in Sessions, Serve(s), req[s].at = "answer" PROVE Receive(s)
  <1>1. req[s].op = "idle" /\ req[s] # NoCall
    <2>1. req[s] \in Calls /\ Staged(req[s]) BY DEF TypeInv, CallsKept, CallKept
    <2>2. req[s].op = "idle" BY <2>1 DEF Staged, Calls, Operations
    <2> QED BY <2>2 DEF NoCall
  <1>2. \A call : ~Begin(s, call) BY <1>1 DEF Begin
  <1>3. \A op, at, test, next : op # "idle" => ~Check(s, op, at, test, next) BY <1>1 DEF Check, Running
  <1>4. \A op, at : op # "idle" => ~Running(s, op, at) BY <1>1 DEF Running
  <1>5. ~SendOtp(s) /\ ~VerifyOtp(s) BY <1>2, <1>3, <1>4
        DEF SendOtp, Deliver, BeginSendOtp, VerifyOtp, BeginVerify, ReadSession
  <1>6. ~CompletePhoneLogin(s) BY <1>1 DEF CompletePhoneLogin, ReadUser, ReadPilgrim, LogIn, MarkVerified
  <1>7. ~Register(s) BY <1>2, <1>3, <1>4
        DEF Register, FindProof, FindRegistered, FindPinfl, InsertRegistered, InsertUser, BeginRegister
  <1>8. ~LoginWithTelegram(s) BY <1>2, <1>4
        DEF LoginWithTelegram, Exchange, InsertTelegramSession, HandleCallback, RedeemTicket
  <1>9. RefreshToken(s) \/ Logout(s) => Receive(s) BY <1>2, <1>4
        DEF RefreshToken, RefuseToken, Rotate, BeginRefresh, FindToken, Logout, CommitLogout, BeginLogout
  <1>10. ~Create(s) BY <1>1, <1>2, <1>3, <1>4
         DEF Create, FindUsed, FindUsedPinfl, CreatePilgrim, CreateUser, BeginCreate, BeginAdminCreate
  <1>11. ~ImportFromExcel(s) BY <1>2, <1>4
         DEF ImportFromExcel, BeginImport, ReadTakenPhones, ReadTakenPinfls, ImportPilgrim
  <1>12. ~Update(s) BY <1>2, <1>3, <1>4
         DEF Update, ReadOwn, FindOther, MoveLogin, UpdateRow, BeginUpdate
  <1>13. ~UpdateProfile(s) BY <1>2, <1>3, <1>4 DEF UpdateProfile, FindPhone, WriteProfile, BeginProfile
  <1>14. ~AbortVictim(s)
    <2>1. \A t : ~WaitsFor(s, t)
      BY DEF WaitsFor, Running
    <2> QED BY <2>1 DEF AbortVictim, Deadlocked
  <1> QED BY <1>5, <1>6, <1>7, <1>8, <1>9, <1>10, <1>11, <1>12, <1>13, <1>14 DEF Serve, Records

LEMMA AnswerStays ==
  ASSUME TypeInv, Next, NEW s \in Sessions, req[s].at = "answer"
  PROVE  \/ req'[s] = req[s]
         \/ app'[req[s].account].lost
         \/ Receive(s) /\ app'[req[s].account].holds = req[s].token
  <1>1. /\ app \in [Accounts -> Apps] /\ req[s].account \in Accounts
        /\ app[req[s].account] \in Apps /\ req \in [Sessions -> Calls]
    BY DEF TypeInv, TablesOK, CallsKept, CallKept, Knows
  <1> DEFINE a == req[s].account
  <1>2. CASE Restart
    <2> DEFINE lost(b) == app[b].lost \/ \E t \in Sessions : req[t].at = "answer" /\ req[t].account = b
    <2>1. app'[a] = [app[a] EXCEPT !.lost = lost(a)] BY <1>1, <1>2 DEF Restart
    <2>2. lost(a) OBVIOUS
    <2> HIDE DEF lost
    <2> QED BY <1>1, <2>1, <2>2 DEF Apps
  <1>3. CASE Serve(s)
    <2>1. Receive(s) BY <1>3, OnlyReceived
    <2>2. app'[a] = [app[a] EXCEPT !.holds = req[s].token] \/ app'[a] = [app[a] EXCEPT !.lost = TRUE]
      BY <1>1, <2>1 DEF Receive
    <2> QED BY <1>1, <2>1, <2>2 DEF Apps
  <1> QED BY <1>2, <1>3, OneServed

LEMMA AppsKept == ASSUME TypeInv, TokensInv, Next PROVE AppsInv'
  <1>1. SUFFICES ASSUME NEW a \in Accounts, NEW T, T = app'[a].holds, T # None
                 PROVE  /\ T[1] = a /\ RowsOf(T)' # {}
                        /\ \/ app'[a].lost \/ Several(T)' \/ ~Revoked(T)'
                           \/ \E t \in Sessions : req'[t].at = "answer" /\ req'[t].account = a
    BY DEF AppsInv, Several, Revoked, RowsOf, TokenOf
  <1>2. /\ req \in [Sessions -> Calls] /\ \A s \in Sessions : KnowsToken(req[s], tokens)
        /\ AppsInv /\ AnswersInv /\ LogoutsInv
    BY DEF TypeInv, CallsKept, CallKept, TokensInv
  <1>3. ASSUME app[a].holds = T, app[a].lost => app'[a].lost
        PROVE  /\ T[1] = a /\ RowsOf(T)' # {}
               /\ \/ app'[a].lost \/ Several(T)' \/ ~Revoked(T)'
                  \/ \E t \in Sessions : req'[t].at = "answer" /\ req'[t].account = a
    <2>1. /\ T[1] = a /\ RowsOf(T) # {}
          /\ \/ app[a].lost \/ Several(T) \/ ~Revoked(T)
             \/ \E t \in Sessions : req[t].at = "answer" /\ req[t].account = a
      BY <1>1, <1>2, <1>3 DEF AppsInv
    <2>2. RowsOf(T)' # {} /\ (Several(T) => Several(T)') BY <2>1, RowsStay
    <2>3. ASSUME NEW t \in Sessions, req[t].at = "answer", req[t].account = a
          PROVE  \/ app'[a].lost \/ Several(T)
                 \/ req'[t].at = "answer" /\ req'[t].account = a
      <3>1. req[t].token = T => Several(T) BY <1>2, <1>3, <2>3 DEF AnswersInv
      <3> QED BY <1>1, <2>3, <3>1, AnswerStays
    <2>4. ASSUME ~Revoked(T), Revoked(T)'
          PROVE  Several(T) \/ \E t \in Sessions : req'[t].at = "answer" /\ req'[t].account = a
      <3>1. PICK s \in Sessions : /\ req[s].token = T
                                  /\ \/ Rotates(s) /\ tokens[req[s].row].account = T[1]
                                     \/ EndsRow(s) /\ req[s].op = "logout"
        BY <2>4, RevokedBy
      <3>2. ASSUME Rotates(s), tokens[req[s].row].account = T[1]
            PROVE  req'[s].at = "answer" /\ req'[s].account = a
        BY <1>2, <2>1, <3>2, CallOver DEF Rotates
      <3>3. ASSUME req[s].op = "logout" PROVE Several(T)
        <4>1. req[s].account = a BY <1>1, <1>2, <2>1, <3>1 DEF KnowsToken
        <4> QED BY <1>2, <1>3, <3>1, <3>3, <4>1 DEF LogoutsInv
      <3> QED BY <3>1, <3>2, <3>3
    <2> QED BY <1>3, <2>1, <2>2, <2>3, <2>4
  <1>4. ASSUME NEW s \in Sessions, Receive(s), req[s].account = a, T = req[s].token
        PROVE  T[1] = a /\ RowsOf(T)' # {} /\ (Several(T)' \/ ~Revoked(T)')
    <2>1. T[1] = a /\ RowsIn(tokens, T) # {} BY <1>1, <1>2, <1>4 DEF KnowsToken
    <2>2. RowsOf(T) # {} BY <2>1 DEF RowsIn, RowsOf, TokenOf
    <2>3. Several(T) \/ ~Revoked(T) BY <1>2, <1>4 DEF Receive, AnswersInv
    <2>4. UNCHANGED tokens BY <1>4 DEF Receive
    <2>5. Revoked(T)' => Revoked(T) BY <2>4 DEF Revoked, RowsOf, TokenOf
    <2> QED BY <2>1, <2>2, <2>3, <2>5, RowsStay
  <1> QED BY <1>1, <1>3, <1>4, AppSteps

\* The row of a new answer's token is the last one.
LEMMA AnswerMinted ==
  ASSUME TypeInv, Next, NEW s \in Sessions, Answers(s), NEW T, T = req'[s].token
  PROVE  /\ UNCHANGED app /\ Len(tokens) + 1 \in RowsOf(T)'
         /\ ~tokens'[Len(tokens) + 1].revoked
         /\ RowsOf(T)' \subseteq RowsOf(T) \cup {Len(tokens) + 1}
  <1>1. /\ req \in [Sessions -> Calls] /\ Len(tokens) \in Nat /\ DOMAIN tokens = 1..Len(tokens)
        /\ DOMAIN tokens' = 1..Len(tokens')
        /\ \A j \in DOMAIN tokens : /\ tokens'[j].account = tokens[j].account
                                    /\ tokens'[j].second = tokens[j].second
    BY TablesGrow DEF TypeInv, TablesOK, CallsKept, Grows
  <1>2. ~Ends(s) BY <1>1, CallOver DEF Answers
  <1>3. SignsIn(s) \/ Rotates(s) BY <1>2, TokenWrites DEF Answers
  <1>4. PICK b, from : Answering(s, b) /\ Minted(b, from) BY <1>3 DEF SignsIn, Rotates
  <1>5. T = <<b, second>> BY <1>1, <1>4, CallOver
  <1>6. UNCHANGED app
    BY <1>2, RequestSteps, <1>1 DEF Answers, LogIn, InsertRegistered, Rotate, tables, signInVars, Ends
  <1> QED BY <1>1, <1>4, <1>5, <1>6 DEF Minted, RowsOf, TokenOf

LEMMA AnswersKept == ASSUME TypeInv, TokensInv, Next PROVE AnswersInv'
  <1>1. SUFFICES ASSUME NEW s \in Sessions, NEW T, T = req'[s].token, req'[s].at = "answer",
                        ~Several(T)'
                 PROVE  /\ ~Revoked(T)'
                        /\ \A a \in Accounts : app'[a].holds # T
                        /\ \A t \in Sessions \ {s} : req'[t].token # T
    BY DEF AnswersInv, Several, Revoked, RowsOf, TokenOf
  <1>2. /\ req \in [Sessions -> Calls]
        /\ \A t \in Sessions : KnowsToken(req[t], tokens) /\ (req[t].at = "answer" => req[t].token # None)
        /\ AppsInv /\ AnswersInv /\ ~Several(T)
    BY <1>1, RowsStay DEF TypeInv, CallsKept, CallKept, Knows, TokensInv
  <1>3. /\ Len(tokens) \in Nat /\ RowsOf(T) \subseteq RowsOf(T)' /\ RowsOf(T) \subseteq 1..Len(tokens)
        /\ RowsIn(tokens, T) = RowsOf(T)
    BY RowsStay DEF RowsIn, RowsOf, TokenOf
  <1>4. CASE req'[s] = req[s]
    <2>1. /\ T = req[s].token /\ req[s].at = "answer" /\ T # None /\ RowsOf(T) # {}
      BY <1>1, <1>2, <1>3, <1>4 DEF KnowsToken
    <2>2. /\ ~Revoked(T) /\ \A a \in Accounts : app[a].holds # T
          /\ \A t \in Sessions \ {s} : req[t].token # T
      BY <1>2, <2>1 DEF AnswersInv
    <2>3. ~Revoked(T)' BY <2>1, <2>2, RevokedBy
    <2>4. \A t \in Sessions : Receive(t) => req[t].token # T
      <3>1. ~Receive(s) BY <1>1, <1>2, <1>4, RequestSteps, CallOver DEF Receive, Ends
      <3> QED BY <2>2, <3>1
    <2>5. \A a \in Accounts : app'[a].holds # T BY <2>1, <2>2, <2>4, AppSteps
    <2>6. ASSUME NEW t \in Sessions \ {s}, req'[t].token = T PROVE FALSE
      <3>1. Served(t) BY <2>2, <2>6, OneServed DEF Served
      <3>2. ~Ends(t) BY <1>2, <2>1, <2>6, CallOver
      <3>3. ~Answers(t)
        <4>1. ASSUME Answers(t) PROVE Len(tokens) + 1 \in RowsOf(T)' BY <2>6, <4>1, AnswerMinted
        <4> QED BY <1>1, <1>3, <2>1, <4>1 DEF Several
      <3>4. ~Starts(t)
        <4>1. \A a \in Accounts : BeginRefresh(t, a) \/ BeginLogout(t, a) => req'[t].token = app[a].holds
          <5> SUFFICES ASSUME NEW a \in Accounts, NEW token, token = app[a].holds,
                              BeginRefresh(t, a) \/ BeginLogout(t, a)
                       PROVE  req'[t].token = token
            OBVIOUS
          <5>1. \/ req'[t] = [NoCall EXCEPT !.op = "refresh", !.at = "find", !.account = a, !.token = token]
                \/ req'[t] = [NoCall EXCEPT !.op = "logout", !.at = "find", !.account = a, !.token = token]
            BY <1>2 DEF BeginRefresh, BeginLogout, Begin
          <5> QED BY <5>1 DEF NoCall
        <4> QED BY <2>1, <2>2, <2>6, <4>1 DEF Starts
      <3> QED BY <2>2, <2>6, <3>1, <3>2, <3>3, <3>4 DEF Served, Goes
    <2> QED BY <2>3, <2>5, <2>6
  <1>5. CASE Answers(s) /\ \A t \in Sessions \ {s} : req'[t] = req[t]
    <2>1. /\ UNCHANGED app /\ Len(tokens) + 1 \in RowsOf(T)'
          /\ ~tokens'[Len(tokens) + 1].revoked
          /\ RowsOf(T)' \subseteq RowsOf(T) \cup {Len(tokens) + 1}
      BY <1>1, <1>5, AnswerMinted
    <2>2. RowsOf(T) = {} BY <1>1, <1>3, <2>1 DEF Several
    <2>3. T # None BY <1>1, <1>2, <1>5, CallsKeptNext DEF TokensInv, TypeInv, CallsKept, CallKept, Knows
    <2>4. ~Revoked(T)' BY <2>1, <2>2 DEF Revoked
    <2>5. \A a \in Accounts : app'[a].holds # T BY <1>2, <2>1, <2>2, <2>3 DEF AppsInv
    <2>6. \A t \in Sessions \ {s} : req'[t].token # T
      BY <1>2, <1>3, <1>5, <2>2, <2>3 DEF KnowsToken
    <2> QED BY <2>4, <2>5, <2>6
  <1>6. ~Ends(s) /\ ~Starts(s) /\ ~Goes(s) BY <1>1, <1>2, CallOver DEF Starts, Goes
  <1> QED BY <1>4, <1>5, <1>6, OneServed DEF Served

LEMMA LogoutsKept == ASSUME TypeInv, TokensInv, Next PROVE LogoutsInv'
  <1>1. SUFFICES ASSUME NEW s \in Sessions, NEW T, NEW a, T = req'[s].token, a = req'[s].account,
                        req'[s].op = "logout", app'[a].holds = T
                 PROVE  Several(T)'
    BY DEF LogoutsInv, Several, RowsOf, TokenOf
  <1>2. /\ req \in [Sessions -> Calls] /\ app \in [Accounts -> Apps]
        /\ \A t \in Sessions : req[t].at = "answer" => req[t].op # "logout"
        /\ AnswersInv /\ LogoutsInv
    <2>1. \A t \in Sessions : Staged(req[t]) BY DEF TypeInv, CallsKept, CallKept
    <2> QED BY <2>1 DEF TypeInv, TablesOK, CallsKept, Staged, TokensInv
  <1>9. T # None /\ a \in Accounts
    <2>1. /\ req'[s] \in Calls /\ Knows(req[s], Len(otp), tokens, username)'
          /\ KnowsToken(req[s], tokens)'
      BY CallsKeptNext DEF TypeInv, CallsKept, CallKept, TokensInv
    <2>2. T # None BY <1>1, <2>1 DEF Knows
    <2>3. T \in Tokens \cup {None} /\ T[1] = a BY <1>1, <2>1, <2>2 DEF Calls, KnowsToken
    <2> QED BY <2>2, <2>3 DEF Tokens
  <1>3. ASSUME req[s].op = "logout", req[s].token = T, req[s].account = a PROVE Several(T)
    <2>1. CASE app[a].holds = T BY <1>2, <1>3, <2>1 DEF LogoutsInv
    <2>2. ASSUME NEW t \in Sessions, Receive(t), T = req[t].token PROVE Several(T)
      <3>1. req[t].at = "answer" /\ s # t BY <1>2, <1>3, <2>2 DEF Receive
      <3> QED BY <1>2, <1>3, <2>2, <3>1 DEF AnswersInv
    <2> QED BY <1>1, <1>2, <1>3, <1>9, <2>1, <2>2, AppSteps
  <1>4. ASSUME NEW b \in Accounts, BeginLogout(s, b) PROVE FALSE
    <2>1. req'[s] = [NoCall EXCEPT !.op = "logout", !.at = "find", !.account = b, !.token = app[b].holds]
      BY <1>2, <1>4 DEF BeginLogout, Begin
    <2>2. req'[s].account = b BY <2>1 DEF NoCall
    <2>3. app'[b].holds = None BY <1>2, <1>4 DEF BeginLogout, Apps
    <2> QED BY <1>1, <1>9, <2>2, <2>3
  <1>5. ~Ends(s) /\ ~Answers(s) BY <1>1, <1>2, CallOver DEF Answers
  <1>6. Starts(s) => \E b \in Accounts : BeginLogout(s, b) BY <1>1 DEF Starts
  <1>7. Goes(s) \/ req'[s] = req[s] => Several(T) BY <1>1, <1>3 DEF Goes
  <1>8. Several(T) => Several(T)' BY RowsStay
  <1> QED BY <1>4, <1>5, <1>6, <1>7, <1>8, OneServed DEF Served

-----------------------------------------------------------------------------
(* The invariant *)

LEMMA InitialInv == Init => Inv
  <1> SUFFICES ASSUME Init PROVE Inv OBVIOUS
  <1> USE AccountsAssumption
  <1>1. TablesOK BY DEF Init, TablesOK, Apps, Numbers
  <1>2. TelegramTypeOK
    <2> DEFINE flow == [f \in Flows |-> NewFlow]
    <2>1. NewFlow \in FlowRows /\ NewFlow.at = "new" /\ NewFlow.redeemed = 0 BY DEF NewFlow, FlowRows
    <2>2. telegram = [used |-> {}, flow |-> flow] BY DEF Init
    <2>3. flow \in [Flows -> FlowRows] /\ \A f \in Flows : flow[f] = NewFlow BY <2>1
    <2> HIDE DEF flow
    <2> QED BY <2>1, <2>2, <2>3 DEF TelegramTypeOK, Flow
  <1>3. CallsKept BY NoCallKept DEF CallsKept, Kept, Init
  <1>4. /\ \A s \in Sessions : /\ req[s].op = "idle" /\ req[s].at = "idle"
        /\ otp = <<>> /\ tokens = <<>> /\ gone = {}
        /\ \A a \in Accounts : app[a].holds = None
    BY DEF Init, NoCall
  <1>5. InsertsApart /\ GoneWereThere /\ RotationInv /\ CodesInv /\ TokensInv
    BY <1>4 DEF InsertsApart, Inserting, GoneWereThere, RotationInv, CodesInv, TokensInv, AppsInv,
       AnswersInv, LogoutsInv
  <1>6. TicketsInv
    <2>1. \A f \in Flows : Flow(f).at = "new" /\ Flow(f).redeemed = 0 BY DEF Init, Flow, NewFlow
    <2> QED BY <1>4, <2>1 DEF TicketsInv, Calling
  <1> QED BY <1>1, <1>2, <1>3, <1>5, <1>6 DEF TypeInv, Inv

LEMMA InvKept == Inv /\ [Next]_vars => Inv'
  <1>1. ASSUME Inv, Next PROVE Inv'
    <2>1. TypeInv' /\ InsertsApart' /\ GoneWereThere'
      BY <1>1, CallsKeptNext, InsertsStayApart, GoneStay DEF Inv, TokensInv
    <2>2. RotationInv' /\ CodesInv' /\ TicketsInv'
      BY <1>1, RotationKept, CodesKept, TicketsKept DEF Inv
    <2>3. TokensInv' BY <1>1, AppsKept, AnswersKept, LogoutsKept DEF Inv, TokensInv
    <2> QED BY <2>1, <2>2, <2>3 DEF Inv
  <1>2. ASSUME Inv, UNCHANGED vars PROVE Inv'
    <2> USE <1>2 DEF vars, tables, accountVars, signInVars
    <2>1. TypeInv' BY DEF Inv, TypeInv, TablesOK, TelegramTypeOK, CallsKept, Flow
    <2>2. InsertsApart' /\ GoneWereThere' BY DEF Inv, InsertsApart, GoneWereThere, HoldsUser
    <2>3. RotationInv' /\ CodesInv' BY DEF Inv, RotationInv, Children, Revoking, Running, CodesInv, Holders
    <2>4. TicketsInv' BY DEF Inv, TicketsInv, Calling, Flow
    <2>5. TokensInv' BY DEF Inv, TokensInv, AppsInv, AnswersInv, LogoutsInv, Several, Revoked, RowsOf, TokenOf
    <2> QED BY <2>1, <2>2, <2>3, <2>4, <2>5 DEF Inv
  <1> QED BY <1>1, <1>2

LEMMA AlwaysInv == Spec => []Inv
  BY InitialInv, InvKept, PTL DEF Spec

-----------------------------------------------------------------------------
(* What holds in every state *)

\* otp_sessions, refresh_tokens and the apps' tokens keep the shape of their columns and every
\* request in flight names rows that exist, however many are served at once.
THEOREM TypesStay == Spec => []AccountsTypeOK
  <1>1. Inv => AccountsTypeOK
    <2> SUFFICES ASSUME Inv PROVE AccountsTypeOK OBVIOUS
    <2>1. TablesOK BY DEF Inv, TypeInv
    <2>2. ASSUME NEW s \in Sessions
          PROVE  /\ req[s].code \in 0..Len(otp) /\ req[s].row \in 0..Len(tokens)
                 /\ req[s].at = "login" => req[s].code > 0
                 /\ req[s].at = "revoke" => req[s].row > 0
      <3>1. /\ req[s] \in Calls /\ Knows(req[s], Len(otp), tokens, username)
            /\ KnowsToken(req[s], tokens) /\ Staged(req[s])
        BY DEF Inv, TypeInv, CallsKept, CallKept
      <3>2. req[s].at = "login" => req[s].code \in 1..Len(otp) BY <3>1 DEF Knows, Holds
      <3>3. req[s].at = "revoke" => req[s].row \in 1..Len(tokens)
        BY <2>1, <3>1 DEF KnowsToken, RowsIn, TablesOK
      <3>4. /\ req[s].code \in Nat /\ req[s].row \in Nat /\ Len(otp) \in Nat /\ Len(tokens) \in Nat
            /\ req[s].code <= Len(otp) /\ req[s].row <= Len(tokens)
        BY <2>1, <3>1 DEF Calls, Knows, TablesOK
      <3> QED BY <3>2, <3>3, <3>4
    <2> QED BY <2>1, <2>2 DEF AccountsTypeOK, TablesOK, Numbers
  <1> QED BY <1>1, AlwaysInv, PTL

\* However refreshes overlap, a refresh token is spent by no more of them than requests are served
\* at once: AuthService.refreshToken revokes the row it found some statements earlier.
THEOREM RotationsAreBounded == Spec => []RotationBounded
  <1>1. Inv => RotationBounded
    <2> SUFFICES ASSUME Inv, NEW i \in DOMAIN tokens
                 PROVE  Cardinality(Children(i)) <= Cardinality(Sessions)
      BY DEF RotationBounded
    <2>1. Cardinality(Children(i)) + Cardinality(Revoking(i)) <= Cardinality(Sessions)
      BY DEF Inv, RotationInv
    <2>2. IsFiniteSet(Revoking(i))
      <3>1. Revoking(i) \in SUBSET Sessions BY DEF Revoking
      <3>2. IsFiniteSet(Sessions) BY AccountsAssumption
      <3> QED BY <3>1, <3>2, FS_Subset
    <2>3. IsFiniteSet(Children(i))
      <3>1. Len(tokens) \in Nat /\ DOMAIN tokens = 1..Len(tokens) BY DEF Inv, TypeInv, TablesOK
      <3>2. Children(i) \in SUBSET (1..Len(tokens)) BY <3>1 DEF Children
      <3>3. IsFiniteSet(1..Len(tokens)) BY <3>1, FS_Interval
      <3> QED BY <3>2, <3>3, FS_Subset
    <2>4. /\ Cardinality(Children(i)) \in Nat /\ Cardinality(Revoking(i)) \in Nat
          /\ Cardinality(Sessions) \in Nat
      BY <2>2, <2>3, AccountsAssumption, FS_CardinalityType
    <2> QED BY <2>1, <2>4
  <1> QED BY <1>1, AlwaysInv, PTL

\* A one-time code signs in no more requests than are served at once before somebody who had read
\* its phone as unregistered marks it VERIFIED again, and a Telegram ticket is redeemed at most
\* once while the process runs: completePhoneLogin, redeemTicket.
THEOREM ProofsOfAPhoneAreSpent == Spec => []ProofsAreSpent
  <1>1. Inv => ProofsAreSpent
    <2> SUFFICES ASSUME Inv PROVE ProofsAreSpent OBVIOUS
    <2>1. Cardinality(Sessions) \in Nat BY AccountsAssumption, FS_CardinalityType
    <2>2. ASSUME NEW k \in DOMAIN otp PROVE otp[k].uses <= Cardinality(Sessions)
      <3>1. otp[k].uses \in Nat
        <4>1. otp \in Seq(Codes) BY DEF Inv, TypeInv, TablesOK
        <4>2. otp[k] \in Codes BY <4>1
        <4> QED BY <4>2 DEF Codes
      <3>2. Holders(k) \in SUBSET Sessions BY DEF Holders
      <3>3. IsFiniteSet(Sessions) BY AccountsAssumption
      <3>4. IsFiniteSet(Holders(k)) BY <3>2, <3>3, FS_Subset
      <3>5. Cardinality(Holders(k)) \in Nat BY <3>4, FS_CardinalityType
      <3>6. otp[k].uses + Cardinality(Holders(k)) <= Cardinality(Sessions) \/ otp[k].uses = 0
        BY DEF Inv, CodesInv
      <3> QED BY <2>1, <3>1, <3>5, <3>6
    <2>3. TicketOnce BY DEF Inv, TicketsInv, TicketOnce
    <2> QED BY <2>2, <2>3 DEF ProofsAreSpent, CodeSpentBounded
  <1> QED BY <1>1, AlwaysInv, PTL

\* For any file: while an accepted import writes, its row's keys were free when it read what was
\* taken and no earlier row of its own file has them; importFromExcel blames others for a clash.
THEOREM FilesNeverClashWithThemselves == Spec => []ImportClashesAreLate
  <1>1. Inv => ImportClashesAreLate
    <2> SUFFICES ASSUME Inv, NEW s \in Sessions, Importing(s)
                 PROVE  /\ {req[s].phone, req[s].pinfl} \cap req[s].taken = {}
                        /\ \A u \in req[s].users : u[2] = req[s].phone => u[1] = req[s].account
                        /\ ~HoldsPinfl(s, req[s].pinfl)
      BY DEF ImportClashesAreLate
    <2> DEFINE r == RowOf(req[s])
               rows == req[s].rows
    <2>1. req[s] \in Calls /\ KnowsFile(req[s]) /\ Writing(req[s]) /\ req[s].op = "import"
      BY DEF Inv, TypeInv, CallsKept, CallKept, Importing, Writing
    <2>2. /\ rows \in Files /\ Import!FileOk(rows, req[s].taken) /\ r \in 1..Len(rows)
          /\ req[s].phone = rows[r].phone /\ req[s].pinfl = rows[r].pinfl
      BY <2>1 DEF KnowsFile
    <2>3. r \in DOMAIN rows BY <2>2, ItemsOf
    <2>4. Import!PhoneOk(rows, r, req[s].taken) /\ Import!PinflOk(rows, r, req[s].taken)
      BY <2>2, <2>3 DEF Import!FileOk, Import!RowOk
    <2>5. /\ None \notin req[s].taken
          /\ \A w \in req[s].pinfls : w[2] # None
      BY <2>1, AccountsAssumption DEF Calls
    <2>6. \A j \in 1..(r - 1) : rows[j].phone # req[s].phone
      BY <2>2, <2>4 DEF Import!PhoneOk, Import!Earlier
    <2>7. req[s].pinfl # None => \A j \in 1..(r - 1) : rows[j].pinfl # req[s].pinfl
      BY <2>2, <2>4 DEF Import!PinflOk, Import!Earlier
    <2>8. {req[s].phone, req[s].pinfl} \cap req[s].taken = {}
      BY <2>2, <2>4, <2>5 DEF Import!PhoneOk, Import!PinflOk
    <2>9. \A u \in req[s].users : u[2] = req[s].phone => u[1] = req[s].account
      BY <2>1, <2>6 DEF KnowsFile
    <2>10. ~HoldsPinfl(s, req[s].pinfl) BY <2>1, <2>5, <2>7 DEF KnowsFile, HoldsPinfl
    <2> QED BY <2>8, <2>9, <2>10
  <1> QED BY <1>1, AlwaysInv, PTL

\* A place that a row's names may stand for has each level in the one above it.
LEMMA PlacesFit ==
  ASSUME NEW r, NEW p \in Import!Places(r) PROVE Fits(r, p)
  <1>1. PICK c \in Import!PickCountry(r) : \E g \in Import!PickRegion(r, c) :
          \E d \in Import!PickDistrict(r, c, g) : p = Import!Filled(c, g, d)
    BY DEF Import!Places
  <1>1a. PICK g \in Import!PickRegion(r, c) :
           \E d \in Import!PickDistrict(r, c, g) : p = Import!Filled(c, g, d)
    BY <1>1
  <1>2. PICK d \in Import!PickDistrict(r, c, g) : p = Import!Filled(c, g, d) BY <1>1a
  <1>3. ASSUME NEW cell, NEW found, NEW x \in Import!Pick(cell, found)
        PROVE  IF cell = None THEN x = None ELSE x \in found
    BY <1>3 DEF Import!Pick
  <1> DEFINE inside == IF g # None THEN {g.id}
                       ELSE IF c # None THEN {x.id : x \in {y \in Regions : y.parent = c.id}}
                       ELSE Import!Any
  <1>4. IF r.country = None THEN c = None ELSE c \in Countries /\ c.name = r.country
    BY <1>3 DEF Import!PickCountry, Import!Under
  <1>5. IF r.region = None THEN g = None
        ELSE g \in Regions /\ g.name = r.region /\ (c # None => g.parent = c.id)
    BY <1>2, <1>3 DEF Import!PickRegion, Import!Under
  <1>6. IF r.district = None THEN d = None
        ELSE d \in Districts /\ d.name = r.district /\ d.parent \in inside
    <2>1. d \in Import!Pick(r.district, Import!Under(Districts, r.district, inside))
      BY <1>2 DEF Import!PickDistrict
    <2> HIDE DEF inside
    <2> QED BY <1>3, <2>1 DEF Import!Under
  <1>7. /\ p.region = IF g # None THEN g.id ELSE IF d # None THEN d.parent ELSE None
        /\ p.country = IF c # None THEN c.id ELSE IF g # None THEN g.parent ELSE Import!CountryOf(p.region)
        /\ p.district = IF d = None THEN None ELSE d.id
    BY <1>2 DEF Import!Filled
  <1>8. /\ \A x \in Countries \cup Regions \cup Districts : x # None
        /\ \A x \in Regions : x.id # None
        /\ \A x, y \in Regions : x.id = y.id => x = y
    BY RecordsAssumption
  <1>9. ASSUME NEW x \in Regions, x.id = p.region PROVE x.parent = p.country
    <2>1. CASE g # None BY <1>4, <1>5, <1>7, <1>8, <1>9, <2>1
    <2>2. CASE g = None /\ d = None BY <1>7, <1>8, <1>9, <2>2
    <2>3. CASE g = None /\ d # None
      <3>1. d.parent = x.id /\ d.parent \in inside BY <1>6, <1>7, <1>9, <2>3
      <3>2. CASE c # None BY <1>7, <1>8, <2>3, <3>1, <3>2
      <3>3. CASE c = None
        <4>1. p.country = Import!CountryOf(x.id) BY <1>7, <1>9, <2>3, <3>3
        <4>2. {y \in Regions : y.id = x.id} = {x} BY <1>8
        <4> QED BY <4>1, <4>2 DEF Import!CountryOf
      <3> QED BY <3>2, <3>3
    <2> QED BY <2>1, <2>2, <2>3
  <1>10. r.district # None => d \in Districts /\ d.id = p.district /\ d.name = r.district /\ d.parent = p.region
    BY <1>6, <1>7, <1>8
  <1>11. r.region # None => g \in Regions /\ g.id = p.region /\ g.name = r.region
    BY <1>5, <1>7, <1>8
  <1>12. r.country # None => c \in Countries /\ c.id = p.country /\ c.name = r.country
    BY <1>4, <1>7, <1>8
  <1>13. /\ r.district = None => p.district = None
         /\ r.district = None /\ r.region = None => p.region = None
    BY <1>5, <1>6, <1>7
  <1> HIDE DEF inside
  <1> QED BY <1>9, <1>10, <1>11, <1>12, <1>13 DEF Fits

\* For any file and any countries, regions and districts: what an accepted row is given fits what it
\* names, and the region it gets lies in the country it gets: validateRows.
THEOREM PlacesOfAFileFit == Spec => []ImportPlacesFit
  <1>1. Inv => ImportPlacesFit
    <2> SUFFICES ASSUME Inv, NEW s \in Sessions, Importing(s), NEW i \in DOMAIN req[s].rows
                 PROVE  Fits(req[s].rows[i], Import!Items(req[s].rows)[i].place)
      BY DEF ImportPlacesFit
    <2> DEFINE rows == req[s].rows
    <2>1. Import!FileOk(rows, req[s].taken)
      BY DEF Inv, TypeInv, CallsKept, CallKept, KnowsFile, Importing, Writing
    <2>2. Import!Places(rows[i]) # {} BY <2>1 DEF Import!FileOk, Import!RowOk
    <2>3. Import!Items(rows)[i].place \in Import!Places(rows[i]) BY <2>2 DEF Import!Items
    <2> QED BY <2>3, PlacesFit
  <1> QED BY <1>1, AlwaysInv, PTL

\* Whatever waits for whatever, requests that wait for each other in a circle include an import:
\* only its transaction goes on to take a key while it holds one that others may wait for.
THEOREM DeadlocksHaveAnImport == Spec => []OnlyImportsDeadlock
  <1>1. Inv => OnlyImportsDeadlock
    <2> SUFFICES ASSUME Inv, NEW S \in SUBSET Sessions, Deadlocked(S),
                        \A s \in S : req[s].op # "import"
                 PROVE  FALSE
      BY DEF OnlyImportsDeadlock
    <2>1. \A s \in Sessions : KnowsKeys(req[s]) BY DEF Inv, TypeInv, CallsKept, CallKept
    <2>2. \A s \in S : req[s].pinfls = {} /\ (req[s].users # {} => req[s].at = "row")
      BY <2>1 DEF KnowsKeys
    <2>3. \A s, t \in S : WaitsFor(s, t) => req[t].users # {} /\ req[s].at # "row"
      BY <2>2 DEF WaitsFor, HoldsPhone, HoldsUser, HoldsPinfl, Running
    <2>4. PICK s \in S, t \in S, u \in S : WaitsFor(s, t) /\ WaitsFor(t, u) BY DEF Deadlocked
    <2> QED BY <2>2, <2>3, <2>4
  <1> QED BY <1>1, AlwaysInv, PTL

-----------------------------------------------------------------------------
(* What a step may do *)

\* A refused refresh is explained: the app has lost an answer, waits for one or has moved on, or two
\* rows have the token it presented, which AuthService.refreshToken signs "fresh" to the second.
THEOREM RefusalsAreExplained == Spec => RefusalExplained
  <1>1. ASSUME Inv, NEW s \in Sessions, RefuseToken(s)
        PROVE  LET a == req[s].account IN
                 \/ app[a].lost \/ app[a].holds # req[s].token
                 \/ \E t \in Sessions : req[t].at = "answer" /\ req[t].account = a
                 \/ Cardinality(RowsOf(req[s].token)) > 1
    <2> DEFINE T == req[s].token
               a == req[s].account
    <2>1. Revoked(T) BY <1>1 DEF RefuseToken, Revoked
    <2>2. T # None /\ a \in Accounts
      <3>1. req[s] \in Calls /\ Knows(req[s], Len(otp), tokens, username) /\ KnowsToken(req[s], tokens)
        BY <1>1 DEF Inv, TypeInv, CallsKept, CallKept
      <3>2. T # None BY <1>1, <3>1 DEF Knows, RefuseToken, Running
      <3>3. T \in Tokens /\ T[1] = a BY <3>1, <3>2 DEF Calls, KnowsToken
      <3> QED BY <3>2, <3>3 DEF Tokens
    <2>3. Several(T) => Cardinality(RowsOf(T)) > 1
      <3> SUFFICES ASSUME NEW i \in RowsOf(T), NEW j \in RowsOf(T), i # j
                   PROVE  Cardinality(RowsOf(T)) > 1
        BY DEF Several
      <3>1. Len(tokens) \in Nat /\ DOMAIN tokens = 1..Len(tokens)
        BY <1>1 DEF Inv, TypeInv, TablesOK
      <3>2. RowsOf(T) \in SUBSET (1..Len(tokens)) BY <3>1 DEF RowsOf
      <3>3. IsFiniteSet(1..Len(tokens)) BY <3>1, FS_Interval
      <3>4. IsFiniteSet(RowsOf(T)) BY <3>2, <3>3, FS_Subset
      <3> DEFINE R == RowsOf(T)
      <3> HIDE DEF R
      <3>5. {i, j} \in SUBSET R BY DEF R
      <3>6. Cardinality({i, j}) <= Cardinality(R) BY <3>4, <3>5, FS_Subset DEF R
      <3>7. IsFiniteSet({i}) /\ Cardinality({i}) = 1 BY FS_Singleton
      <3>8. {i, j} = {i} \cup {j} /\ j \notin {i} OBVIOUS
      <3>9. Cardinality({i} \cup {j}) = Cardinality({i}) + 1 BY <3>7, <3>8, FS_AddElement
      <3>10. Cardinality(R) \in Nat BY <3>4, FS_CardinalityType DEF R
      <3> QED BY <3>6, <3>7, <3>8, <3>9, <3>10 DEF R
    <2>4. ASSUME app[a].holds = T
          PROVE  app[a].lost \/ Several(T)
                 \/ \E t \in Sessions : req[t].at = "answer" /\ req[t].account = a
      BY <1>1, <2>1, <2>2, <2>4 DEF Inv, TokensInv, AppsInv
    <2> QED BY <2>3, <2>4
  <1>2. ASSUME Inv
        PROVE  \A s \in Sessions : RefuseToken(s) =>
                 LET a == req[s].account IN
                   \/ app[a].lost \/ app[a].holds # req[s].token
                   \/ \E t \in Sessions : req[t].at = "answer" /\ req[t].account = a
                   \/ Cardinality(RowsOf(req[s].token)) > 1
    BY <1>1, <1>2
  <1> QED BY <1>2, AlwaysInv, PTL DEF Spec, RefusalExplained

\* A login in flight has read the pilgrim, or found no account.
LEMMA LoginSteps ==
  ASSUME TypeInv, NEW s \in Sessions, Serve(s), NEW c, c = req'[s], KeptNext(c), c.at = "login"
  PROVE  ReadUser(s) \/ ReadPilgrim(s)
  <1>1. req \in [Sessions -> Calls] /\ c \in Calls /\ Staged(c)
    BY DEF TypeInv, CallsKept, KeptNext, CallKept
  <1>2. ~Ends(s) /\ ~Answers(s) BY <1>1, CallOver DEF Answers
  <1>3. ~Starts(s) BY DEF Starts, Holds
  <1>4. req[s].op \in {"verify", "telegram"}
    <2>1. c.op = req[s].op BY <1>2, <1>3, AllServed DEF Served, Goes
    <2>2. c.op \in Operations BY <1>1 DEF Calls
    <2> QED BY <1>1, <2>1, <2>2 DEF Staged, Operations
  <1>5. \A call : ~Begin(s, call) BY <1>4 DEF Begin, NoCall
  <1>6. \A op, at : op # "verify" /\ op # "telegram" => ~Running(s, op, at)
    BY <1>4 DEF Running
  <1>7. \A op, at, test, next : op # "verify" /\ op # "telegram" => ~Check(s, op, at, test, next)
    BY <1>6 DEF Check
  <1>8. ~Reply(s) BY <1>1, <1>2 DEF Reply, Ends
  <1>9. ~SendOtp(s) BY <1>5, <1>6 DEF SendOtp, Deliver, BeginSendOtp
  <1>10. ~VerifyOtp(s)
    <2>1. ~GoTo(s, "user") BY <1>1, RequestSteps DEF Moved, Stages
    <2> QED BY <1>5, <1>8, <2>1 DEF VerifyOtp, BeginVerify, ReadSession, Check
  <1>11. CompletePhoneLogin(s) => ReadUser(s) \/ ReadPilgrim(s)
    BY <1>2, <1>8 DEF CompletePhoneLogin, LogIn, MarkVerified, Answers
  <1>12. ~Register(s) BY <1>5, <1>6, <1>7
         DEF Register, FindProof, FindRegistered, FindPinfl, InsertRegistered, InsertUser, BeginRegister
  <1>13. ~LoginWithTelegram(s)
    <2>1. ASSUME InsertTelegramSession(s) PROVE FALSE
      <3> DEFINE k == Len(otp) + 1
      <3>1. req' = [req EXCEPT ![s].at = "user", ![s].code = k] BY <2>1 DEF InsertTelegramSession
      <3> HIDE DEF k
      <3>2. c = [req[s] EXCEPT !.at = "user", !.code = k] BY <1>1, <3>1
      <3>3. req[s] \in Calls BY <1>1
      <3> QED BY <3>2, <3>3 DEF Calls
    <2> QED BY <1>5, <1>6, <2>1 DEF LoginWithTelegram, Exchange, HandleCallback, RedeemTicket
  <1>14. ~RefreshToken(s) /\ ~Logout(s) BY <1>5, <1>6, <1>8
         DEF RefreshToken, RefuseToken, Rotate, Receive, BeginRefresh, FindToken, Logout, CommitLogout,
             BeginLogout
  <1>15. ~Create(s) BY <1>4, <1>5, <1>6, <1>7
         DEF Create, FindUsed, FindUsedPinfl, CreatePilgrim, CreateUser, BeginCreate, BeginAdminCreate
  <1>16. ~ImportFromExcel(s) BY <1>5, <1>6
         DEF ImportFromExcel, BeginImport, ReadTakenPhones, ReadTakenPinfls, ImportPilgrim
  <1>17. ~Update(s) BY <1>5, <1>6, <1>7
         DEF Update, ReadOwn, FindOther, MoveLogin, UpdateRow, BeginUpdate
  <1>18. ~UpdateProfile(s) /\ ~AbortVictim(s) BY <1>5, <1>6, <1>7, <1>8
         DEF UpdateProfile, FindPhone, WriteProfile, BeginProfile, AbortVictim
  <1> QED BY <1>9, <1>10, <1>11, <1>12, <1>13, <1>14, <1>15, <1>16, <1>17, <1>18 DEF Serve, Records

\* Once the last login that had read a pilgrim before the deletion has ended, no proof of the phone
\* mints a token for the account, ever: only the tokens it has are still refreshed.
THEOREM DeletedStayOut == Spec => DeletedStaysOut
  <1>1. ASSUME Inv, Next, NEW a \in Accounts, ClosedTo(a)
        PROVE  /\ ClosedTo(a)'
               /\ \A i \in DOMAIN tokens' \ DOMAIN tokens : tokens'[i].account = a => tokens'[i].from # 0
    <2>1. /\ req \in [Sessions -> Calls] /\ gone \subseteq Accounts /\ TypeInv /\ TypeInv'
          /\ \A s \in Sessions : /\ Knows(req[s], Len(otp), tokens, username) /\ KnowsKeys(req[s])
          /\ Len(tokens) \in Nat /\ DOMAIN tokens = 1..Len(tokens) /\ DOMAIN tokens' = 1..Len(tokens')
          /\ None \notin Accounts /\ username[a] # None
      BY <1>1, CallsKeptNext, AccountsAssumption DEF Inv, TypeInv, TablesOK, CallsKept, CallKept,
         TokensInv, ClosedTo, GoneWereThere
    <2>2. a \in gone'
      <3>1. gone' = gone \/ \E b \in Accounts : ApproveDeletion(b)
        BY <1>1, <2>1, StepsWrite DEF Frames, accountVars, CreatePilgrim, InsertRegistered, ImportPilgrim,
           UpdateRow, WriteProfile, CommitAccounts, Edited, tables, AdminEdits, AdminUpdate
      <3> QED BY <1>1, <3>1 DEF ClosedTo, ApproveDeletion
    <2>3. ASSUME NEW s \in Sessions, req'[s].at = "login", req'[s].account = a PROVE FALSE
      <3>1. Serve(s)
        <4>1. ~Ends(s) BY <2>1, <2>3, CallOver
        <4>2. req'[s] # req[s] BY <1>1, <2>3 DEF ClosedTo
        <4> QED BY <1>1, <2>1, <4>1, <4>2, OneServed
      <3>2. CASE ReadUser(s)
        <4>1. req[s].at = "user" /\ req'[s].account = req[s].account
          BY <2>1, <2>3, <3>2 DEF ReadUser, GoTo, Calls
        <4> QED BY <2>1, <2>3, <4>1 DEF Knows
      <3>3. CASE ReadPilgrim(s)
        <4>1. req'[s].account = IF req[s].account \in gone THEN None ELSE req[s].account
          BY <2>1, <3>3 DEF ReadPilgrim, Calls
        <4> QED BY <1>1, <2>1, <2>3, <4>1 DEF ClosedTo
      <3>4. KeptNext(req'[s]) BY <2>1 DEF TypeInv, CallsKept, KeptNext
      <3> QED BY <2>1, <2>3, <3>1, <3>2, <3>3, <3>4, LoginSteps
    <2>4. ASSUME NEW i \in DOMAIN tokens' \ DOMAIN tokens, tokens'[i].account = a
          PROVE  tokens'[i].from # 0
      <3>1. ASSUME NEW b, NEW from, Minted(b, from) PROVE b = a /\ tokens'[i].from = from
        BY <2>1, <2>4, <3>1 DEF Minted
      <3>2. ASSUME NEW s \in Sessions, SignsIn(s) PROVE FALSE
        <4>1. /\ LogIn(s) \/ InsertRegistered(s)
              /\ Answering(s, a)
          BY <3>1, <3>2 DEF SignsIn
        <4>2. req'[s].account = a /\ req'[s].at = "answer" BY <2>1, <4>1, CallOver
        <4>3. ~Reply(s) BY <2>1, <4>2, CallOver DEF Reply, Ends
        <4>4. Answering(s, req[s].account) BY <4>1, <4>3 DEF LogIn, InsertRegistered
        <4>5. req[s].account = a BY <2>1, <4>2, <4>4, CallOver
        <4>6. ~LogIn(s) BY <1>1, <4>5 DEF LogIn, ClosedTo
        <4>7. req[s].op = "register" /\ req[s].at = "row" BY <4>1, <4>6 DEF InsertRegistered, Running
        <4>8. <<a, req[s].phone>> \in req[s].users BY <2>1, <4>5, <4>7 DEF KnowsKeys
        <4> QED BY <1>1, <2>1, <4>7, <4>8 DEF Inv, InsertsApart, Inserting
      <3>3. ASSUME NEW s \in Sessions, Rotates(s) PROVE tokens'[i].from # 0
        <4>1. req[s].row \in 1..Len(tokens) /\ Minted(tokens[req[s].row].account, req[s].row)
          BY <3>3 DEF Rotates, Spent
        <4> QED BY <2>1, <3>1, <4>1
      <3>4. ASSUME NEW s \in Sessions, EndsRow(s) PROVE FALSE BY <2>1, <2>4, <3>4 DEF EndsRow
      <3> QED BY <1>1, <2>1, <2>4, <3>2, <3>3, <3>4, TokenSteps
    <2> QED BY <2>2, <2>3, <2>4 DEF ClosedTo
  <1>2. ASSUME Inv, Next
        PROVE  \A a \in Accounts : ClosedTo(a) =>
                 /\ ClosedTo(a)'
                 /\ \A i \in DOMAIN tokens' \ DOMAIN tokens :
                      tokens'[i].account = a => tokens'[i].from # 0
    BY <1>1, <1>2
  <1> QED BY <1>2, AlwaysInv, PTL DEF Spec, DeletedStaysOut

\* The phone stays the login unless an admin's edit or the app's profile edit writes it, or an
\* agency's edit had read another phone than it overwrites, for any accounts and phones: update,
\* of an admin and of an agency, updateProfile.
THEOREM PhonesStayLogins == Spec => PhoneIsLogin
  <1> DEFINE Parts(s, a) == /\ req[s].account = a /\ req'[s] # req[s]
                            /\ \/ Running(s, "profile", "write")
                               \/ Running(s, "update", "row") /\ req[s].was # phone[a]
  <1>1. ASSUME Inv, Next, NEW a \in Accounts, phone[a] = username[a], phone'[a] # username'[a]
        PROVE  AdminEdits(a) \/ \E s \in Sessions : Parts(s, a)
    <2>1. /\ req \in [Sessions -> Calls] /\ TablesOK /\ \A s \in Sessions : req[s] \in Calls
          /\ \A s \in Sessions : KnowsKeys(req[s]) /\ Knows(req[s], Len(otp), tokens, username)
      BY <1>1 DEF Inv, TypeInv, CallsKept, CallKept
    <2>2. ~UNCHANGED <<username, phone>> BY <1>1
    <2>3. ASSUME NEW s \in Sessions, CommitAccounts(s) PROVE FALSE
      <3>1. phone'[a] = Committed(phone, req[s].users)[a] /\ username'[a] = Committed(username, req[s].users)[a]
        BY <2>3 DEF CommitAccounts
      <3>2. phone'[a] = username'[a] BY <1>1, <3>1 DEF Committed
      <3> QED BY <1>1, <3>2
    <2>4. ASSUME NEW s \in Sessions, UpdateRow(s) PROVE Parts(s, a)
      <3>1. /\ req[s].op = "update" /\ req[s].at = "row" /\ req'[s] = NoCall
            /\ username' = Committed(username, req[s].users)
            /\ phone' = [phone EXCEPT ![req[s].account] =
                           IF req[s].phone = None THEN @ ELSE req[s].phone]
        BY <2>1, <2>2, <2>4 DEF UpdateRow, Running, Edited, accountVars, Reply
      <3>2. /\ req[s].users = {} \/ req[s].users = {<<req[s].account, req[s].phone>>}
            /\ req[s].users = {} => req[s].phone \in {None, req[s].was}
        BY <2>1, <3>1 DEF KnowsKeys
      <3>3. req[s].users # {} => req[s].phone # None
        BY <2>1, <3>2, AccountsAssumption DEF Calls
      <3>4. username'[a] = IF \E w \in req[s].users : w[1] = a THEN req[s].phone ELSE username[a]
        BY <3>1, <3>2 DEF Committed
      <3>5. phone'[a] = IF a = req[s].account /\ req[s].phone # None THEN req[s].phone ELSE phone[a]
        BY <2>1, <3>1 DEF TablesOK
      <3>6. req[s].account = a BY <1>1, <3>2, <3>4, <3>5
      <3>7. req[s].users = {} BY <1>1, <3>2, <3>3, <3>4, <3>5, <3>6
      <3>8. req[s].phone = req[s].was BY <1>1, <3>2, <3>4, <3>5, <3>7
      <3> QED BY <1>1, <3>1, <3>4, <3>5, <3>6, <3>7, <3>8 DEF Running, NoCall
    <2>5. ASSUME NEW s \in Sessions, WriteProfile(s) PROVE Parts(s, a)
      <3>1. /\ phone' \in Replaced(phone, req[s].account, req[s].phone) /\ username' = username
            /\ req'[s] = NoCall /\ Running(s, "profile", "write")
        BY <2>1, <2>5 DEF WriteProfile, Reply
      <3>2. /\ req[s].account \in Accounts /\ req[s].phone \in Numbers
            /\ phone \in [Accounts -> Numbers] /\ None \in Numbers
        BY <2>1, <3>1 DEF TablesOK, Calls, Knows, Numbers, Running
      <3>3. \A b \in Accounts \ {req[s].account} : phone'[b] = phone[b]
        BY ONLY <3>1, <3>2, ReplacedColumn
      <3> QED BY <1>1, <3>1, <3>3 DEF Running, NoCall
    <2>6. ASSUME NEW b \in Accounts, NEW ph \in AsTyped \cup {None}, NEW x \in Pinfls \cup {None},
                 AdminUpdate(b, ph, x)
          PROVE  AdminEdits(a)
      <3>1. /\ phone' \in Replaced(phone, b, ph) /\ username' = username
            /\ phone \in [Accounts -> Numbers] /\ None \in Numbers /\ ph \in Numbers
        BY <2>1, <2>6 DEF AdminUpdate, TablesOK, Numbers
      <3>2. \A c \in Accounts \ {b} : phone'[c] = phone[c] BY ONLY <3>1, ReplacedColumn
      <3>3. a = b BY <1>1, <3>1, <3>2
      <3> QED BY <2>6, <3>3 DEF AdminEdits
    <2>7. \/ \E b \in Accounts : AdminEdits(b)
          \/ \E s \in Sessions : \/ CreatePilgrim(s) \/ InsertRegistered(s) \/ ImportPilgrim(s)
                                 \/ UpdateRow(s) \/ WriteProfile(s)
      BY <1>1, <2>1, <2>2, StepsWrite DEF Frames, accountVars, ApproveDeletion
    <2>8. ASSUME NEW s \in Sessions, CreatePilgrim(s) \/ InsertRegistered(s) \/ ImportPilgrim(s)
          PROVE  FALSE
      BY <2>2, <2>3, <2>8 DEF CreatePilgrim, InsertRegistered, ImportPilgrim, accountVars, tables
    <2> QED BY <2>4, <2>5, <2>6, <2>7, <2>8 DEF AdminEdits
  <1>2. ASSUME Inv, Next
        PROVE  \A a \in Accounts : phone[a] = username[a] /\ phone'[a] # username'[a] =>
                 \/ AdminEdits(a)
                 \/ \E s \in Sessions :
                      /\ req[s].account = a /\ req'[s] # req[s]
                      /\ \/ Running(s, "profile", "write")
                         \/ Running(s, "update", "row") /\ req[s].was # phone[a]
    BY <1>1, <1>2
  <1> HIDE DEF Parts
  <1> QED BY <1>2, AlwaysInv, PTL DEF Spec, PhoneIsLogin

=============================================================================
