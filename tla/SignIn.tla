------------------------------- MODULE SignIn -------------------------------
(***************************************************************************)
(* How a pilgrim proves a phone, registers and stays signed in             *)
(* (auth.service.ts, telegram-login.service.ts): one-time codes by SMS or  *)
(* Telegram message, Log In With Telegram, registration, and the rotation  *)
(* of refresh tokens.  The fixed test code and SMS_MOCK are left out, and  *)
(* NODE_ENV is production.                                                 *)
(***************************************************************************)
EXTENDS AccountTables

-----------------------------------------------------------------------------
(* One-time codes.  A row of otp_sessions with the status "open" is one its *)
(* transaction has not committed.  age 0 is before expires_at, 1 within the *)
(* 30 minutes registration accepts, 2 after them.  sent: the client has     *)
(* been given the code.  uses counts what the code signed in since it was   *)
(* last marked VERIFIED.                                                    *)

NewestOf(K) == {k \in K : \A j \in K : j <= k}
CodesOf(ph) == {k \in DOMAIN otp : otp[k].phone = ph /\ otp[k].status # "open"}
LiveCodes(ph) == {k \in CodesOf(ph) : otp[k].age = 0}
Proofs(ph) == {k \in CodesOf(ph) : otp[k].status = "VERIFIED" /\ otp[k].age < 2}

InsertCode(ph, status) ==
  /\ Len(otp) < MaxCodes
  /\ otp' = Append(otp, [phone |-> ph, status |-> status, age |-> 0,
                         sent |-> FALSE, uses |-> 0])

BeginSendOtp(s, ph) ==
  /\ Begin(s, [NoCall EXCEPT !.op = "sendOtp", !.at = "deliver", !.phone = ph,
                             !.code = Len(otp) + 1])
  /\ InsertCode(ph, "PENDING")
  /\ UNCHANGED <<accountVars, tokens, second, app, telegram>>

\* The provider sends the code; when it fails the row stays all the same.
Deliver(s) ==
  /\ Running(s, "sendOtp", "deliver")
  /\ \/ otp' = [otp EXCEPT ![req[s].code].sent = TRUE]
     \/ otp' = otp
  /\ Reply(s)
  /\ UNCHANGED <<accountVars, tokens, second, app, telegram>>

SendOtp(s) == Deliver(s) \/ \E ph \in Phones : BeginSendOtp(s, ph)

\* Ages once more than there are ages.  \* mutant
CodeAgesOn == \E k \in DOMAIN otp :
  /\ otp[k].age < 3
  /\ otp' = [otp EXCEPT ![k].age = @ + 1]
  /\ UNCHANGED <<accountVars, tokens, second, app, telegram, req>>

\* Time passes: no code ages before an earlier one.
CodeAges == \E k \in DOMAIN otp :
  /\ otp[k].age < 2
  /\ \A j \in 1..(k - 1) : otp[j].age > otp[k].age
  /\ otp' = [otp EXCEPT ![k].age = @ + 1]
  /\ UNCHANGED <<accountVars, tokens, second, app, telegram, req>>

-----------------------------------------------------------------------------
(* Refresh tokens.  The JWT carries the user and the second it was signed   *)
(* in, nothing else: two of one user and second are one string.             *)

TokenOf(i) == <<tokens[i].account, tokens[i].second>>
RowsOf(token) == {i \in DOMAIN tokens : TokenOf(i) = token}

Mint(table, a, from) == /\ Len(tokens) < MaxTokens
                        /\ tokens' = Append(table, [account |-> a, second |-> second,
                                                    revoked |-> FALSE, from |-> from])

\* COMMIT of a transaction that minted a token for account a: the answer is on
\* its way.
Answering(s, a) == req' = [req EXCEPT ![s] =
  [NoCall EXCEPT !.at = "answer", !.account = a, !.token = <<a, second>>]]

Receive(s) ==
  /\ req[s].at = "answer"
  /\ LET a == req[s].account
     IN \/ app' = [app EXCEPT ![a].holds = req[s].token]
        \/ app' = [app EXCEPT ![a].lost = TRUE]
  /\ Reply(s)
  /\ UNCHANGED <<accountVars, otp, tokens, second, telegram>>

Tick == /\ second < LastSecond
        /\ second' = second + 1
        /\ UNCHANGED <<accountVars, otp, tokens, app, telegram, req>>

\* The app presents the token it holds.
BeginRefresh(s, a) ==
  /\ app[a].holds # None
  /\ Begin(s, [NoCall EXCEPT !.op = "refresh", !.at = "find", !.account = a,
                             !.token = app[a].holds])
  /\ UNCHANGED tables

\* first() of the rows with this token, whichever the database returns.
RefuseToken(s) ==
  /\ Running(s, "refresh", "find")
  /\ \E i \in RowsOf(req[s].token) : tokens[i].revoked
  /\ Reply(s)
  /\ UNCHANGED tables

\* Finds revoked rows, too.  \* mutant
FindAnyToken(s, i) ==
  /\ Running(s, "refresh", "find") \/ Running(s, "logout", "find")
  /\ i \in RowsOf(req[s].token)
  /\ req' = [req EXCEPT ![s].at = "revoke", ![s].row = i]
  /\ UNCHANGED tables

FindToken(s, i) ==
  /\ Running(s, "refresh", "find") \/ Running(s, "logout", "find")
  /\ i \in RowsOf(req[s].token)
  /\ req[s].op = "refresh" => ~tokens[i].revoked
  /\ req' = [req EXCEPT ![s].at = "revoke", ![s].row = i]
  /\ UNCHANGED tables

\* A bug that ends every session of the account.  \* mutant
RevokeAll(i) == [j \in DOMAIN tokens |->
  [tokens[j] EXCEPT !.revoked = @ \/ tokens[j].account = tokens[i].account]]

Revoke(i) == [tokens EXCEPT ![i].revoked = TRUE]

\* Signs the new pair and revokes the row that was found.
Rotate(s) ==
  /\ Running(s, "refresh", "revoke")
  /\ Mint(Revoke(req[s].row), tokens[req[s].row].account, req[s].row)
  /\ Answering(s, tokens[req[s].row].account)
  /\ UNCHANGED <<accountVars, otp, second, app, telegram>>

RefreshToken(s) == \/ RefuseToken(s) \/ Rotate(s) \/ Receive(s)
                   \/ \E a \in Accounts : BeginRefresh(s, a)
                   \/ \E i \in DOMAIN tokens : FindToken(s, i)

\* The app forgets the token it asks to revoke.
BeginLogout(s, a) ==
  /\ app[a].holds # None
  /\ Begin(s, [NoCall EXCEPT !.op = "logout", !.at = "find", !.account = a,
                             !.token = app[a].holds])
  /\ app' = [app EXCEPT ![a].holds = None]
  /\ UNCHANGED <<accountVars, otp, tokens, second, telegram>>

CommitLogout(s) ==
  /\ Running(s, "logout", "revoke")
  /\ tokens' = Revoke(req[s].row)
  /\ Reply(s)
  /\ UNCHANGED <<accountVars, otp, second, app, telegram>>

Logout(s) == CommitLogout(s) \/ \E a \in Accounts : BeginLogout(s, a)

-----------------------------------------------------------------------------
(* Verifying a code, and the tail it shares with Log In With Telegram.      *)

\* The code the client types is the one of a session it was sent.
BeginVerify(s) == \E k \in DOMAIN otp :
  /\ otp[k].sent
  /\ Begin(s, [NoCall EXCEPT !.op = "verify", !.at = "session",
                             !.phone = otp[k].phone, !.code = k])
  /\ UNCHANGED tables

\* Does not ask whether the code is used.  \* mutant
ReadSessionOnly(s) ==
  Check(s, "verify", "session", req[s].code \in NewestOf(LiveCodes(req[s].phone)), "user")

\* The latest live session must have the typed code, unused.
ReadSession(s) ==
  Check(s, "verify", "session",
        req[s].code \in NewestOf(LiveCodes(req[s].phone)) /\ otp[req[s].code].status # "USED",
        "user")

ReadUser(s) ==
  /\ req[s].op \in {"verify", "telegram"} /\ req[s].at = "user"
  /\ \/ /\ ~PhoneTaken(req[s].phone)
        /\ GoTo(s, "login")
     \/ \E a \in Accounts :
        /\ username[a] = req[s].phone
        /\ req' = [req EXCEPT ![s].at = "pilgrim", ![s].account = a]
  /\ UNCHANGED tables

\* Takes the users row for the account.  \* mutant
ReadNoPilgrim(s) ==
  /\ req[s].at = "pilgrim"
  /\ GoTo(s, "login")
  /\ UNCHANGED tables

\* findByUserId skips deleted pilgrims: their phone counts as unregistered.
ReadPilgrim(s) ==
  /\ req[s].at = "pilgrim"
  /\ req' = [req EXCEPT ![s].at = "login",
                        ![s].account = IF @ \in gone THEN None ELSE @]
  /\ UNCHANGED tables

Use(k) == [otp EXCEPT ![k].status = "USED", ![k].uses = @ + 1]

\* Registered: the code is used and a token minted.
LogIn(s) ==
  /\ req[s].at = "login" /\ req[s].account # None
  /\ otp' = Use(req[s].code)
  /\ Mint(tokens, req[s].account, 0)
  /\ Answering(s, req[s].account)
  /\ UNCHANGED <<accountVars, second, app, telegram>>

\* Not registered: the session is VERIFIED, for register to find.
MarkVerified(s) ==
  /\ req[s].at = "login" /\ req[s].account = None
  /\ otp' = [otp EXCEPT ![req[s].code].status = "VERIFIED", ![req[s].code].uses = 0]
  /\ Reply(s)
  /\ UNCHANGED <<accountVars, tokens, second, app, telegram>>

CompletePhoneLogin(s) == ReadUser(s) \/ ReadPilgrim(s) \/ LogIn(s) \/ MarkVerified(s)
VerifyOtp(s) == BeginVerify(s) \/ ReadSession(s)

-----------------------------------------------------------------------------
(* Registration *)

BeginRegister(s, ph, x) ==
  /\ Begin(s, [NoCall EXCEPT !.op = "register", !.at = "proof", !.phone = ph, !.pinfl = x])
  /\ UNCHANGED tables

FindProof(s) ==
  /\ Running(s, "register", "proof")
  /\ IF Proofs(req[s].phone) = {}
     THEN Reply(s)
     ELSE \E k \in NewestOf(Proofs(req[s].phone)) :
            req' = [req EXCEPT ![s].at = "taken", ![s].code = k]
  /\ UNCHANGED tables

FindRegistered(s) == Check(s, "register", "taken", ~PhoneTaken(req[s].phone), "pinfl")

\* findByPinfl skips deleted pilgrims, the unique key does not.
FindPinfl(s) == Check(s, "register", "pinfl",
  req[s].pinfl = None \/ ~\E a \in Accounts \ gone : pinfl[a] = req[s].pinfl, "username")

InsertUser(s, a) == /\ Running(s, "register", "username")
                    /\ a \in Fresh
                    /\ WriteUsername(s, a)

\* The pilgrims row, the code used, the first token.
InsertRegistered(s) ==
  /\ Running(s, "register", "row")
  /\ ~Blocked(s)
  /\ \/ /\ PinflClashes(s)
        /\ Reply(s)
        /\ UNCHANGED tables
     \/ /\ ~PinflClashes(s)
        /\ CommitAccounts(s)
        /\ otp' = Use(req[s].code)
        /\ Mint(tokens, req[s].account, 0)
        /\ Answering(s, req[s].account)
        /\ UNCHANGED <<second, app, telegram>>

Register(s) == \/ FindProof(s) \/ FindRegistered(s) \/ FindPinfl(s) \/ InsertRegistered(s)
               \/ \E a \in Accounts : InsertUser(s, a)
               \/ \E ph \in Phones, x \in Pinfls \cup {None} : BeginRegister(s, ph, x)

-----------------------------------------------------------------------------
(* Log In With Telegram.  A flow is a state id: pending in memory until the *)
(* callback, then a ticket (a signed JWT the app holds) for the phone       *)
(* Telegram vouches for.  redeemed counts redemptions since the process     *)
(* started.                                                                 *)

NewFlow == [at |-> "new", phone |-> None, redeemed |-> 0]
Flow(f) == telegram.flow[f]
SetFlow(f, at, ph) == telegram' = [telegram EXCEPT !.flow[f].at = at, !.flow[f].phone = ph]

\* The time to live of a pending state, or of a ticket, runs out.
FlowExpires(f) ==
  /\ Flow(f).at \in {"pending", "ticket"}
  /\ SetFlow(f, "over", Flow(f).phone)
  /\ UNCHANGED <<accountVars, otp, tokens, second, app, req>>

BuildAuthUrl(f) ==
  /\ Flow(f).at = "new"
  /\ SetFlow(f, "pending", None)
  /\ UNCHANGED <<accountVars, otp, tokens, second, app, req>>

\* The state is deleted before the code is exchanged.
HandleCallback(s, f) ==
  /\ Flow(f).at = "pending"
  /\ Begin(s, [NoCall EXCEPT !.op = "callback", !.at = "exchange", !.flow = f])
  /\ SetFlow(f, "over", None)
  /\ UNCHANGED <<accountVars, otp, tokens, second, app>>

Exchange(s) ==
  /\ Running(s, "callback", "exchange")
  /\ \/ \E ph \in Phones : SetFlow(req[s].flow, "ticket", ph)
     \/ telegram' = telegram
  /\ Reply(s)
  /\ UNCHANGED <<accountVars, otp, tokens, second, app>>

\* usedTickets is cleared when any entry is expired.  \* mutant
ClearedOnExpiry(used) == IF \E f \in used : Flow(f).at # "ticket" THEN {} ELSE used

\* Every expired entry leaves usedTickets.
Unexpired(used) == {f \in used : Flow(f).at = "ticket"}

RedeemTicket(s, f) ==
  /\ Flow(f).at = "ticket" /\ f \notin Unexpired(telegram.used)
  /\ Begin(s, [NoCall EXCEPT !.op = "telegram", !.at = "insert", !.phone = Flow(f).phone,
                             !.flow = f])
  /\ telegram' = [telegram EXCEPT !.used = Unexpired(@) \cup {f},
                                  !.flow[f].redeemed = @ + 1]
  /\ UNCHANGED <<accountVars, otp, tokens, second, app>>

\* The proof is recorded as a session of its own, with a code nobody can type.
InsertTelegramSession(s) ==
  /\ Running(s, "telegram", "insert")
  /\ InsertCode(req[s].phone, "open")
  /\ req' = [req EXCEPT ![s].at = "user", ![s].code = Len(otp) + 1]
  /\ UNCHANGED <<accountVars, tokens, second, app, telegram>>

LoginWithTelegram(s) == \/ Exchange(s) \/ InsertTelegramSession(s)
                        \/ \E f \in Flows : HandleCallback(s, f) \/ RedeemTicket(s, f)

-----------------------------------------------------------------------------

\* The process is restarted: requests end, their transactions roll back (the
\* row of an open session is never seen), pendingStates and usedTickets are
\* empty, and the answers on their way are lost.
Restart ==
  /\ req' = [s \in Sessions |-> NoCall]
  /\ app' = [a \in Accounts |-> [app[a] EXCEPT !.lost = @ \/
       \E s \in Sessions : req[s].at = "answer" /\ req[s].account = a]]
  /\ telegram' = [used |-> {}, flow |-> [f \in Flows |->
       [Flow(f) EXCEPT !.redeemed = 0, !.at = IF @ = "pending" THEN "over" ELSE @]]]
  /\ UNCHANGED <<accountVars, otp, tokens, second>>

Passing == CodeAges \/ Tick \/ \E f \in Flows : FlowExpires(f) \/ BuildAuthUrl(f)

=============================================================================
