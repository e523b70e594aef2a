------------------------------ MODULE Accounts ------------------------------
(***************************************************************************)
(* Pilgrims' accounts: sign-in, registration and the records staff keep of *)
(* the same pilgrims, served at once against the same tables.              *)
(***************************************************************************)
EXTENDS SignIn, PilgrimRecords

Init ==
  /\ username = [a \in Accounts |-> None]
  /\ phone = [a \in Accounts |-> None]
  /\ pinfl = [a \in Accounts |-> None]
  /\ gone = {}
  /\ otp = <<>> /\ tokens = <<>> /\ second = 0
  /\ app = [a \in Accounts |-> [holds |-> None, lost |-> FALSE]]
  /\ telegram = [used |-> {}, flow |-> [f \in Flows |-> NewFlow]]
  /\ req = [s \in Sessions |-> NoCall]

Serve(s) == \/ SendOtp(s) \/ VerifyOtp(s) \/ CompletePhoneLogin(s) \/ Register(s)
            \/ LoginWithTelegram(s) \/ RefreshToken(s) \/ Logout(s) \/ Records(s)

Next == \/ \E s \in Sessions : Serve(s)
        \/ \E a \in Accounts : AdminEdits(a) \/ ApproveDeletion(a)
        \/ Passing
        \/ Restart

Spec == Init /\ [][Next]_vars

-----------------------------------------------------------------------------
(* Types *)

Tokens == Accounts \X (0..LastSecond)
Codes == [phone : Phones, status : {"open", "PENDING", "VERIFIED", "USED"}, age : 0..2,
          sent : BOOLEAN, uses : Nat]
TokenRows == [account : Accounts, second : 0..LastSecond, revoked : BOOLEAN, from : 0..MaxTokens]
Apps == [holds : Tokens \cup {None}, lost : BOOLEAN]

\* otp_sessions, refresh_tokens and the apps' tokens have the shape of their columns, and a
\* request names rows that exist: migrations 008 and 015, AuthService.generateTokens.
AccountsTypeOK ==
  /\ username \in [Accounts -> Phones \cup {None}]
  /\ phone \in [Accounts -> Phones \cup AsTyped \cup {None}]
  /\ pinfl \in [Accounts -> Pinfls \cup {None}]
  /\ gone \subseteq Accounts
  /\ otp \in Seq(Codes) /\ Len(otp) <= MaxCodes
  /\ tokens \in Seq(TokenRows) /\ Len(tokens) <= MaxTokens
  /\ second \in 0..LastSecond
  /\ app \in [Accounts -> Apps]
  /\ \A s \in Sessions : /\ req[s].code \in 0..Len(otp)
                         /\ req[s].row \in 0..Len(tokens)
                         /\ req[s].at = "login" => req[s].code > 0
                         /\ req[s].at = "revoke" => req[s].row > 0

-----------------------------------------------------------------------------
(* Safety *)

Children(i) == {j \in DOMAIN tokens : tokens[j].from = i}

\* Refreshes that overlap may each spend one refresh token, but no more of them than requests
\* served at once, and none after it is revoked: AuthService.refreshToken.
RotationBounded == \A i \in DOMAIN tokens : Cardinality(Children(i)) <= Cardinality(Sessions)

\* A code that is used signs in nobody who had not read it before: since it was last marked
\* VERIFIED it has signed in no more requests than are served at once.  Only a request that had
\* read its phone as unregistered marks it again.  AuthService.verifyOtp, completePhoneLogin.
CodeSpentBounded == \A k \in DOMAIN otp : otp[k].uses <= Cardinality(Sessions)

\* A Telegram ticket is redeemed once while the process runs, however expired entries are
\* pruned: TelegramLoginService.redeemTicket.
TicketOnce == \A f \in Flows : Flow(f).redeemed <= 1

\* What proves a phone or an account is spent: codes and tickets, as above.
ProofsAreSpent == CodeSpentBounded /\ TicketOnce

Importing(s) == req[s].op = "import" /\ req[s].at \in {"username", "row"}

\* An import that was accepted fails only because its key was written after it had read what was
\* taken, never because of its own file: "Someone registered the same phone / PINFL between the
\* check and the insert" (AgencyPilgrimsService.importFromExcel).
ImportClashesAreLate == \A s \in Sessions : Importing(s) =>
  /\ {req[s].phone, req[s].pinfl} \cap req[s].taken = {}
  /\ \A u \in req[s].users : u[2] = req[s].phone => u[1] = req[s].account
  /\ ~HoldsPinfl(s, req[s].pinfl)

\* p is a place that row r may mean: of the names r gives, each level in the one above it, and
\* nothing below what r names.
Fits(r, p) ==
  /\ r.district # None => \E d \in Districts :
       d.id = p.district /\ d.name = r.district /\ d.parent = p.region
  /\ r.region # None => \E g \in Regions : g.id = p.region /\ g.name = r.region
  /\ r.country # None => \E c \in Countries : c.id = p.country /\ c.name = r.country
  /\ \A g \in Regions : g.id = p.region => g.parent = p.country
  /\ r.district = None => p.district = None
  /\ r.district = None /\ r.region = None => p.region = None

\* A row that is imported gets the country, region and district it names, each in the other,
\* the ones left empty filled in from below: validateRows.
ImportPlacesFit == \A s \in Sessions : Importing(s) =>
  LET rows == req[s].rows
  IN \A i \in DOMAIN rows : Fits(rows[i], Import!Items(rows)[i].place)

\* A deadlock of requests always has an import among them: no other request holds a PINFL, or
\* a login while it waits for one.  AgencyPilgrimsService.importFromExcel, update.
OnlyImportsDeadlock == \A S \in SUBSET Sessions :
  Deadlocked(S) => \E s \in S : req[s].op = "import"

-----------------------------------------------------------------------------
(* Steps *)

\* An app whose refresh is refused has lost an answer, waits for one or has moved on to another
\* token, or its token is the same string as another one of its account and second:
\* AuthService.refreshToken signs a pair "fresh" only to the second.
RefusalExplained == [][\A s \in Sessions : RefuseToken(s) =>
  LET a == req[s].account IN
    \/ app[a].lost \/ app[a].holds # req[s].token
    \/ \E t \in Sessions : req[t].at = "answer" /\ req[t].account = a
    \/ Cardinality(RowsOf(req[s].token)) > 1]_vars

\* No login that read the pilgrim a before its deletion is left.
ClosedTo(a) == /\ a \in gone
               /\ \A s \in Sessions : req[s].at = "login" => req[s].account # a

\* Once a deleted account's last login in flight has ended no proof of its phone signs it in
\* again; only tokens it has are still refreshed: completePhoneLogin, refreshToken.
DeletedStaysOut == [][\A a \in Accounts : ClosedTo(a) =>
  /\ ClosedTo(a)'
  /\ \A i \in DOMAIN tokens' \ DOMAIN tokens : tokens'[i].account = a => tokens'[i].from # 0]_vars

\* A pilgrim's phone stays the login it had unless an admin's edit or the app's profile edit
\* writes it, or an agency's edit had read another phone than it overwrites: "The phone is the
\* pilgrim's OTP login" (AgencyPilgrimsService.update).
PhoneIsLogin == [][\A a \in Accounts : phone[a] = username[a] /\ phone'[a] # username'[a] =>
  \/ AdminEdits(a)
  \/ \E s \in Sessions :
       /\ req[s].account = a /\ req'[s] # req[s]
       /\ \/ Running(s, "profile", "write")
          \/ Running(s, "update", "row") /\ req[s].was # phone[a]]_vars

=============================================================================
