--------------------------- MODULE PilgrimRecords ---------------------------
(***************************************************************************)
(* Pilgrims made and edited by others: an agency's or an admin's create,   *)
(* the import of an Excel file, an agency's edit, an admin's, the          *)
(* pilgrim's own edit of the profile in the app, and an admin's deletion.  *)
(***************************************************************************)
EXTENDS AccountTables

CONSTANTS Files,                             \* the files agencies upload
          Countries, Regions, Districts      \* live rows

\* A file without rows is refused before it is checked; ids are primary keys.
ASSUME RecordsAssumption ==
  /\ \A rows \in Files : rows # <<>> /\ rows \in Seq({rows[i] : i \in DOMAIN rows})
  /\ None \notin Countries \cup Regions \cup Districts
  /\ \A g \in Regions : g.id # None
  /\ \A g, h \in Regions : g.id = h.id => g = h

Import == INSTANCE PilgrimImport

-----------------------------------------------------------------------------
(* create, of an agency and of an admin: the admin's makes no check. *)

BeginCreate(s, ph, x) ==
  /\ Begin(s, [NoCall EXCEPT !.op = "create", !.phone = ph, !.pinfl = x,
                             !.at = "taken"])
  /\ UNCHANGED tables

BeginAdminCreate(s, ph, x) ==
  /\ Begin(s, [NoCall EXCEPT !.op = "create", !.phone = ph, !.pinfl = x,
                             !.at = "username"])
  /\ UNCHANGED tables

FindUsed(s) == Check(s, "create", "taken", ~PhoneTaken(req[s].phone), "pinfl")

FindUsedPinfl(s) ==
  Check(s, "create", "pinfl", req[s].pinfl = None \/ ~PinflTaken(req[s].pinfl), "username")

CreateUser(s, a) == /\ req[s].op \in {"create", "import"} /\ req[s].at = "username"
                    /\ a \in Fresh
                    /\ WriteUsername(s, a)

CreatePilgrim(s) ==
  /\ Running(s, "create", "row")
  /\ ~Blocked(s)
  /\ IF PinflClashes(s) THEN UNCHANGED accountVars ELSE CommitAccounts(s)
  /\ Reply(s)
  /\ UNCHANGED signInVars

Create(s) == \/ FindUsed(s) \/ FindUsedPinfl(s) \/ CreatePilgrim(s)
             \/ \E a \in Accounts : CreateUser(s, a)
             \/ \E ph \in Phones, x \in Pinfls \cup {None} :
                  BeginCreate(s, ph, x) \/ BeginAdminCreate(s, ph, x)

-----------------------------------------------------------------------------
(* importFromExcel: what is taken is read in one transaction, the rows are  *)
(* checked, and all of them are inserted in another.                        *)

BeginImport(s, rows) ==
  /\ Begin(s, [NoCall EXCEPT !.op = "import", !.at = "phones", !.rows = rows])
  /\ UNCHANGED tables

ReadTakenPhones(s) ==
  /\ Running(s, "import", "phones")
  /\ req' = [req EXCEPT ![s].at = "pinfls", ![s].taken = {ph \in Phones : PhoneTaken(ph)}]
  /\ UNCHANGED tables

\* The item whose users row is inserted next.
Load(call, items) == [call EXCEPT !.at = "username", !.items = Tail(items), !.account = None,
                                  !.phone = items[1].phone, !.pinfl = items[1].pinfl]

ReadTakenPinfls(s) ==
  /\ Running(s, "import", "pinfls")
  /\ LET taken == req[s].taken \cup {x \in Pinfls : PinflTaken(x)}
     IN IF Import!FileOk(req[s].rows, taken)
        THEN req' = [req EXCEPT ![s] = Load([req[s] EXCEPT !.taken = taken],
                                            Import!Items(req[s].rows))]
        ELSE Reply(s)
  /\ UNCHANGED tables

\* The key a pilgrims row takes.
PinflKeys(s) == IF req[s].pinfl = None THEN {} ELSE {<<req[s].account, req[s].pinfl>>}

\* The pilgrims row of the current item; the last one commits.
ImportPilgrim(s) ==
  /\ Running(s, "import", "row")
  /\ ~Blocked(s)
  /\ \/ /\ PinflClashes(s)
        /\ Reply(s)
        /\ UNCHANGED accountVars
     \/ /\ ~PinflClashes(s) /\ req[s].items # <<>>
        /\ req' = [req EXCEPT ![s] =
             Load([req[s] EXCEPT !.pinfls = req[s].pinfls \cup PinflKeys(s)], req[s].items)]
        /\ UNCHANGED accountVars
     \/ /\ ~PinflClashes(s) /\ req[s].items = <<>>
        /\ CommitAccounts(s)
        /\ Reply(s)
  /\ UNCHANGED signInVars

ImportFromExcel(s) == \/ ReadTakenPhones(s) \/ ReadTakenPinfls(s) \/ ImportPilgrim(s)
                      \/ \E rows \in Files : BeginImport(s, rows)

-----------------------------------------------------------------------------
(* An agency's edit moves the login with the phone, if there is one and it  *)
(* is not the one it read.                                                  *)

BeginUpdate(s, a, ph, x) ==
  /\ username[a] # None
  /\ Begin(s, [NoCall EXCEPT !.op = "update", !.at = "read", !.account = a,
                             !.phone = ph, !.pinfl = x])
  /\ UNCHANGED tables

ReadOwn(s) ==
  /\ Running(s, "update", "read")
  /\ LET a == req[s].account
     IN IF a \in gone
        THEN Reply(s)
        ELSE req' = [req EXCEPT ![s].was = phone[a],
                                ![s].at = IF req[s].phone \in {None, phone[a]} THEN "row" ELSE "taken"]
  /\ UNCHANGED tables

\* The pilgrims row is locked and written before the users row.  \* mutant
FindOtherRowFirst(s) ==
  /\ Running(s, "update", "taken")
  /\ IF \E b \in Accounts \ {req[s].account} : username[b] = req[s].phone
     THEN Reply(s)
     ELSE req' = [req EXCEPT ![s].at = "username", ![s].pinfls = PinflKeys(s)]
  /\ UNCHANGED tables

FindOther(s) ==
  Check(s, "update", "taken",
        ~\E b \in Accounts \ {req[s].account} : username[b] = req[s].phone, "username")

MoveLogin(s) == Running(s, "update", "username") /\ WriteUsername(s, req[s].account)

\* Writes the pilgrims row alone.  \* mutant
EditedPilgrim(s) ==
  /\ phone' = [phone EXCEPT ![req[s].account] = IF req[s].phone = None THEN @ ELSE req[s].phone]
  /\ pinfl' \in Replaced(pinfl, req[s].account, req[s].pinfl)
  /\ UNCHANGED <<username, gone>>

\* The row of the edit, and COMMIT.  phone None: not in the request (null is an error).
Edited(s) ==
  /\ username' = Committed(username, req[s].users)
  /\ phone' = [phone EXCEPT ![req[s].account] = IF req[s].phone = None THEN @ ELSE req[s].phone]
  /\ pinfl' \in Replaced(pinfl, req[s].account, req[s].pinfl)
  /\ UNCHANGED gone

UpdateRow(s) ==
  /\ Running(s, "update", "row")
  /\ ~Blocked(s)
  /\ IF PinflClashes(s) THEN UNCHANGED accountVars ELSE Edited(s)
  /\ Reply(s)
  /\ UNCHANGED signInVars

Update(s) == \/ ReadOwn(s) \/ FindOther(s) \/ MoveLogin(s) \/ UpdateRow(s)
             \/ \E a \in Accounts, ph \in Phones \cup {None}, x \in Pinfls \cup {None} :
                  BeginUpdate(s, a, ph, x)

-----------------------------------------------------------------------------
(* The app's edit of the profile looks at pilgrims' phones and writes one   *)
(* as it is sent: the login stays.                                          *)

BeginProfile(s, a, ph) ==
  /\ username[a] # None /\ a \notin gone
  /\ Begin(s, [NoCall EXCEPT !.op = "profile", !.at = "find", !.account = a, !.phone = ph])
  /\ UNCHANGED tables

FindPhone(s) ==
  Check(s, "profile", "find",
        req[s].phone = None
          \/ ~\E b \in Accounts \ (gone \cup {req[s].account}) : phone[b] = req[s].phone, "write")

WriteProfile(s) ==
  /\ Running(s, "profile", "write")
  /\ phone' \in Replaced(phone, req[s].account, req[s].phone)
  /\ Reply(s)
  /\ UNCHANGED <<username, pinfl, gone, signInVars>>

UpdateProfile(s) == \/ FindPhone(s) \/ WriteProfile(s)
                    \/ \E a \in Accounts, ph \in Phones \cup AsTyped \cup {None} :
                         BeginProfile(s, a, ph)

-----------------------------------------------------------------------------

(* What one statement of an admin does.                                     *)

\* update, of a pilgrim deleted or not: the phone is neither looked up nor normalized, the login
\* stays, and a PINFL that is another's is refused (23505), which changes nothing.
AdminUpdate(a, ph, x) ==
  /\ username[a] # None
  /\ x # None => /\ \A b \in Accounts \ {a} : pinfl[b] # x
                 /\ \A t \in Sessions : ~HoldsPinfl(t, x)
  /\ phone' \in Replaced(phone, a, ph)
  /\ pinfl' \in Replaced(pinfl, a, x)
  /\ UNCHANGED <<username, gone, signInVars, req>>

AdminEdits(a) == \E ph \in AsTyped \cup {None}, x \in Pinfls \cup {None} : AdminUpdate(a, ph, x)

\* approveDeleteRequest, or remove, which asks for no request.
ApproveDeletion(a) ==
  /\ username[a] # None /\ a \notin gone
  /\ gone' = gone \cup {a}
  /\ UNCHANGED <<username, phone, pinfl, signInVars, req>>

\* Each request of S waits for another of S.
Deadlocked(S) == S # {} /\ \A s \in S : \E t \in S : WaitsFor(s, t)

\* PostgreSQL ends one request of a cycle (40P01).
AbortVictim(s) ==
  /\ \E S \in SUBSET Sessions : s \in S /\ Deadlocked(S) /\ \E t \in S : WaitsFor(t, s)
  /\ Reply(s)
  /\ UNCHANGED tables

Records(s) == \/ Create(s) \/ ImportFromExcel(s) \/ Update(s) \/ UpdateProfile(s)
              \/ AbortVictim(s)

=============================================================================
