-------------------------- MODULE AccountDeletion --------------------------
(***************************************************************************)
(* A pilgrim asks for the account to be deleted, may take that back, and   *)
(* an admin approves it: mobile/profile.service, admins/pilgrims.service   *)
(* and PilgrimDeleteRequestDao.                                            *)
(***************************************************************************)
EXTENDS AgencyTables

\* findActiveByPilgrimId
Active(p) == {d \in DeleteRequests : PilgrimOfDeletion[d] = p /\ deletion[d] = "PENDING"}

\* The partial unique index of migration 064 refuses a second PENDING row
\* (23505).  Without an id left in the instance nothing is inserted either.
InsertDeletion(s) ==
  LET free == {d \in DeleteRequests \cap fresh : PilgrimOfDeletion[d] = req[s].pilgrim}
  IN
  /\ Running(s, "createDeleteRequest", "insert")
  /\ IF Active(req[s].pilgrim) = {} /\ free # {}
     THEN \E d \in free : /\ deletion' = [deletion EXCEPT ![d] = "PENDING"]
                          /\ fresh' = fresh \ {d}
     ELSE UNCHANGED <<deletion, fresh>>
  /\ Reply(s)
  /\ UNCHANGED <<groupVars, placeVars, roomVars, pilgrimVars, invitation>>

CreateDeleteRequest(s) ==
  \/ \E p \in Pilgrims \ gone :
       /\ Active(p) = {}
       /\ Begin(s, CallOnDeletion("createDeleteRequest", "insert", p, None))
  \/ InsertDeletion(s)

WriteCancelled(s) ==
  /\ Running(s, "cancelDeleteRequest", "update")
  /\ deletion' = [deletion EXCEPT ![req[s].deletion] = "CANCELLED"]
  /\ Reply(s)
  /\ UNCHANGED <<fresh, groupVars, placeVars, roomVars, pilgrimVars, invitation>>

CancelDeleteRequest(s) ==
  \/ \E p \in Pilgrims \ gone : \E d \in Active(p) :
       Begin(s, CallOnDeletion("cancelDeleteRequest", "update", p, d))
  \/ WriteCancelled(s)

SoftDeleted(p) == gone \cup {p}

CommitApproval(s) ==
  /\ Running(s, "approveDeleteRequest", "commit")
  /\ gone' = SoftDeleted(req[s].pilgrim)
  /\ deletion' = [deletion EXCEPT ![req[s].deletion] = "APPROVED"]
  /\ Reply(s)
  /\ UNCHANGED <<fresh, groupVars, placeVars, roomVars, agencyOf, guides, history,
                 invitation>>

\* One transaction, but the read takes no lock.  The pilgrim leaves no table
\* but its own.
ApproveDeleteRequest(s) ==
  \/ \E d \in DeleteRequests :
       /\ deletion[d] = "PENDING"
       /\ Begin(s, CallOnDeletion("approveDeleteRequest", "commit",
                                  PilgrimOfDeletion[d], d))
  \/ CommitApproval(s)

=============================================================================
