----------------------------- MODULE VoiceKeys ------------------------------
(***************************************************************************)
(* The voice key of each group (group-voice-keys.dao.ts), which members    *)
(* read with their profile and the agency rotates.                         *)
(***************************************************************************)
EXTENDS ChatTables

NoKey == [key |-> 0, version |-> 0]

\* A group and its key are inserted in one transaction.
CreateGroup(g) ==
  /\ g \notin live /\ voice[g] = NoKey /\ minted < MaxKeys
  /\ live' = live \cup {g}
  /\ voice' = [voice EXCEPT ![g] = [key |-> minted + 1, version |-> 1]]
  /\ minted' = minted + 1
  /\ UNCHANGED <<chatVars, deliveryVars, handed, req>>

\* A soft delete: the key stays.
DeleteGroup(g) ==
  /\ g \in live
  /\ live' = live \ {g}
  /\ UNCHANGED <<chatVars, deliveryVars, voice, minted, handed, req>>

\* A member's profile, or a rotation, finds its group.
BeginEnsure(s, op, g) ==
  /\ g \in live
  /\ Begin(s, [NoCall EXCEPT !.op = op, !.at = "existing", !.group = g])
  /\ UNCHANGED <<chatVars, deliveryVars, voiceVars>>

\* The key is handed to the member's profile, or the rotation goes on.
Ensured(s, g) ==
  IF req[s].op = "profile"
  THEN /\ handed' = handed \cup {<<g, voice[g].version, voice[g].key>>}
       /\ Reply(s)
  ELSE /\ GoTo(s, "rotate")
       /\ handed' = handed

ReadExisting(s) ==
  /\ req[s].at = "existing"
  /\ IF voice[req[s].group] # NoKey
     THEN Ensured(s, req[s].group)
     ELSE GoTo(s, "insert") /\ handed' = handed
  /\ UNCHANGED <<chatVars, deliveryVars, live, voice, minted>>

\* ON CONFLICT DO UPDATE.  \* mutant
InsertOver(s) ==
  /\ req[s].op \in {"profile", "rotate"} /\ req[s].at = "insert" /\ minted < MaxKeys
  /\ IF req[s].group \in live
     THEN voice' = [voice EXCEPT ![req[s].group] = [key |-> minted + 1, version |-> 1]]
     ELSE voice' = voice
  /\ minted' = minted + 1
  /\ GoTo(s, "reread")
  /\ UNCHANGED <<chatVars, deliveryVars, live, handed>>

\* INSERT ... SELECT from the group while it is not deleted, ON CONFLICT DO NOTHING.
InsertKey(s) ==
  /\ req[s].op \in {"profile", "rotate"} /\ req[s].at = "insert" /\ minted < MaxKeys
  /\ IF req[s].group \in live /\ voice[req[s].group] = NoKey
     THEN voice' = [voice EXCEPT ![req[s].group] = [key |-> minted + 1, version |-> 1]]
     ELSE voice' = voice
  /\ minted' = minted + 1
  /\ GoTo(s, "reread")
  /\ UNCHANGED <<chatVars, deliveryVars, live, handed>>

Reread(s) ==
  /\ req[s].at = "reread"
  /\ IF voice[req[s].group] # NoKey
     THEN Ensured(s, req[s].group)
     ELSE Reply(s) /\ handed' = handed
  /\ UNCHANGED <<chatVars, deliveryVars, live, voice, minted>>

\* One UPDATE; only the version is returned.
Rotate(s) ==
  /\ Running(s, "rotate", "rotate") /\ minted < MaxKeys
  /\ voice' = [voice EXCEPT ![req[s].group] =
                 [key |-> minted + 1, version |-> @.version + 1]]
  /\ minted' = minted + 1
  /\ Reply(s)
  /\ UNCHANGED <<chatVars, deliveryVars, live, handed>>

Voice(s) == \/ ReadExisting(s) \/ InsertKey(s) \/ Reread(s) \/ Rotate(s)
            \/ \E op \in {"profile", "rotate"}, g \in Groups : BeginEnsure(s, op, g)

=============================================================================
