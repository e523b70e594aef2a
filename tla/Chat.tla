-------------------------------- MODULE Chat --------------------------------
(***************************************************************************)
(* The chat of an agency's staff (chat.service.ts, chat.dao.ts): rooms,    *)
(* messages, pages and read marks.  rooms.updated_at, which only orders    *)
(* the list, attachments and replies are left out.                         *)
(***************************************************************************)
EXTENDS Delivery

-----------------------------------------------------------------------------
(* Rooms *)

BeginDm(s, u, v) ==
  /\ u # v
  /\ Begin(s, [NoCall EXCEPT !.op = "createRoom", !.at = "belongs", !.user = u,
                             !.type = "dm", !.with = {v}])
  /\ UNCHANGED <<chatVars, deliveryVars, voiceVars>>

\* The caller is a member in any case; its own row is checked only if it names itself.
BeginGroup(s, u, M) ==
  /\ M # {}
  /\ Begin(s, [NoCall EXCEPT !.op = "createRoom", !.at = "belongs", !.user = u,
                             !.type = "group", !.with = M])
  /\ UNCHANGED <<chatVars, deliveryVars, voiceVars>>

\* One of them is enough.  \* mutant
SomeBelong(s) ==
  /\ Running(s, "createRoom", "belongs")
  /\ IF req[s].with # {} /\ req[s].with \subseteq former THEN Reply(s)
     ELSE GoTo(s, IF req[s].type = "dm" THEN "find" ELSE "insert")
  /\ UNCHANGED <<chatVars, deliveryVars, voiceVars>>

Belong(s) ==
  /\ Running(s, "createRoom", "belongs")
  /\ IF req[s].with \cap former # {} THEN Reply(s)
     ELSE GoTo(s, IF req[s].type = "dm" THEN "find" ELSE "insert")
  /\ UNCHANGED <<chatVars, deliveryVars, voiceVars>>

DmRooms(members) == {r \in InUse : rooms[r].type = "dm" /\ rooms[r].members = members}
Members(s) == {req[s].user} \cup req[s].with

\* Looks only for the rooms the caller made.  \* mutant
FindOwnDm(s) ==
  /\ Running(s, "createRoom", "find")
  /\ IF \E r \in DmRooms(Members(s)) : rooms[r].by = req[s].user THEN Reply(s)
     ELSE GoTo(s, "insert")
  /\ UNCHANGED <<chatVars, deliveryVars, voiceVars>>

FindDm(s) ==
  /\ Running(s, "createRoom", "find")
  /\ IF DmRooms(Members(s)) # {} THEN Reply(s) ELSE GoTo(s, "insert")
  /\ UNCHANGED <<chatVars, deliveryVars, voiceVars>>

\* The room and its members, in one transaction.
InsertRoom(s, r) ==
  /\ Running(s, "createRoom", "insert")
  /\ r \in RoomIds \ InUse
  /\ rooms' = [rooms EXCEPT ![r] = [type |-> req[s].type, by |-> req[s].user,
                                    members |-> Members(s)]]
  /\ Reply(s)
  /\ UNCHANGED <<clock, former, lastRead, messages, deliveryVars, voiceVars>>

CreateRoom(s) == \/ Belong(s) \/ FindDm(s)
                 \/ \E u, v \in Users : BeginDm(s, u, v)
                 \/ \E u \in Users, M \in SUBSET Users : BeginGroup(s, u, M)
                 \/ \E r \in RoomIds : InsertRoom(s, r)

\* The agency deletes an agency_users row; the user's token stays valid.
RemoveColleague(u) ==
  /\ u \notin former
  /\ former' = former \cup {u}
  /\ UNCHANGED <<clock, rooms, lastRead, messages, deliveryVars, voiceVars, req>>

-----------------------------------------------------------------------------
(* Messages.  created_at is the instant the INSERT began, its place in the   *)
(* sequence the one of its commit.                                           *)

\* No assertMember.  \* mutant
BeginSendAnywhere(s, u, r) ==
  /\ Begin(s, [NoCall EXCEPT !.op = "send", !.at = "insert", !.user = u, !.room = r,
                             !.since = clock, !.after = Answered])
  /\ UNCHANGED <<chatVars, deliveryVars, voiceVars>>

\* assertMember
BeginSend(s, u, r) ==
  /\ r \in InUse /\ IsMember(u, r)
  /\ Begin(s, [NoCall EXCEPT !.op = "send", !.at = "insert", !.user = u, !.room = r,
                             !.since = clock, !.after = Answered])
  /\ UNCHANGED <<chatVars, deliveryVars, voiceVars>>

Message(s, t, answered) == [room |-> req[s].room, sender |-> req[s].user, at |-> t,
                            after |-> req[s].after, answered |-> answered]

\* Answers before it pushes.  \* mutant
InsertAnswered(s, t) ==
  /\ Running(s, "send", "insert") /\ t \in req[s].since .. clock
  /\ Len(messages) < MaxMessages
  /\ messages' = Append(messages, Message(s, t, TRUE))
  /\ req' = [req EXCEPT ![s].at = "push", ![s].message = Len(messages) + 1, ![s].after = {}]
  /\ UNCHANGED <<clock, former, rooms, lastRead, deliveryVars, voiceVars>>

InsertMessage(s, t) ==
  /\ Running(s, "send", "insert") /\ t \in req[s].since .. clock
  /\ Len(messages) < MaxMessages
  /\ messages' = Append(messages, Message(s, t, FALSE))
  /\ req' = [req EXCEPT ![s].at = "push", ![s].message = Len(messages) + 1, ![s].after = {}]
  /\ UNCHANGED <<clock, former, rooms, lastRead, deliveryVars, voiceVars>>

\* The members are read; then every other one is sent the message and notified, and the sender
\* answered, in one go.
Push(s) ==
  /\ Running(s, "send", "push")
  /\ LET m == req[s].message
     IN /\ sockets' = MessageNew(m)
        /\ views' = ViewsWith(m, UNION {Reached(u) : u \in Recipients(m)})
        /\ notices' = notices \cup {<<m, u, "insert">> : u \in Recipients(m)}
        /\ messages' = [messages EXCEPT ![m].answered = TRUE]
  /\ Reply(s)
  /\ UNCHANGED <<clock, former, rooms, lastRead, notes, bells, voiceVars>>

SendMessage(s) == \/ Push(s)
                  \/ \E u \in Users, r \in RoomIds : BeginSend(s, u, r)
                  \/ \E t \in 0..LastTick : InsertMessage(s, t)

-----------------------------------------------------------------------------
(* Pages.  before is a Date: milliseconds.                                   *)

Older(r, before) == {m \in Of(r) : before # None => messages[m].at < before * Grain}

\* A page of the oldest of them.  \* mutant
PageOfOldest(rows, older) ==
  /\ rows \subseteq older
  /\ Cardinality(rows) = IF Cardinality(older) < PageSize THEN Cardinality(older) ELSE PageSize
  /\ \A m \in rows, n \in older \ rows : messages[m].at <= messages[n].at

\* order by created_at desc limit PageSize, ties in any order.
IsPage(rows, older) ==
  /\ rows \subseteq older
  /\ Cardinality(rows) = IF Cardinality(older) < PageSize THEN Cardinality(older) ELSE PageSize
  /\ \A m \in rows, n \in older \ rows : messages[m].at >= messages[n].at

\* A client that listens on k opens r, or asks for what is older than what it has.
BeginPage(s, u, k, r) ==
  /\ Listens(u, k)
  /\ r \in InUse /\ IsMember(u, r)
  /\ \A t \in Sessions : ~(req[t].op = "page" /\ req[t].user = u)
  /\ \/ views[u] = NoView /\ views' = [views EXCEPT ![u].room = r, ![u].socket = k]
     \/ views[u].room = r /\ views[u].socket = k /\ views' = views
  /\ Begin(s, [NoCall EXCEPT !.op = "page", !.at = "read", !.user = u, !.room = r])
  /\ UNCHANGED <<chatVars, sockets, notices, notes, bells, voiceVars>>

\* The page ends before its oldest row's created_at.
Turned(view, rows, oldest) ==
  LET next == Millisecond(messages[oldest].at)
  IN [view EXCEPT !.got = @ \cup rows, !.before = next, !.cuts = @ \cup {next}]

ReadPage(s, rows) ==
  /\ Running(s, "page", "read")
  /\ IsPage(rows, Older(req[s].room, views[req[s].user].before))
  /\ \/ rows = {} /\ views' = [views EXCEPT ![req[s].user].before = 0]
     \/ \E oldest \in rows : /\ \A m \in rows : messages[oldest].at <= messages[m].at
                             /\ views' = [views EXCEPT ![req[s].user] = Turned(@, rows, oldest)]
  /\ Reply(s)
  /\ UNCHANGED <<chatVars, sockets, notices, notes, bells, voiceVars>>

GetMessages(s) ==
  \/ \E u \in Users, k \in SocketIds, r \in RoomIds : BeginPage(s, u, k, r)
  \/ \E rows \in SUBSET (DOMAIN messages) : ReadPage(s, rows)

-----------------------------------------------------------------------------
(* Read marks *)

BeginMark(s, u, r) ==
  /\ r \in InUse /\ IsMember(u, r)
  /\ Begin(s, [NoCall EXCEPT !.op = "mark", !.at = "mark", !.user = u, !.room = r,
                             !.since = clock])
  /\ UNCHANGED <<chatVars, deliveryVars, voiceVars>>

\* Marks the room for every member.  \* mutant
MarkAll(s, t) ==
  /\ Running(s, "mark", "mark") /\ t \in req[s].since .. clock
  /\ lastRead' = [lastRead EXCEPT ![req[s].room] = [u \in Users |-> t]]
  /\ Reply(s)
  /\ UNCHANGED <<clock, former, rooms, messages, deliveryVars, voiceVars>>

Mark(s, t) ==
  /\ Running(s, "mark", "mark") /\ t \in req[s].since .. clock
  /\ lastRead' = [lastRead EXCEPT ![req[s].room][req[s].user] = t]
  /\ Reply(s)
  /\ UNCHANGED <<clock, former, rooms, messages, deliveryVars, voiceVars>>

MarkRead(s) == \/ \E u \in Users, r \in RoomIds : BeginMark(s, u, r)
               \/ \E t \in 0..LastTick : Mark(s, t)

=============================================================================
