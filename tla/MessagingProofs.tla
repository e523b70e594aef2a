-------------------------- MODULE MessagingProofs --------------------------
(***************************************************************************)
(* Theorems about Messaging, for any number of users, rooms, sockets and   *)
(* requests served at once.                                                *)
(***************************************************************************)
EXTENDS Messaging, TLAPS, FiniteSetTheorems

Operations == {"idle", "createRoom", "send", "page", "mark", "profile", "rotate"}
Stages == {"idle", "belongs", "find", "insert", "push", "read", "mark", "existing", "reread",
           "rotate"}
Calls == [op : Operations, at : Stages, user : Users \cup {None}, type : {"dm", "group", None},
          with : SUBSET Users, room : RoomIds \cup {None}, since : Nat, message : Nat,
          after : SUBSET (1..MaxMessages), group : Groups \cup {None}]

\* What a request keeps from its earlier statements, with the rooms rs and n messages.
Keeps(c, rs, n) ==
  /\ c.op = "createRoom" => c.user \in Users /\ c.type \in {"dm", "group"}
  /\ c.op \in {"send", "page", "mark"} =>
       c.user \in Users /\ c.room \in RoomIds /\ c.user \in rs[c.room].members
  /\ c.op \in {"profile", "rotate"} => c.group \in Groups
  /\ c.at \in {"existing", "reread"} => c.op \in {"profile", "rotate"}
  /\ c.at = "push" => c.op = "send" /\ c.message \in 1..n

CallsKept == /\ req \in [Sessions -> Calls]
             /\ \A s \in Sessions : Keeps(req[s], rooms, Len(messages))

Keys == [key : 0..MaxKeys, version : 0..MaxKeys]

\* A group's key and version are among those made, and what was handed out of it is its key
\* with its version, or an earlier key with an earlier version.
Fits(row, n) == row.key <= n /\ row.version <= n /\ (row = NoKey \/ row.version > 0)
HandedFits(h, row, n) == h[2] <= row.version /\ h[3] <= n /\ (h[2] = row.version <=> h[3] = row.key)

KeysFit ==
  /\ minted \in 0..MaxKeys /\ voice \in [Groups -> Keys]
  /\ \A g \in Groups : Fits(voice[g], minted)
  /\ handed \subseteq Groups \X (Nat \ {0}) \X Nat
  /\ \A h \in handed : HandedFits(h, voice[h[1]], minted)

TypeInv == MessagingTypeOK /\ CallsKept /\ KeysFit

\* Rooms in use stay as they are, messages stay but for being answered.
Grows ==
  /\ \A r \in InUse : rooms'[r] = rooms[r]
  /\ Len(messages) <= Len(messages')
  /\ \A m \in Messages : /\ messages'[m].room = messages[m].room
                         /\ messages'[m].sender = messages[m].sender
                         /\ messages'[m].at = messages[m].at
                         /\ messages'[m].after = messages[m].after
                         /\ messages[m].answered => messages'[m].answered

\* Which steps write what.
Frames ==
  /\ UNCHANGED clock \/ Tick
  /\ UNCHANGED former \/ \E u \in Users : RemoveColleague(u)
  /\ UNCHANGED rooms \/ \E s \in Sessions, r \in RoomIds : InsertRoom(s, r)
  /\ UNCHANGED lastRead \/ \E s \in Sessions, t \in 0..LastTick : Mark(s, t)
  /\ \/ UNCHANGED messages
     \/ \E s \in Sessions, t \in 0..LastTick : InsertMessage(s, t)
     \/ \E s \in Sessions : Push(s)
  /\ \/ UNCHANGED sockets
     \/ \E k \in SocketIds : LinkDrops(k) \/ HandleDisconnect(k) \/ \E u \in Users : Connect(k, u)
     \/ \E s \in Sessions : Push(s)
     \/ Restart
  /\ \/ UNCHANGED views
     \/ \E u \in Users : CloseView(u)
     \/ \E s \in Sessions, u \in Users, k \in SocketIds, r \in RoomIds : BeginPage(s, u, k, r)
     \/ \E s \in Sessions, rows \in SUBSET (DOMAIN messages) : ReadPage(s, rows)
     \/ \E s \in Sessions : Push(s)
  /\ \/ UNCHANGED notices
     \/ \E n \in notices : Notify(n)
     \/ \E s \in Sessions : Push(s)
     \/ Restart
  /\ UNCHANGED notes \/ \E n \in notices : Notify(n)
  /\ \/ UNCHANGED bells
     \/ \E n \in notices : Notify(n)
     \/ \E u \in Users : MoreNotes(u) \/ \E k \in SocketIds : OpenNotes(u, k)
  /\ \/ UNCHANGED <<voice, minted>>
     \/ \E g \in Groups : CreateGroup(g)
     \/ \E s \in Sessions : InsertKey(s) \/ Rotate(s)
  /\ UNCHANGED handed \/ \E s \in Sessions : ReadExisting(s) \/ Reread(s)

LEMMA StepsWrite == ASSUME Next PROVE Frames
  <1> USE DEF chatVars, deliveryVars, voiceVars
  <1>1. ASSUME NEW s \in Sessions, CreateRoom(s) PROVE Frames
    <2>1. CASE Belong(s) BY <2>1 DEF Belong, Frames
    <2>2. CASE FindDm(s) BY <2>2 DEF FindDm, Frames
    <2>3. ASSUME NEW u \in Users, NEW v \in Users, BeginDm(s, u, v) PROVE Frames
      BY <2>3 DEF BeginDm, Frames
    <2>4. ASSUME NEW u \in Users, NEW M \in SUBSET Users, BeginGroup(s, u, M) PROVE Frames
      BY <2>4 DEF BeginGroup, Frames
    <2>5. ASSUME NEW r \in RoomIds, InsertRoom(s, r) PROVE Frames
      <3>1. UNCHANGED <<clock, former, lastRead, messages, deliveryVars, voiceVars>>
        BY <2>5 DEF InsertRoom
      <3> QED BY <3>1, <2>5 DEF Frames
    <2> QED BY <1>1, <2>1, <2>2, <2>3, <2>4, <2>5 DEF CreateRoom
  <1>2. ASSUME NEW s \in Sessions, SendMessage(s) PROVE Frames
    <2>1. CASE Push(s)
      <3>1. UNCHANGED <<clock, former, rooms, lastRead, notes, bells, voiceVars>>
        BY <2>1 DEF Push
      <3> QED BY <3>1, <2>1 DEF Frames
    <2>2. ASSUME NEW u \in Users, NEW r \in RoomIds, BeginSend(s, u, r) PROVE Frames
      BY <2>2 DEF BeginSend, Frames
    <2>3. ASSUME NEW t \in 0..LastTick, InsertMessage(s, t) PROVE Frames
      <3>1. UNCHANGED <<clock, former, rooms, lastRead, deliveryVars, voiceVars>>
        BY <2>3 DEF InsertMessage
      <3> QED BY <3>1, <2>3 DEF Frames
    <2> QED BY <1>2, <2>1, <2>2, <2>3 DEF SendMessage
  <1>3. ASSUME NEW s \in Sessions, GetMessages(s) PROVE Frames
    <2>1. ASSUME NEW u \in Users, NEW k \in SocketIds, NEW r \in RoomIds, BeginPage(s, u, k, r)
          PROVE  Frames
      <3>1. UNCHANGED <<chatVars, sockets, notices, notes, bells, voiceVars>>
        BY <2>1 DEF BeginPage
      <3> QED BY <3>1, <2>1 DEF Frames
    <2>2. ASSUME NEW rows \in SUBSET (DOMAIN messages), ReadPage(s, rows) PROVE Frames
      <3>1. UNCHANGED <<chatVars, sockets, notices, notes, bells, voiceVars>>
        BY <2>2 DEF ReadPage
      <3> QED BY <3>1, <2>2 DEF Frames
    <2> QED BY <1>3, <2>1, <2>2 DEF GetMessages
  <1>4. ASSUME NEW s \in Sessions, MarkRead(s) PROVE Frames
    <2>1. ASSUME NEW u \in Users, NEW r \in RoomIds, BeginMark(s, u, r) PROVE Frames
      BY <2>1 DEF BeginMark, Frames
    <2>2. ASSUME NEW t \in 0..LastTick, Mark(s, t) PROVE Frames
      <3>1. UNCHANGED <<clock, former, rooms, messages, deliveryVars, voiceVars>>
        BY <2>2 DEF Mark
      <3> QED BY <3>1, <2>2 DEF Frames
    <2> QED BY <1>4, <2>1, <2>2 DEF MarkRead
  <1>5. ASSUME NEW s \in Sessions, Voice(s) PROVE Frames
    <2>1. CASE ReadExisting(s) \/ Reread(s)
      <3>1. UNCHANGED <<chatVars, deliveryVars, live, voice, minted>>
        BY <2>1 DEF ReadExisting, Reread
      <3> QED BY <3>1, <2>1 DEF Frames
    <2>2. CASE InsertKey(s) \/ Rotate(s)
      <3>1. UNCHANGED <<chatVars, deliveryVars, live, handed>> BY <2>2 DEF InsertKey, Rotate
      <3> QED BY <3>1, <2>2 DEF Frames
    <2>3. ASSUME NEW op \in {"profile", "rotate"}, NEW g \in Groups, BeginEnsure(s, op, g)
          PROVE  Frames
      BY <2>3 DEF BeginEnsure, Frames
    <2> QED BY <1>5, <2>1, <2>2, <2>3 DEF Voice
  <1>6. ASSUME NEW k \in SocketIds, Socket(k) PROVE Frames
    <2>1. UNCHANGED <<chatVars, views, notices, notes, bells, voiceVars, req>>
      BY <1>6 DEF Socket, LinkDrops, HandleDisconnect, Connect
    <2> QED BY <2>1, <1>6 DEF Frames, Socket
  <1>7. ASSUME NEW u \in Users, Client(u) PROVE Frames
    <2>1. CASE CloseView(u)
      <3>1. UNCHANGED <<chatVars, sockets, notices, notes, bells, voiceVars, req>>
        BY <2>1 DEF CloseView
      <3> QED BY <3>1, <2>1 DEF Frames
    <2>2. CASE RemoveColleague(u)
      <3>1. UNCHANGED <<clock, rooms, lastRead, messages, deliveryVars, voiceVars, req>>
        BY <2>2 DEF RemoveColleague
      <3> QED BY <3>1, <2>2 DEF Frames
    <2>3. ASSUME MoreNotes(u) \/ \E k \in SocketIds : OpenNotes(u, k) PROVE Frames
      <3>1. UNCHANGED <<chatVars, sockets, views, notices, notes, voiceVars, req>>
        BY <2>3 DEF MoreNotes, OpenNotes, ListNotes
      <3> QED BY <3>1, <2>3 DEF Frames
    <2> QED BY <1>7, <2>1, <2>2, <2>3 DEF Client
  <1>8. ASSUME NEW n \in notices, Notify(n) PROVE Frames
    <2>1. UNCHANGED <<chatVars, sockets, views, voiceVars, req>> BY <1>8 DEF Notify
    <2> QED BY <2>1, <1>8 DEF Frames
  <1>9. ASSUME NEW g \in Groups, CreateGroup(g) \/ DeleteGroup(g) PROVE Frames
    <2>1. CASE CreateGroup(g)
      <3>1. UNCHANGED <<chatVars, deliveryVars, handed, req>> BY <2>1 DEF CreateGroup
      <3> QED BY <3>1, <2>1 DEF Frames
    <2>2. CASE DeleteGroup(g) BY <2>2 DEF DeleteGroup, Frames
    <2> QED BY <1>9, <2>1, <2>2
  <1>10. CASE Tick
    <2>1. UNCHANGED <<former, rooms, lastRead, messages, deliveryVars, voiceVars, req>>
      BY <1>10 DEF Tick
    <2> QED BY <2>1, <1>10 DEF Frames
  <1>11. CASE Restart
    <2>1. UNCHANGED <<chatVars, views, notes, bells, voiceVars>> BY <1>11 DEF Restart
    <2> QED BY <2>1, <1>11 DEF Frames
  <1> QED BY <1>1, <1>2, <1>3, <1>4, <1>5, <1>6, <1>7, <1>8, <1>9, <1>10, <1>11
          DEF Next, Serve

-----------------------------------------------------------------------------
(* Types *)

\* A room with a member is in use.
LEMMA MembersMeanUse ==
  ASSUME TypeInv, NEW r \in RoomIds, NEW u \in rooms[r].members
  PROVE  r \in InUse /\ rooms[r] \in Rooms /\ u \in Users
  BY MessagingAssumption DEF TypeInv, MessagingTypeOK, InUse, Rooms, NoRoom

LEMMA Appended ==
  ASSUME NEW S, NEW q \in Seq(S), NEW e \in S
  PROVE  /\ Append(q, e) \in Seq(S) /\ Len(Append(q, e)) = Len(q) + 1
         /\ Append(q, e)[Len(q) + 1] = e
         /\ \A i \in 1..Len(q) : Append(q, e)[i] = q[i]
         /\ 1..(Len(q) + 1) = 1..Len(q) \cup {Len(q) + 1} /\ Len(q) + 1 \notin 1..Len(q)
         /\ Len(q) \in Nat /\ DOMAIN q = 1..Len(q)
  OBVIOUS

LEMMA Replaced ==
  ASSUME NEW S, NEW q \in Seq(S), NEW i \in 1..Len(q), NEW e \in S
  PROVE  /\ [q EXCEPT ![i] = e] \in Seq(S) /\ Len([q EXCEPT ![i] = e]) = Len(q)
         /\ [q EXCEPT ![i] = e][i] = e
         /\ \A j \in 1..Len(q) \ {i} : [q EXCEPT ![i] = e][j] = q[j]
  OBVIOUS

LEMMA MessagesAreRows ==
  ASSUME TypeInv
  PROVE  /\ messages \in Seq(MessageRows) /\ Len(messages) \in Nat
         /\ Len(messages) <= MaxMessages
         /\ Messages = DOMAIN messages
  <1>1. messages \in Seq(MessageRows) /\ Len(messages) <= MaxMessages
    BY DEF TypeInv, MessagingTypeOK
  <1> QED BY <1>1 DEF Messages

LEMMA MessageType ==
  ASSUME TypeInv, NEW m \in Messages
  PROVE  /\ messages[m] \in MessageRows
         /\ messages[m].room \in InUse
         /\ messages[m].sender \in rooms[messages[m].room].members
         /\ messages[m].at \in Nat
  <1>1. messages[m] \in MessageRows BY MessagesAreRows DEF Messages
  <1>2. messages[m].at \in Nat BY <1>1, MessagingAssumption DEF MessageRows
  <1> QED BY <1>1, <1>2 DEF TypeInv, MessagingTypeOK

LEMMA RoomsStep ==
  ASSUME TypeInv, Frames
  PROVE  /\ rooms' \in [RoomIds -> Rooms \cup {NoRoom}]
         /\ \A r \in InUse : rooms'[r] = rooms[r]
         /\ InUse \subseteq InUse'
  <1>1. CASE UNCHANGED rooms BY <1>1 DEF TypeInv, MessagingTypeOK, InUse
  <1>2. ASSUME NEW s \in Sessions, NEW r \in RoomIds, InsertRoom(s, r)
        PROVE  /\ rooms' \in [RoomIds -> Rooms \cup {NoRoom}]
               /\ \A q \in InUse : rooms'[q] = rooms[q]
    <2> DEFINE new == [type |-> req[s].type, by |-> req[s].user, members |-> Members(s)]
    <2>1. req[s].type \in {"dm", "group"} /\ req[s].user \in Users /\ req[s].with \subseteq Users
      BY <1>2 DEF InsertRoom, Running, TypeInv, CallsKept, Keeps, Calls
    <2>2. new \in Rooms BY <2>1 DEF Rooms, Members
    <2>3. r \notin InUse /\ rooms' = [rooms EXCEPT ![r] = new] BY <1>2 DEF InsertRoom
    <2> HIDE DEF new
    <2> QED BY <2>2, <2>3 DEF TypeInv, MessagingTypeOK
  <1>3. ASSUME \A q \in InUse : rooms'[q] = rooms[q] PROVE InUse \subseteq InUse'
    BY <1>3 DEF InUse
  <1> QED BY <1>1, <1>2, <1>3 DEF Frames

LEMMA InsertedMessage ==
  ASSUME TypeInv, NEW s \in Sessions, NEW t \in 0..LastTick, InsertMessage(s, t)
  PROVE  /\ Message(s, t, FALSE) \in MessageRows
         /\ Len(messages') = Len(messages) + 1 /\ Len(messages') <= MaxMessages
         /\ Messages' = Messages \cup {Len(messages) + 1} /\ Len(messages) + 1 \notin Messages
         /\ messages' \in Seq(MessageRows)
         /\ messages'[Len(messages) + 1] = Message(s, t, FALSE)
         /\ \A m \in Messages : messages'[m] = messages[m]
  <1>1. Message(s, t, FALSE) \in MessageRows
    BY DEF InsertMessage, Running, Message, MessageRows, TypeInv, CallsKept, Keeps, Calls
  <1>2. messages' = Append(messages, Message(s, t, FALSE)) /\ Len(messages) < MaxMessages
    BY DEF InsertMessage
  <1>3. Len(messages) + 1 <= MaxMessages BY <1>2, MessagesAreRows, MessagingAssumption
  <1> DEFINE e == Message(s, t, FALSE)
  <1> HIDE DEF e
  <1>4. messages \in Seq(MessageRows) /\ e \in MessageRows BY <1>1, MessagesAreRows DEF e
  <1>5. /\ Append(messages, e) \in Seq(MessageRows) /\ Len(Append(messages, e)) = Len(messages) + 1
        /\ Append(messages, e)[Len(messages) + 1] = e
        /\ \A i \in 1..Len(messages) : Append(messages, e)[i] = messages[i]
        /\ 1..(Len(messages) + 1) = 1..Len(messages) \cup {Len(messages) + 1}
        /\ Len(messages) + 1 \notin 1..Len(messages)
    BY <1>4, Appended
  <1>6. messages' = Append(messages, e) BY <1>2 DEF e
  <1> QED BY <1>3, <1>4, <1>5, <1>6 DEF Messages, e

LEMMA PushedMessage ==
  ASSUME TypeInv, NEW s \in Sessions, Push(s)
  PROVE  /\ req[s].message \in Messages
         /\ messages' \in Seq(MessageRows) /\ Len(messages') = Len(messages)
         /\ Messages' = Messages
         /\ \A m \in Messages \ {req[s].message} : messages'[m] = messages[m]
         /\ messages'[req[s].message] = [messages[req[s].message] EXCEPT !.answered = TRUE]
  <1> DEFINE m == req[s].message
             e == [messages[m] EXCEPT !.answered = TRUE]
  <1>1. m \in Messages BY DEF Push, Running, TypeInv, CallsKept, Keeps, Messages
  <1>2. messages' = [messages EXCEPT ![m].answered = TRUE] BY DEF Push
  <1>3. e \in MessageRows BY <1>1, MessageType DEF MessageRows
  <1>4. messages' = [messages EXCEPT ![m] = e] BY <1>2, <1>1, MessagesAreRows
  <1> HIDE DEF e
  <1>5. m \in 1..Len(messages) BY <1>1 DEF Messages
  <1> HIDE DEF m
  <1>6. /\ messages' \in Seq(MessageRows) /\ Len(messages') = Len(messages)
        /\ \A j \in 1..Len(messages) \ {m} : messages'[j] = messages[j]
        /\ messages'[m] = e
    BY <1>3, <1>4, <1>5, MessagesAreRows, Replaced
  <1> QED BY <1>1, <1>6 DEF Messages, m, e

LEMMA MessagesStep ==
  ASSUME TypeInv, Frames
  PROVE  /\ messages' \in Seq(MessageRows) /\ Len(messages') <= MaxMessages
         /\ Messages \subseteq Messages'
         /\ Grows
  <1>1. \A r \in InUse : rooms'[r] = rooms[r] BY RoomsStep
  <1>2. CASE UNCHANGED messages
    BY <1>1, <1>2 DEF TypeInv, MessagingTypeOK, Grows, Messages
  <1>3. ASSUME NEW s \in Sessions, NEW t \in 0..LastTick, InsertMessage(s, t)
        PROVE  /\ messages' \in Seq(MessageRows) /\ Len(messages') <= MaxMessages
               /\ Messages \subseteq Messages' /\ Grows
    <2>1. ASSUME NEW m \in Messages PROVE messages'[m] = messages[m] BY <1>3, InsertedMessage
    <2>2. Len(messages) <= Len(messages')
      <3>1. Len(messages') = Len(messages) + 1 BY <1>3, InsertedMessage
      <3>2. Len(messages) \in Nat BY MessagesAreRows
      <3> QED BY <3>1, <3>2
    <2>3. Grows BY <1>1, <2>1, <2>2 DEF Grows
    <2> QED BY <1>3, <2>3, InsertedMessage
  <1>4. ASSUME NEW s \in Sessions, Push(s)
        PROVE  /\ messages' \in Seq(MessageRows) /\ Len(messages') <= MaxMessages
               /\ Messages \subseteq Messages' /\ Grows
    <2>1. ASSUME NEW m \in Messages
          PROVE  /\ messages'[m].room = messages[m].room
                 /\ messages'[m].sender = messages[m].sender
                 /\ messages'[m].at = messages[m].at
                 /\ messages'[m].after = messages[m].after
                 /\ messages[m].answered => messages'[m].answered
      <3>1. messages[m] \in MessageRows BY MessageType
      <3>2. \/ messages'[m] = messages[m]
            \/ messages'[m] = [messages[m] EXCEPT !.answered = TRUE]
        BY <1>4, PushedMessage
      <3> QED BY <3>1, <3>2 DEF MessageRows
    <2>2. Len(messages') = Len(messages) BY <1>4, PushedMessage
    <2>3. Len(messages) \in Nat BY MessagesAreRows
    <2>4. Grows BY <1>1, <2>1, <2>2, <2>3 DEF Grows
    <2> QED BY <1>4, <2>4, PushedMessage, MessagesAreRows
  <1> QED BY <1>2, <1>3, <1>4 DEF Frames

LEMMA RowsStep ==
  ASSUME TypeInv, Frames
  PROVE  \A m \in Messages' : messages'[m].room \in InUse'
                              /\ messages'[m].sender \in rooms'[messages'[m].room].members
  <1>1. \A r \in InUse : r \in InUse' /\ rooms'[r] = rooms[r] BY RoomsStep
  <1>2. ASSUME NEW m \in Messages, m \in Messages'
        PROVE  messages'[m].room \in InUse'
               /\ messages'[m].sender \in rooms'[messages'[m].room].members
    BY <1>1, <1>2, MessageType, MessagesStep DEF Grows
  <1>3. ASSUME NEW s \in Sessions, NEW t \in 0..LastTick, InsertMessage(s, t)
        PROVE  messages'[Len(messages) + 1].room \in InUse'
               /\ messages'[Len(messages) + 1].sender \in
                    rooms'[messages'[Len(messages) + 1].room].members
    <2>1. /\ req[s].room \in RoomIds /\ req[s].user \in rooms[req[s].room].members
      BY <1>3 DEF InsertMessage, Running, TypeInv, CallsKept, Keeps
    <2>2. req[s].room \in InUse BY <2>1, MembersMeanUse
    <2>3. messages'[Len(messages) + 1] = Message(s, t, FALSE) BY <1>3, InsertedMessage
    <2> QED BY <1>1, <2>1, <2>2, <2>3 DEF Message
  <1>4. \/ Messages' = Messages
        \/ \E s \in Sessions, t \in 0..LastTick :
             InsertMessage(s, t) /\ Messages' = Messages \cup {Len(messages) + 1}
    <2>1. CASE UNCHANGED messages BY <2>1 DEF Messages
    <2>2. ASSUME NEW s \in Sessions, NEW t \in 0..LastTick, InsertMessage(s, t)
          PROVE  Messages' = Messages \cup {Len(messages) + 1}
      BY <2>2, InsertedMessage
    <2>3. ASSUME NEW s \in Sessions, Push(s) PROVE Messages' = Messages
      BY <2>3, PushedMessage
    <2> QED BY <2>1, <2>2, <2>3 DEF Frames
  <1> QED BY <1>2, <1>3, <1>4

-----------------------------------------------------------------------------
(* Requests *)

LEMMA KeptLater ==
  ASSUME TypeInv, Frames, NEW c, Keeps(c, rooms, Len(messages))
  PROVE  Keeps(c, rooms', Len(messages'))
  <1>1. Messages \subseteq Messages' BY MessagesStep
  <1>2. ASSUME c.room \in RoomIds, c.user \in rooms[c.room].members
        PROVE  c.user \in rooms'[c.room].members
    BY <1>2, MembersMeanUse, RoomsStep
  <1> QED BY <1>1, <1>2 DEF Keeps, Messages

LEMMA OneMoves ==
  ASSUME TypeInv, Frames, NEW s \in Sessions, NEW c \in Calls, Keeps(c, rooms', Len(messages')),
         req' = [req EXCEPT ![s] = c]
  PROVE  CallsKept'
  <1>1. req \in [Sessions -> Calls] BY DEF TypeInv, CallsKept
  <1>2. req' \in [Sessions -> Calls] BY <1>1
  <1>3. ASSUME NEW r \in Sessions PROVE Keeps(req'[r], rooms', Len(messages'))
    <2>1. CASE r = s BY <1>1, <2>1
    <2>2. CASE r # s
      <3>1. req'[r] = req[r] BY <1>1, <2>2
      <3>2. Keeps(req[r], rooms, Len(messages)) BY DEF TypeInv, CallsKept
      <3> QED BY <3>1, <3>2, KeptLater
    <2> QED BY <2>1, <2>2
  <1> QED BY <1>2, <1>3 DEF CallsKept

LEMMA NoCallFine == NoCall \in Calls /\ \A rs, n : Keeps(NoCall, rs, n)
  BY DEF NoCall, Calls, Operations, Stages, Keeps

LEMMA Replies ==
  ASSUME TypeInv, Frames, NEW s \in Sessions, Reply(s)
  PROVE  CallsKept'
  BY NoCallFine, OneMoves DEF Reply

LEMMA Begins ==
  ASSUME TypeInv, Frames, NEW s \in Sessions, NEW c \in Calls, Keeps(c, rooms, Len(messages)),
         Begin(s, c)
  PROVE  CallsKept'
  BY KeptLater, OneMoves DEF Begin

LEMMA GoesTo ==
  ASSUME TypeInv, Frames, NEW s \in Sessions, NEW at \in Stages, at # "push",
         at \in {"existing", "reread"} => req[s].op \in {"profile", "rotate"}, GoTo(s, at)
  PROVE  CallsKept'
  <1> DEFINE c == [req[s] EXCEPT !.at = at]
  <1>1. req[s] \in Calls /\ Keeps(req[s], rooms, Len(messages)) BY DEF TypeInv, CallsKept
  <1>2. c \in Calls BY <1>1 DEF Calls
  <1>3. Keeps(c, rooms, Len(messages)) BY <1>1 DEF Keeps, Calls
  <1>4. req' = [req EXCEPT ![s] = c] BY DEF GoTo, TypeInv, CallsKept
  <1> HIDE DEF c
  <1> QED BY <1>2, <1>3, <1>4, KeptLater, OneMoves

LEMMA RequestsStay ==
  ASSUME TypeInv, Frames, UNCHANGED req
  PROVE  CallsKept'
  BY KeptLater DEF TypeInv, CallsKept

LEMMA RequestsStep == ASSUME TypeInv, Next PROVE CallsKept'
  <1>0. Frames BY StepsWrite
  <1>1. ASSUME NEW s \in Sessions, CreateRoom(s) PROVE CallsKept'
    <2>1. CASE Belong(s) BY <1>0, <2>1, Replies, GoesTo DEF Belong, Stages
    <2>2. CASE FindDm(s) BY <1>0, <2>2, Replies, GoesTo DEF FindDm, Stages
    <2>3. ASSUME NEW u \in Users, NEW v \in Users, BeginDm(s, u, v) PROVE CallsKept'
      <3> DEFINE c == [NoCall EXCEPT !.op = "createRoom", !.at = "belongs", !.user = u,
                                     !.type = "dm", !.with = {v}]
      <3>1. c \in Calls /\ Keeps(c, rooms, Len(messages)) BY DEF NoCall, Calls, Operations, Stages, Keeps
      <3>2. Begin(s, c) BY <2>3 DEF BeginDm
      <3> HIDE DEF c
      <3> QED BY <1>0, <3>1, <3>2, Begins
    <2>4. ASSUME NEW u \in Users, NEW M \in SUBSET Users, BeginGroup(s, u, M) PROVE CallsKept'
      <3> DEFINE c == [NoCall EXCEPT !.op = "createRoom", !.at = "belongs", !.user = u,
                                     !.type = "group", !.with = M]
      <3>1. c \in Calls /\ Keeps(c, rooms, Len(messages)) BY DEF NoCall, Calls, Operations, Stages, Keeps
      <3>2. Begin(s, c) BY <2>4 DEF BeginGroup
      <3> HIDE DEF c
      <3> QED BY <1>0, <3>1, <3>2, Begins
    <2>5. ASSUME NEW r \in RoomIds, InsertRoom(s, r) PROVE CallsKept'
      BY <1>0, <2>5, Replies DEF InsertRoom
    <2> QED BY <1>1, <2>1, <2>2, <2>3, <2>4, <2>5 DEF CreateRoom
  <1>2. ASSUME NEW s \in Sessions, SendMessage(s) PROVE CallsKept'
    <2>1. CASE Push(s) BY <1>0, <2>1, Replies DEF Push
    <2>2. ASSUME NEW u \in Users, NEW r \in RoomIds, BeginSend(s, u, r) PROVE CallsKept'
      <3> DEFINE c == [NoCall EXCEPT !.op = "send", !.at = "insert", !.user = u, !.room = r,
                                     !.since = clock, !.after = Answered]
      <3>1. clock \in Nat BY MessagingAssumption DEF TypeInv, MessagingTypeOK
      <3>2. Answered \subseteq 1..MaxMessages
        BY MessagesAreRows, MessagingAssumption DEF Answered, Messages
      <3>3. r \in RoomIds /\ u \in rooms[r].members BY <2>2 DEF BeginSend, IsMember
      <3>4. c \in Calls BY <3>1, <3>2 DEF NoCall, Calls, Operations, Stages
      <3>5. Keeps(c, rooms, Len(messages)) BY <3>3 DEF NoCall, Keeps
      <3>6. Begin(s, c) BY <2>2 DEF BeginSend
      <3> HIDE DEF c
      <3> QED BY <1>0, <3>4, <3>5, <3>6, Begins
    <2>3. ASSUME NEW t \in 0..LastTick, InsertMessage(s, t) PROVE CallsKept'
      <3> DEFINE n == Len(messages) + 1
                 c == [req[s] EXCEPT !.at = "push", !.message = n, !.after = {}]
      <3>1. req[s] \in Calls /\ Keeps(req[s], rooms, Len(messages)) BY DEF TypeInv, CallsKept
      <3>2. n \in Nat /\ n \in 1..n /\ Len(messages') = n
        <4>1. Len(messages) \in Nat BY MessagesAreRows
        <4>2. Len(messages') = n BY <2>3, InsertedMessage
        <4> QED BY <4>1, <4>2
      <3>3. req' = [req EXCEPT ![s].at = "push", ![s].message = n, ![s].after = {}]
        BY <2>3 DEF InsertMessage
      <3>4. req[s].op = "send" BY <2>3 DEF InsertMessage, Running
      <3> HIDE DEF n
      <3>5. c \in Calls BY <3>1, <3>2 DEF Calls, Stages
      <3>6. Keeps(req[s], rooms', n) BY <1>0, <3>1, <3>2, KeptLater
      <3>7. c.op = "send" /\ c.user = req[s].user /\ c.room = req[s].room /\ c.at = "push"
            /\ c.message = n
        BY <3>1, <3>4 DEF Calls
      <3>8. Keeps(c, rooms', n) BY <3>2, <3>4, <3>6, <3>7 DEF Keeps
      <3>9. req' = [req EXCEPT ![s] = c] BY <3>3 DEF TypeInv, CallsKept
      <3> HIDE DEF c
      <3> QED BY <1>0, <3>2, <3>5, <3>8, <3>9, OneMoves
    <2> QED BY <1>2, <2>1, <2>2, <2>3 DEF SendMessage
  <1>3. ASSUME NEW s \in Sessions, GetMessages(s) PROVE CallsKept'
    <2>1. ASSUME NEW u \in Users, NEW k \in SocketIds, NEW r \in RoomIds, BeginPage(s, u, k, r)
          PROVE  CallsKept'
      <3> DEFINE c == [NoCall EXCEPT !.op = "page", !.at = "read", !.user = u, !.room = r]
      <3>1. r \in RoomIds /\ u \in rooms[r].members BY <2>1 DEF BeginPage, IsMember
      <3>2. c \in Calls /\ Keeps(c, rooms, Len(messages)) BY <3>1 DEF NoCall, Calls, Operations, Stages, Keeps
      <3>3. Begin(s, c) BY <2>1 DEF BeginPage
      <3> HIDE DEF c
      <3> QED BY <1>0, <3>2, <3>3, Begins
    <2>2. ASSUME NEW rows \in SUBSET (DOMAIN messages), ReadPage(s, rows) PROVE CallsKept'
      BY <1>0, <2>2, Replies DEF ReadPage
    <2> QED BY <1>3, <2>1, <2>2 DEF GetMessages
  <1>4. ASSUME NEW s \in Sessions, MarkRead(s) PROVE CallsKept'
    <2>1. ASSUME NEW u \in Users, NEW r \in RoomIds, BeginMark(s, u, r) PROVE CallsKept'
      <3> DEFINE c == [NoCall EXCEPT !.op = "mark", !.at = "mark", !.user = u, !.room = r,
                                     !.since = clock]
      <3>1. r \in RoomIds /\ u \in rooms[r].members BY <2>1 DEF BeginMark, IsMember
      <3>2. clock \in Nat BY MessagingAssumption DEF TypeInv, MessagingTypeOK
      <3>3. c \in Calls /\ Keeps(c, rooms, Len(messages)) BY <3>1, <3>2 DEF NoCall, Calls, Operations, Stages, Keeps
      <3>4. Begin(s, c) BY <2>1 DEF BeginMark
      <3> HIDE DEF c
      <3> QED BY <1>0, <3>3, <3>4, Begins
    <2>2. ASSUME NEW t \in 0..LastTick, Mark(s, t) PROVE CallsKept'
      BY <1>0, <2>2, Replies DEF Mark
    <2> QED BY <1>4, <2>1, <2>2 DEF MarkRead
  <1>5. ASSUME NEW s \in Sessions, Voice(s) PROVE CallsKept'
    <2>1. CASE ReadExisting(s)
      BY <1>0, <2>1, Replies, GoesTo DEF ReadExisting, Ensured, Stages
    <2>2. CASE Reread(s)
      BY <1>0, <2>2, Replies, GoesTo DEF Reread, Ensured, Stages
    <2>3. CASE InsertKey(s) BY <1>0, <2>3, GoesTo DEF InsertKey, Stages
    <2>4. CASE Rotate(s) BY <1>0, <2>4, Replies DEF Rotate
    <2>5. ASSUME NEW op \in {"profile", "rotate"}, NEW g \in Groups, BeginEnsure(s, op, g)
          PROVE  CallsKept'
      <3> DEFINE c == [NoCall EXCEPT !.op = op, !.at = "existing", !.group = g]
      <3>1. c \in Calls /\ Keeps(c, rooms, Len(messages)) BY DEF NoCall, Calls, Operations, Stages, Keeps
      <3>2. Begin(s, c) BY <2>5 DEF BeginEnsure
      <3> HIDE DEF c
      <3> QED BY <1>0, <3>1, <3>2, Begins
    <2> QED BY <1>5, <2>1, <2>2, <2>3, <2>4, <2>5 DEF Voice
  <1>6. CASE Restart BY <1>6, NoCallFine DEF Restart, CallsKept
  <1>7. ASSUME NEW k \in SocketIds, Socket(k) PROVE CallsKept'
    BY <1>0, <1>7, RequestsStay DEF Socket, LinkDrops, HandleDisconnect, Connect
  <1>8. ASSUME NEW u \in Users, Client(u) PROVE CallsKept'
    BY <1>0, <1>8, RequestsStay DEF Client, CloseView, RemoveColleague, MoreNotes, OpenNotes, ListNotes
  <1>9. ASSUME NEW n \in notices, Notify(n) PROVE CallsKept'
    BY <1>0, <1>9, RequestsStay DEF Notify
  <1>10. ASSUME NEW g \in Groups, CreateGroup(g) \/ DeleteGroup(g) PROVE CallsKept'
    BY <1>0, <1>10, RequestsStay DEF CreateGroup, DeleteGroup
  <1>11. CASE Tick BY <1>0, <1>11, RequestsStay DEF Tick
  <1> QED BY <1>1, <1>2, <1>3, <1>4, <1>5, <1>6, <1>7, <1>8, <1>9, <1>10, <1>11
          DEF Next, Serve

-----------------------------------------------------------------------------
(* The other columns *)

LEMMA ClocksStep ==
  ASSUME TypeInv, Frames
  PROVE  /\ clock' \in 0..LastTick /\ former' \subseteq Users
         /\ lastRead' \in [RoomIds -> [Users -> 0..LastTick \cup {None}]]
  <1>1. clock' \in 0..LastTick
    BY MessagingAssumption DEF Frames, Tick, TypeInv, MessagingTypeOK
  <1>2. former' \subseteq Users BY DEF Frames, RemoveColleague, TypeInv, MessagingTypeOK
  <1>3. ASSUME NEW s \in Sessions, NEW t \in 0..LastTick, Mark(s, t)
        PROVE  lastRead' \in [RoomIds -> [Users -> 0..LastTick \cup {None}]]
    BY <1>3 DEF Mark, TypeInv, MessagingTypeOK
  <1> QED BY <1>1, <1>2, <1>3 DEF Frames, TypeInv, MessagingTypeOK

Heard == {q \in Seq(1..MaxMessages) : \A i \in DOMAIN q : q[i] \in Messages}

LEMMA SocketType ==
  ASSUME TypeInv, NEW k \in SocketIds
  PROVE  sockets[k] \in SocketStates /\ sockets[k].got \in Heard
  BY DEF TypeInv, MessagingTypeOK, Heard, SocketStates

LEMMA SocketsFrom ==
  ASSUME TypeInv, Frames, NEW K, K \in [SocketIds -> SocketStates], sockets' = K,
         \A k \in SocketIds : K[k].got \in Heard
  PROVE  /\ sockets' \in [SocketIds -> SocketStates]
         /\ \A k \in SocketIds : \A i \in DOMAIN sockets'[k].got : sockets'[k].got[i] \in Messages'
  <1>1. Messages \subseteq Messages' BY MessagesStep
  <1> QED BY <1>1 DEF Heard

\* A socket that changes in some way other than by a message.
LEMMA SocketUpdated ==
  ASSUME NEW c \in SocketStates
  PROVE  /\ [c EXCEPT !.up = FALSE] \in SocketStates
         /\ [c EXCEPT !.registered = FALSE] \in SocketStates
         /\ [c EXCEPT !.up = FALSE, !.registered = FALSE] \in SocketStates
         /\ [c EXCEPT !.up = FALSE].got = c.got
         /\ [c EXCEPT !.registered = FALSE].got = c.got
         /\ [c EXCEPT !.up = FALSE, !.registered = FALSE].got = c.got
         /\ \A q \in Seq(1..MaxMessages) : [c EXCEPT !.got = q] \in SocketStates
                                           /\ [c EXCEPT !.got = q].got = q
  BY DEF SocketStates

\* What Push leaves of a socket.
LEMMA PushedSocket ==
  ASSUME TypeInv, NEW s \in Sessions, Push(s), NEW k \in SocketIds
  PROVE  \/ sockets'[k] = sockets[k]
         \/ /\ sockets'[k] = [sockets[k] EXCEPT !.got = Append(sockets[k].got, req[s].message)]
            /\ \E u \in Recipients(req[s].message) : k \in Reached(u)
  <1>1. sockets' = MessageNew(req[s].message) BY DEF Push
  <1> QED BY <1>1 DEF MessageNew

LEMMA SocketsStep ==
  ASSUME TypeInv, Frames
  PROVE  /\ sockets' \in [SocketIds -> SocketStates]
         /\ \A k \in SocketIds : \A i \in DOMAIN sockets'[k].got : sockets'[k].got[i] \in Messages'
  <1>1. sockets \in [SocketIds -> SocketStates] BY DEF TypeInv, MessagingTypeOK
  <1>2. SUFFICES sockets' \in [SocketIds -> SocketStates]
                 /\ \A k \in SocketIds : sockets'[k].got \in Heard
    BY SocketsFrom
  <1>3. CASE UNCHANGED sockets BY <1>1, <1>3, SocketType
  <1>4. ASSUME NEW k \in SocketIds, LinkDrops(k) PROVE sockets' \in [SocketIds -> SocketStates]
                 /\ \A j \in SocketIds : sockets'[j].got \in Heard
    <2>1. sockets' = [sockets EXCEPT ![k] = [sockets[k] EXCEPT !.up = FALSE]]
      BY <1>1, <1>4 DEF LinkDrops
    <2> QED BY <1>1, <2>1, SocketType, SocketUpdated
  <1>5. ASSUME NEW k \in SocketIds, HandleDisconnect(k)
        PROVE  sockets' \in [SocketIds -> SocketStates]
               /\ \A j \in SocketIds : sockets'[j].got \in Heard
    <2>1. sockets' = [sockets EXCEPT ![k] = [sockets[k] EXCEPT !.registered = FALSE]]
      BY <1>1, <1>5 DEF HandleDisconnect, UnregisterClient
    <2> QED BY <1>1, <2>1, SocketType, SocketUpdated
  <1>6. ASSUME NEW k \in SocketIds, NEW u \in Users, Connect(k, u)
        PROVE  sockets' \in [SocketIds -> SocketStates]
               /\ \A j \in SocketIds : sockets'[j].got \in Heard
    <2> DEFINE c == [user |-> u, up |-> TRUE, registered |-> TRUE, got |-> <<>>]
    <2>1. c \in SocketStates /\ c.got \in Heard BY DEF SocketStates, Heard
    <2>2. sockets' = [sockets EXCEPT ![k] = c] BY <1>6 DEF Connect
    <2> HIDE DEF c
    <2> QED BY <1>1, <2>1, <2>2, SocketType
  <1>7. ASSUME NEW s \in Sessions, Push(s)
        PROVE  sockets' \in [SocketIds -> SocketStates]
               /\ \A j \in SocketIds : sockets'[j].got \in Heard
    <2>1. req[s].message \in Messages BY <1>7, PushedMessage
    <2>2. ASSUME NEW k \in SocketIds
          PROVE  sockets'[k] \in SocketStates /\ sockets'[k].got \in Heard
      <3> DEFINE m == req[s].message
                 q == Append(sockets[k].got, m)
      <3>1. sockets[k] \in SocketStates /\ sockets[k].got \in Heard BY SocketType
      <3>2. m \in 1..MaxMessages
        BY <2>1, MessagesAreRows, MessagingAssumption DEF Messages
      <3> HIDE DEF m
      <3>3. q \in Seq(1..MaxMessages) /\ \A i \in DOMAIN q : q[i] \in Messages
        <4>1. m \in Messages BY <2>1 DEF m
        <4> QED BY <3>1, <3>2, <4>1, Appended DEF Heard
      <3>4. q \in Heard BY <3>3 DEF Heard
      <3> HIDE DEF q
      <3>5. sockets'[k] = sockets[k] \/ sockets'[k] = [sockets[k] EXCEPT !.got = q]
        BY <1>7, PushedSocket DEF q, m
      <3>6. [sockets[k] EXCEPT !.got = q] \in SocketStates /\ [sockets[k] EXCEPT !.got = q].got = q
        BY <3>1, <3>3, SocketUpdated
      <3> QED BY <3>1, <3>4, <3>5, <3>6
    <2>3. DOMAIN sockets' = SocketIds /\ sockets' = [k \in SocketIds |-> sockets'[k]]
      BY <1>7 DEF Push, MessageNew
    <2> QED BY <2>2, <2>3
  <1>8. CASE Restart
    <2>1. sockets' = [k \in SocketIds |-> [sockets[k] EXCEPT !.up = FALSE, !.registered = FALSE]]
      BY <1>8 DEF Restart
    <2> QED BY <2>1, SocketType, SocketUpdated
  <1> QED BY <1>3, <1>4, <1>5, <1>6, <1>7, <1>8 DEF Frames

\* A view turned to its first page, grown by a message or by a page.
LEMMA ViewUpdated ==
  ASSUME NEW v \in Views
  PROVE  /\ \A r \in RoomIds, k \in SocketIds : [v EXCEPT !.room = r, !.socket = k] \in Views
         /\ \A X \in SUBSET (1..MaxMessages) : [v EXCEPT !.got = @ \cup X] \in Views
         /\ \A t \in Nat : [v EXCEPT !.before = t] \in Views
         /\ \A X \in SUBSET (1..MaxMessages), t \in Nat :
              [v EXCEPT !.got = @ \cup X, !.before = t, !.cuts = @ \cup {t}] \in Views
  <1>1. ASSUME NEW X \in SUBSET (1..MaxMessages), NEW t \in Nat
        PROVE  [v EXCEPT !.got = @ \cup X, !.before = t, !.cuts = @ \cup {t}] \in Views
    <2>1. v.cuts \cup {t} \in SUBSET Nat /\ v.got \cup X \in SUBSET (1..MaxMessages)
      BY DEF Views
    <2> QED BY <2>1 DEF Views
  <1> QED BY <1>1 DEF Views

LEMMA DivBounds ==
  ASSUME NEW t \in Nat
  PROVE  /\ Millisecond(t) \in Nat
         /\ Millisecond(t) * Grain <= t
         /\ \A n \in Nat : t >= n * Grain => Millisecond(t) >= n
  BY MessagingAssumption DEF Millisecond

LEMMA ViewsStep ==
  ASSUME TypeInv, Frames
  PROVE  views' \in [Users -> Views]
  <1>1. views \in [Users -> Views] BY DEF TypeInv, MessagingTypeOK
  <1>2. CASE UNCHANGED views BY <1>1, <1>2
  <1>3. ASSUME NEW u \in Users, CloseView(u) PROVE views' \in [Users -> Views]
    <2>1. NoView \in Views BY DEF NoView, Views
    <2>2. views' = [views EXCEPT ![u] = NoView] BY <1>3 DEF CloseView
    <2> QED BY <1>1, <2>1, <2>2
  <1>4. ASSUME NEW s \in Sessions, NEW u \in Users, NEW k \in SocketIds, NEW r \in RoomIds,
               BeginPage(s, u, k, r)
        PROVE  views' \in [Users -> Views]
    <2>1. \/ views' = [views EXCEPT ![u].room = r, ![u].socket = k]
          \/ views' = views
      BY <1>4 DEF BeginPage
    <2>2. CASE views' = [views EXCEPT ![u].room = r, ![u].socket = k]
      <3>1. views' = [views EXCEPT ![u] = [views[u] EXCEPT !.room = r, !.socket = k]]
        BY <1>1, <2>2
      <3> QED BY <1>1, <3>1, ViewUpdated
    <2> QED BY <1>1, <2>1, <2>2
  <1>5. ASSUME NEW s \in Sessions, NEW rows \in SUBSET (DOMAIN messages), ReadPage(s, rows)
        PROVE  views' \in [Users -> Views]
    <2> DEFINE u == req[s].user
    <2>1. u \in Users BY <1>5 DEF ReadPage, Running, TypeInv, CallsKept, Keeps
    <2>2. rows \subseteq Messages /\ rows \subseteq 1..MaxMessages
      BY MessagesAreRows, MessagingAssumption DEF Messages
    <2>3. CASE views' = [views EXCEPT ![u].before = 0]
      <3>1. views' = [views EXCEPT ![u] = [views[u] EXCEPT !.before = 0]] BY <1>1, <2>1, <2>3
      <3> QED BY <1>1, <2>1, <3>1, ViewUpdated
    <2>4. ASSUME NEW oldest \in rows, views' = [views EXCEPT ![u] = Turned(@, rows, oldest)]
          PROVE  views' \in [Users -> Views]
      <3>1. Millisecond(messages[oldest].at) \in Nat BY <2>2, MessageType, DivBounds
      <3>2. Turned(views[u], rows, oldest) \in Views
        BY <1>1, <2>1, <2>2, <3>1, ViewUpdated DEF Turned
      <3>3. views' = [views EXCEPT ![u] = Turned(views[u], rows, oldest)] BY <2>4
      <3> QED BY <1>1, <2>1, <3>2, <3>3
    <2> QED BY <1>5, <2>3, <2>4 DEF ReadPage
  <1>6. ASSUME NEW s \in Sessions, Push(s) PROVE views' \in [Users -> Views]
    <2> DEFINE m == req[s].message
               K == UNION {Reached(u) : u \in Recipients(m)}
    <2>1. m \in Messages BY <1>6, PushedMessage
    <2>2. m \in 1..MaxMessages BY <2>1, MessagesAreRows, MessagingAssumption DEF Messages
    <2>3. views' = ViewsWith(m, K) BY <1>6 DEF Push
    <2> HIDE DEF m, K
    <2>4. \A u \in Users : [views[u] EXCEPT !.got = @ \cup {m}] \in Views
      BY <1>1, <2>2, ViewUpdated
    <2> QED BY <1>1, <2>3, <2>4 DEF ViewsWith
  <1> QED BY <1>2, <1>3, <1>4, <1>5, <1>6 DEF Frames

LEMMA NoticesStep ==
  ASSUME TypeInv, Frames
  PROVE  /\ notices' \subseteq Messages' \X Users \X {"insert", "push"}
         /\ notes' \subseteq Messages' \X Users \X (0..LastTick)
  <1>1. Messages \subseteq Messages' BY MessagesStep
  <1>2. /\ notices \subseteq Messages \X Users \X {"insert", "push"}
        /\ notes \subseteq Messages \X Users \X (0..LastTick)
    BY DEF TypeInv, MessagingTypeOK
  <1>3. ASSUME NEW n \in notices, Notify(n)
        PROVE  /\ notices' \subseteq Messages' \X Users \X {"insert", "push"}
               /\ notes' \subseteq Messages' \X Users \X (0..LastTick)
    <2>1. n[1] \in Messages /\ n[1] \in Messages' /\ n[2] \in Users BY <1>1, <1>2
    <2>2. notices' \subseteq notices \cup {<<n[1], n[2], "push">>}
      BY <1>3 DEF Notify
    <2>3. \A t \in messages[n[1]].at .. clock : t \in 0..LastTick
      BY <2>1, MessageType, MessagingAssumption DEF TypeInv, MessagingTypeOK
    <2>4. \/ notes' = notes
          \/ \E t \in messages[n[1]].at .. clock : notes' = notes \cup {<<n[1], n[2], t>>}
      BY <1>3 DEF Notify
    <2>5. notices' \subseteq Messages' \X Users \X {"insert", "push"} BY <1>1, <1>2, <2>1, <2>2
    <2>6. notes' \subseteq Messages' \X Users \X (0..LastTick) BY <1>1, <1>2, <2>1, <2>3, <2>4
    <2> QED BY <2>5, <2>6
  <1>4. ASSUME NEW s \in Sessions, Push(s)
        PROVE  notices' \subseteq Messages' \X Users \X {"insert", "push"}
    <2>1. req[s].message \in Messages BY <1>4, PushedMessage
    <2>2. \A u \in Recipients(req[s].message) : u \in Users
      <3>1. messages[req[s].message].room \in RoomIds BY <2>1, MessageType DEF InUse
      <3> QED BY <3>1, MembersMeanUse DEF Recipients
    <2>3. notices' = notices \cup {<<req[s].message, u, "insert">> :
                                     u \in Recipients(req[s].message)}
      BY <1>4 DEF Push
    <2> QED BY <1>1, <1>2, <2>1, <2>2, <2>3
  <1>5. notices' \subseteq notices \/ (\E n \in notices : Notify(n)) \/ \E s \in Sessions : Push(s)
    BY DEF Frames, Restart
  <1>6. notes' = notes \/ \E n \in notices : Notify(n) BY DEF Frames
  <1> QED BY <1>1, <1>2, <1>3, <1>4, <1>5, <1>6


-----------------------------------------------------------------------------
(* Voice keys *)

LEMMA KeyType ==
  ASSUME KeysFit, NEW g \in Groups
  PROVE  /\ voice[g] \in Keys /\ voice[g].version \in Nat /\ voice[g].key \in Nat
         /\ minted \in Nat /\ Fits(voice[g], minted)
  BY MessagingAssumption DEF KeysFit, Keys

LEMMA HandedType ==
  ASSUME KeysFit, NEW h \in handed
  PROVE  /\ h[1] \in Groups /\ h[2] \in Nat \ {0} /\ h[3] \in Nat
         /\ HandedFits(h, voice[h[1]], minted)
  BY DEF KeysFit

\* A new key for a group, with the next version.
LEMMA NewKey ==
  ASSUME KeysFit, NEW g \in Groups, minted < MaxKeys, minted' = minted + 1, handed' = handed,
         voice' = [voice EXCEPT ![g] = [key |-> minted + 1, version |-> voice[g].version + 1]]
  PROVE  KeysFit'
  <1> DEFINE row == [key |-> minted + 1, version |-> voice[g].version + 1]
  <1>1. minted \in Nat /\ MaxKeys \in Nat /\ minted + 1 \in 0..MaxKeys
    BY MessagingAssumption DEF KeysFit
  <1>2. voice[g].version \in Nat /\ voice[g].version <= minted BY KeyType DEF Fits
  <1>3. row \in Keys /\ row.key = minted + 1 /\ row.version = voice[g].version + 1
    BY <1>1, <1>2 DEF Keys
  <1> HIDE DEF row
  <1>4. voice' = [voice EXCEPT ![g] = row] BY DEF row
  <1>5. voice'[g] = row /\ \A h \in Groups \ {g} : voice'[h] = voice[h] BY <1>4 DEF KeysFit
  <1>6. minted' \in 0..MaxKeys /\ voice' \in [Groups -> Keys]
    BY <1>1, <1>3, <1>4 DEF KeysFit
  <1>7. ASSUME NEW h \in Groups PROVE Fits(voice'[h], minted')
    <2>1. CASE h = g BY <1>1, <1>2, <1>3, <1>5, <2>1 DEF Fits
    <2>2. CASE h # g
      <3>1. voice'[h] = voice[h] BY <1>5, <2>2
      <3> QED BY <1>1, <3>1, KeyType DEF Fits
    <2> QED BY <2>1, <2>2
  <1>8. ASSUME NEW h \in handed PROVE HandedFits(h, voice'[h[1]], minted')
    <2>1. /\ h[1] \in Groups /\ h[2] \in Nat /\ h[3] \in Nat
          /\ HandedFits(h, voice[h[1]], minted)
      BY HandedType
    <2>2. CASE h[1] = g BY <1>1, <1>2, <1>3, <1>5, <2>1, <2>2 DEF HandedFits
    <2>3. CASE h[1] # g
      <3>1. voice'[h[1]] = voice[h[1]] BY <1>5, <2>1, <2>3
      <3> QED BY <1>1, <2>1, <3>1 DEF HandedFits
    <2> QED BY <2>2, <2>3
  <1> QED BY <1>6, <1>7, <1>8 DEF KeysFit

\* A group's key is handed out.
LEMMA KeyHanded ==
  ASSUME KeysFit, NEW g \in Groups, voice[g] # NoKey, UNCHANGED <<voice, minted>>,
         handed' = handed \cup {<<g, voice[g].version, voice[g].key>>}
  PROVE  KeysFit'
  <1> DEFINE new == <<g, voice[g].version, voice[g].key>>
  <1>1. new \in Groups \X (Nat \ {0}) \X Nat /\ HandedFits(new, voice[new[1]], minted)
    BY KeyType DEF Fits, HandedFits
  <1> HIDE DEF new
  <1>2. handed' = handed \cup {new} BY DEF new
  <1>3. handed' \subseteq Groups \X (Nat \ {0}) \X Nat BY <1>1, <1>2 DEF KeysFit
  <1>4. \A h \in handed' : HandedFits(h, voice[h[1]], minted) BY <1>1, <1>2 DEF KeysFit
  <1> QED BY <1>3, <1>4 DEF KeysFit

LEMMA KeysStay ==
  ASSUME KeysFit, UNCHANGED <<voice, minted, handed>>
  PROVE  KeysFit'
  BY DEF KeysFit

LEMMA FirstKey == ASSUME NEW g, voice[g] = NoKey PROVE voice[g].version + 1 = 1
  BY DEF NoKey

LEMMA KeysStep == ASSUME TypeInv, Next PROVE KeysFit'
  <1>1. KeysFit BY DEF TypeInv
  <1>2. ASSUME NEW s \in Sessions, InsertKey(s) PROVE KeysFit'
    <2>1. req[s].group \in Groups
      BY <1>2 DEF InsertKey, TypeInv, CallsKept, Keeps
    <2>2. CASE req[s].group \in live /\ voice[req[s].group] = NoKey
      BY <1>1, <1>2, <2>1, <2>2, NewKey, FirstKey DEF InsertKey, voiceVars
    <2>3. CASE ~(req[s].group \in live /\ voice[req[s].group] = NoKey)
      <3>1. voice' = voice /\ minted' = minted + 1 /\ handed' = handed /\ minted < MaxKeys
        BY <1>2, <2>3 DEF InsertKey
      <3>2. minted \in Nat /\ minted' \in 0..MaxKeys
        BY <1>1, <3>1, MessagingAssumption DEF KeysFit
      <3>3. ASSUME NEW g \in Groups PROVE Fits(voice[g], minted + 1)
        BY <1>1, <3>2, KeyType DEF Fits
      <3>4. ASSUME NEW h \in handed PROVE HandedFits(h, voice[h[1]], minted + 1)
        BY <1>1, <3>2, HandedType DEF HandedFits
      <3> QED BY <1>1, <3>1, <3>2, <3>3, <3>4 DEF KeysFit
    <2> QED BY <2>2, <2>3
  <1>3. ASSUME NEW s \in Sessions, Rotate(s) PROVE KeysFit'
    <2>1. req[s].group \in Groups
      BY <1>3 DEF Rotate, Running, TypeInv, CallsKept, Keeps
    <2>2. voice' = [voice EXCEPT ![req[s].group] =
                      [key |-> minted + 1, version |-> voice[req[s].group].version + 1]]
      BY <1>3 DEF Rotate
    <2> QED BY <1>1, <1>3, <2>1, <2>2, NewKey DEF Rotate
  <1>4. ASSUME NEW g \in Groups, CreateGroup(g) PROVE KeysFit'
    BY <1>1, <1>4, NewKey, FirstKey DEF CreateGroup
  <1>5. ASSUME NEW s \in Sessions, ReadExisting(s) \/ Reread(s) PROVE KeysFit'
    <2>1. req[s].group \in Groups
      BY <1>5 DEF ReadExisting, Reread, TypeInv, CallsKept, Keeps
    <2>2. UNCHANGED <<voice, minted>> BY <1>5 DEF ReadExisting, Reread
    <2>3. \/ handed' = handed
          \/ /\ voice[req[s].group] # NoKey
             /\ handed' = handed \cup {<<req[s].group, voice[req[s].group].version,
                                         voice[req[s].group].key>>}
      BY <1>5 DEF ReadExisting, Reread, Ensured
    <2> QED BY <1>1, <2>1, <2>2, <2>3, KeyHanded, KeysStay
  <1>6. \/ UNCHANGED <<voice, minted, handed>>
        \/ \E s \in Sessions : InsertKey(s) \/ Rotate(s) \/ ReadExisting(s) \/ Reread(s)
        \/ \E g \in Groups : CreateGroup(g)
    BY StepsWrite DEF Frames
  <1> QED BY <1>1, <1>2, <1>3, <1>4, <1>5, <1>6, KeysStay

-----------------------------------------------------------------------------

LEMMA TypeInit == ASSUME Init PROVE TypeInv
  <1>1. MessagingTypeOK
    <2>1. messages \in Seq(MessageRows) /\ Len(messages) = 0 /\ Messages = {}
      BY DEF Init, Messages
    <2>2. NoSocket \in SocketStates /\ NoSocket.got = <<>> BY DEF NoSocket, SocketStates
    <2>3. NoView \in Views BY DEF NoView, Views
    <2>4. NoKey \in Keys BY MessagingAssumption DEF NoKey, Keys
    <2>5. /\ clock \in 0..LastTick /\ former \subseteq Users /\ minted \in 0..MaxKeys
          /\ rooms \in [RoomIds -> Rooms \cup {NoRoom}]
          /\ lastRead \in [RoomIds -> [Users -> 0..LastTick \cup {None}]]
          /\ Len(messages) <= MaxMessages
      BY <2>1, MessagingAssumption DEF Init
    <2>6. /\ sockets \in [SocketIds -> SocketStates]
          /\ \A k \in SocketIds : \A i \in DOMAIN sockets[k].got : sockets[k].got[i] \in Messages
      BY <2>2 DEF Init
    <2>7. /\ views \in [Users -> Views] /\ voice \in [Groups -> Keys]
          /\ notices = {} /\ notes = {}
      BY <2>3, <2>4 DEF Init
    <2>8. \A s \in Sessions : req[s].at # "push" BY DEF Init, NoCall
    <2> QED BY <2>1, <2>5, <2>6, <2>7, <2>8 DEF MessagingTypeOK, Keys
  <1>2. CallsKept BY NoCallFine DEF Init, CallsKept
  <1>3. KeysFit BY MessagingAssumption DEF Init, KeysFit, Fits, Keys, NoKey
  <1> QED BY <1>1, <1>2, <1>3 DEF TypeInv

LEMMA TypeStep == ASSUME TypeInv, [Next]_vars PROVE TypeInv'
  <1>1. CASE Next
    <2>1. Frames BY <1>1, StepsWrite
    <2>2. CallsKept' BY <1>1, RequestsStep
    <2>3. KeysFit' BY <1>1, KeysStep
    <2>4. /\ clock' \in 0..LastTick /\ former' \subseteq Users
          /\ lastRead' \in [RoomIds -> [Users -> 0..LastTick \cup {None}]]
      BY <2>1, ClocksStep
    <2>5. rooms' \in [RoomIds -> Rooms \cup {NoRoom}] BY <2>1, RoomsStep
    <2>6. messages' \in Seq(MessageRows) /\ Len(messages') <= MaxMessages
      BY <2>1, MessagesStep
    <2>7. \A m \in Messages' : messages'[m].room \in InUse'
                               /\ messages'[m].sender \in rooms'[messages'[m].room].members
      BY <2>1, RowsStep
    <2>8. /\ sockets' \in [SocketIds -> SocketStates]
          /\ \A k \in SocketIds : \A i \in DOMAIN sockets'[k].got : sockets'[k].got[i] \in Messages'
      BY <2>1, SocketsStep
    <2>9. views' \in [Users -> Views] BY <2>1, ViewsStep
    <2>10. /\ notices' \subseteq Messages' \X Users \X {"insert", "push"}
           /\ notes' \subseteq Messages' \X Users \X (0..LastTick)
      BY <2>1, NoticesStep
    <2>11. minted' \in 0..MaxKeys /\ voice' \in [Groups -> Keys] BY <2>3 DEF KeysFit
    <2>12. \A s \in Sessions : req'[s].at = "push" => req'[s].message \in Messages'
      BY <2>2 DEF CallsKept, Keeps, Messages
    <2>13. MessagingTypeOK'
      BY <2>4, <2>5, <2>6, <2>7, <2>8, <2>9, <2>10, <2>11, <2>12 DEF MessagingTypeOK, Keys
    <2> QED BY <2>2, <2>3, <2>13 DEF TypeInv
  <1>2. CASE UNCHANGED vars
    BY <1>2 DEF vars, chatVars, deliveryVars, voiceVars, TypeInv, MessagingTypeOK, CallsKept,
                KeysFit, InUse, Messages
  <1> QED BY <1>1, <1>2

LEMMA AlwaysTyped == Spec => []TypeInv
  BY TypeInit, TypeStep, PTL DEF Spec

\* Rows and the registry keep the shape of their columns, and what names a message names one
\* that is stored.
THEOREM MessagingTypes == Spec => []MessagingTypeOK
  <1>1. TypeInv => MessagingTypeOK BY DEF TypeInv
  <1> QED BY <1>1, AlwaysTyped, PTL

-----------------------------------------------------------------------------
(* One key for one version *)

LEMMA HandsOut ==
  ASSUME TypeInv, [Next]_vars
  PROVE  \/ handed' = handed
         \/ \E g \in Groups : handed' = handed \cup {<<g, voice[g].version, voice[g].key>>}
  <1>1. ASSUME NEW s \in Sessions, ReadExisting(s) \/ Reread(s)
        PROVE  \/ handed' = handed
               \/ \E g \in Groups : handed' = handed \cup {<<g, voice[g].version, voice[g].key>>}
    <2>1. req[s].group \in Groups
      BY <1>1 DEF ReadExisting, Reread, TypeInv, CallsKept, Keeps
    <2> QED BY <1>1, <2>1 DEF ReadExisting, Reread, Ensured
  <1>2. CASE Next BY <1>1, <1>2, StepsWrite DEF Frames
  <1>3. CASE UNCHANGED vars BY <1>3 DEF vars, voiceVars
  <1> QED BY <1>2, <1>3

LEMMA AgreeStep ==
  ASSUME TypeInv, VoiceKeysAgree, [Next]_vars
  PROVE  VoiceKeysAgree'
  <1>1. CASE handed' = handed BY <1>1 DEF VoiceKeysAgree
  <1>2. ASSUME NEW g \in Groups, handed' = handed \cup {<<g, voice[g].version, voice[g].key>>}
        PROVE  VoiceKeysAgree'
    <2> DEFINE new == <<g, voice[g].version, voice[g].key>>
    <2>1. \A h \in handed : h[1] = g => (h[2] = new[2] <=> h[3] = new[3])
      BY HandedType DEF HandedFits, TypeInv
    <2>2. new[1] = g OBVIOUS
    <2> HIDE DEF new
    <2>3. handed' = handed \cup {new} BY <1>2 DEF new
    <2>4. ASSUME NEW x \in handed', NEW y \in handed', x[1] = y[1]
          PROVE  x[2] = y[2] <=> x[3] = y[3]
      <3>1. CASE x \in handed /\ y \in handed BY <2>4, <3>1 DEF VoiceKeysAgree
      <3>2. CASE x \in handed /\ y = new BY <2>1, <2>2, <2>4, <3>2
      <3>3. CASE x = new /\ y \in handed
        <4>1. y[1] = g BY <2>2, <2>4, <3>3
        <4>2. y[2] = new[2] <=> y[3] = new[3] BY <2>1, <3>3, <4>1
        <4> QED BY <3>3, <4>2
      <3>4. CASE x = new /\ y = new BY <3>4
      <3> QED BY <2>3, <3>1, <3>2, <3>3, <3>4
    <2> QED BY <2>4 DEF VoiceKeysAgree
  <1> QED BY <1>1, <1>2, HandsOut

\* Whoever reads, creates or rotates a group's voice key meanwhile, no version of it is handed
\* out with two keys, and no key with two versions.
THEOREM OneKeyPerVersion == Spec => []VoiceKeysAgree
  <1>1. Init => VoiceKeysAgree BY DEF Init, VoiceKeysAgree
  <1> QED BY <1>1, AgreeStep, AlwaysTyped, PTL DEF Spec

-----------------------------------------------------------------------------
(* Rooms of two *)

\* The requests about to make a dm room with these members.
Makers(members) == {s \in Sessions : /\ Running(s, "createRoom", "insert")
                                     /\ req[s].type = "dm" /\ Members(s) = members}

Counted(members) ==
  /\ IsFiniteSet(DmRooms(members))
  /\ Cardinality(DmRooms(members)) + Cardinality(Makers(members)) <= Cardinality(Sessions)

LEMMA MakersFinite ==
  ASSUME NEW members
  PROVE  /\ IsFiniteSet(Makers(members))
         /\ Cardinality(Makers(members)) \in Nat /\ Cardinality(Sessions) \in Nat
         /\ Cardinality(Makers(members)) <= Cardinality(Sessions)
  <1>1. Makers(members) \subseteq Sessions BY DEF Makers
  <1>2. IsFiniteSet(Sessions) BY MessagingAssumption
  <1> QED BY <1>1, <1>2, FS_Subset, FS_CardinalityType

\* A step other than those that find and make rooms of two: nobody else is to make one.
Quiet == rooms' = rooms /\ \A P : Makers(P)' \subseteq Makers(P)

\* Where requests go that are not about to make a room.
LEMMA QuietWhen ==
  ASSUME rooms' = rooms,
         \A s \in Sessions : \/ req'[s] = req[s]
                             \/ req'[s].at # "insert" \/ req'[s].op # "createRoom"
                             \/ req'[s].type # "dm"
  PROVE  Quiet
  BY DEF Quiet, Makers, Running, Members

LEMMA QuietMove ==
  ASSUME TypeInv, rooms' = rooms, NEW s \in Sessions, NEW c, req' = [req EXCEPT ![s] = c],
         c.at # "insert" \/ c.op # "createRoom" \/ c.type # "dm"
  PROVE  Quiet
  BY QuietWhen DEF TypeInv, CallsKept

LEMMA QuietGoTo ==
  ASSUME TypeInv, rooms' = rooms, NEW s \in Sessions, NEW at, GoTo(s, at),
         at # "insert" \/ req[s].op # "createRoom" \/ req[s].type # "dm"
  PROVE  Quiet
  <1> DEFINE c == [req[s] EXCEPT !.at = at]
  <1>1. req[s] \in Calls BY DEF TypeInv, CallsKept
  <1>2. c.at = at /\ c.op = req[s].op /\ c.type = req[s].type BY <1>1 DEF Calls
  <1>3. req' = [req EXCEPT ![s] = c] BY DEF GoTo, TypeInv, CallsKept
  <1> HIDE DEF c
  <1> QED BY <1>2, <1>3, QuietMove

LEMMA QuietReply ==
  ASSUME TypeInv, rooms' = rooms, NEW s \in Sessions, Reply(s)
  PROVE  Quiet
  BY QuietMove DEF Reply, NoCall

LEMMA RoomSteps ==
  ASSUME TypeInv, [Next]_vars
  PROVE  \/ Quiet
         \/ \E s \in Sessions : FindDm(s)
         \/ \E s \in Sessions, r \in RoomIds : InsertRoom(s, r)
  <1> USE DEF chatVars, deliveryVars, voiceVars
  <1>1. ASSUME NEW s \in Sessions, Belong(s) PROVE Quiet
    BY <1>1, QuietReply, QuietGoTo DEF Belong
  <1>2. ASSUME NEW s \in Sessions, NEW c, rooms' = rooms, Begin(s, c), c.at # "insert" \/ c.op # "createRoom"
        PROVE  Quiet
    BY <1>2, QuietMove DEF Begin
  <1>3. ASSUME NEW s \in Sessions, CreateRoom(s)
        PROVE  Quiet \/ FindDm(s) \/ \E r \in RoomIds : InsertRoom(s, r)
    <2>1. ASSUME NEW u \in Users, NEW v \in Users, BeginDm(s, u, v) PROVE Quiet
      BY <2>1, <1>2 DEF BeginDm, NoCall
    <2>2. ASSUME NEW u \in Users, NEW M \in SUBSET Users, BeginGroup(s, u, M) PROVE Quiet
      BY <2>2, <1>2 DEF BeginGroup, NoCall
    <2> QED BY <1>1, <1>3, <2>1, <2>2 DEF CreateRoom
  <1>4. ASSUME NEW s \in Sessions, SendMessage(s) PROVE Quiet
    <2>1. CASE Push(s) BY <2>1, QuietReply DEF Push
    <2>2. ASSUME NEW u \in Users, NEW r \in RoomIds, BeginSend(s, u, r) PROVE Quiet
      BY <2>2, <1>2 DEF BeginSend, NoCall
    <2>3. ASSUME NEW t \in 0..LastTick, InsertMessage(s, t) PROVE Quiet
      <3> DEFINE c == [req[s] EXCEPT !.at = "push", !.message = Len(messages) + 1, !.after = {}]
      <3>1. req' = [req EXCEPT ![s] = c] /\ c.at = "push" /\ rooms' = rooms
        BY <2>3 DEF InsertMessage, TypeInv, CallsKept, Calls
      <3> HIDE DEF c
      <3> QED BY <3>1, QuietMove
    <2> QED BY <1>4, <2>1, <2>2, <2>3 DEF SendMessage
  <1>5. ASSUME NEW s \in Sessions, GetMessages(s) PROVE Quiet
    <2>1. ASSUME NEW u \in Users, NEW k \in SocketIds, NEW r \in RoomIds, BeginPage(s, u, k, r)
          PROVE  Quiet
      <3> DEFINE c == [NoCall EXCEPT !.op = "page", !.at = "read", !.user = u, !.room = r]
      <3>1. Begin(s, c) /\ c.at = "read" BY <2>1 DEF BeginPage, NoCall
      <3> HIDE DEF c
      <3>2. rooms' = rooms BY <2>1 DEF BeginPage
      <3> QED BY <3>1, <3>2, <1>2
    <2>2. ASSUME NEW rows \in SUBSET (DOMAIN messages), ReadPage(s, rows) PROVE Quiet
      BY <2>2, QuietReply DEF ReadPage
    <2> QED BY <1>5, <2>1, <2>2 DEF GetMessages
  <1>6. ASSUME NEW s \in Sessions, MarkRead(s) PROVE Quiet
    <2>1. ASSUME NEW u \in Users, NEW r \in RoomIds, BeginMark(s, u, r) PROVE Quiet
      BY <2>1, <1>2 DEF BeginMark, NoCall
    <2>2. ASSUME NEW t \in 0..LastTick, Mark(s, t) PROVE Quiet
      BY <2>2, QuietReply DEF Mark
    <2> QED BY <1>6, <2>1, <2>2 DEF MarkRead
  <1>7. ASSUME NEW s \in Sessions, Voice(s) PROVE Quiet
    <2>1. CASE ReadExisting(s) \/ Reread(s)
      <3>1. req[s].op # "createRoom" BY <2>1 DEF ReadExisting, Reread, TypeInv, CallsKept, Keeps
      <3>2. rooms' = rooms BY <2>1 DEF ReadExisting, Reread
      <3>3. Reply(s) \/ GoTo(s, "rotate") \/ GoTo(s, "insert")
        BY <2>1 DEF ReadExisting, Reread, Ensured
      <3> QED BY <3>1, <3>2, <3>3, QuietReply, QuietGoTo
    <2>2. CASE InsertKey(s)
      <3>1. req[s].op # "createRoom" /\ rooms' = rooms /\ GoTo(s, "reread")
        BY <2>2 DEF InsertKey
      <3> QED BY <3>1, QuietGoTo
    <2>3. CASE Rotate(s) BY <2>3, QuietReply DEF Rotate
    <2>4. ASSUME NEW op \in {"profile", "rotate"}, NEW g \in Groups, BeginEnsure(s, op, g)
          PROVE  Quiet
      BY <2>4, <1>2 DEF BeginEnsure, NoCall
    <2> QED BY <1>7, <2>1, <2>2, <2>3, <2>4 DEF Voice
  <1>8. CASE Restart BY <1>8, QuietWhen DEF Restart, NoCall
  <1>9. ASSUME UNCHANGED <<rooms, req>> PROVE Quiet BY <1>9, QuietWhen
  <1>10. ASSUME NEW k \in SocketIds, Socket(k) PROVE Quiet
    BY <1>9, <1>10 DEF Socket, LinkDrops, HandleDisconnect, Connect
  <1>11. ASSUME NEW u \in Users, Client(u) PROVE Quiet
    BY <1>9, <1>11 DEF Client, CloseView, RemoveColleague, MoreNotes, OpenNotes, ListNotes
  <1>12. ASSUME NEW n \in notices, Notify(n) PROVE Quiet
    <2>1. UNCHANGED <<rooms, req>> BY <1>12 DEF Notify
    <2> QED BY <1>9, <2>1
  <1>13. ASSUME NEW g \in Groups, CreateGroup(g) \/ DeleteGroup(g) PROVE Quiet
    BY <1>9, <1>13 DEF CreateGroup, DeleteGroup
  <1>14. CASE Tick BY <1>9, <1>14 DEF Tick
  <1>15. CASE UNCHANGED vars BY <1>9, <1>15 DEF vars
  <1> QED BY <1>3, <1>4, <1>5, <1>6, <1>7, <1>8, <1>10, <1>11, <1>12, <1>13, <1>14, <1>15
          DEF Next, Serve

LEMMA CountedStep ==
  ASSUME TypeInv, [Next]_vars, NEW members, Counted(members)
  PROVE  Counted(members)'
  <1>1. CASE Quiet
    <2>1. DmRooms(members)' = DmRooms(members) BY <1>1 DEF Quiet, DmRooms, InUse
    <2>2. Cardinality(Makers(members)') <= Cardinality(Makers(members))
      BY <1>1, MakersFinite, FS_Subset DEF Quiet
    <2>3. Cardinality(Makers(members)') \in Nat
      BY <1>1, MakersFinite, FS_Subset, FS_CardinalityType DEF Quiet
    <2>4. Cardinality(DmRooms(members)) \in Nat BY FS_CardinalityType DEF Counted
    <2> QED BY <2>1, <2>2, <2>3, <2>4, MakersFinite DEF Counted
  <1>2. ASSUME NEW s \in Sessions, FindDm(s) PROVE Counted(members)'
    <2>1. rooms' = rooms BY <1>2 DEF FindDm, chatVars
    <2>2. DmRooms(members)' = DmRooms(members) BY <2>1 DEF DmRooms, InUse
    <2>3. CASE Members(s) = members /\ GoTo(s, "insert") /\ DmRooms(Members(s)) = {}
      <3>1. Cardinality(DmRooms(members)) = 0 BY <2>3, FS_EmptySet
      <3>2. Makers(members)' \subseteq Sessions BY DEF Makers
      <3>3. /\ Cardinality(Makers(members)') \in Nat
            /\ Cardinality(Makers(members)') <= Cardinality(Sessions)
        BY <3>2, MessagingAssumption, FS_Subset, FS_CardinalityType
      <3> QED BY <2>2, <2>3, <3>1, <3>3 DEF Counted
    <2>4. CASE ~(Members(s) = members /\ GoTo(s, "insert") /\ DmRooms(Members(s)) = {})
      <3>1. Makers(members)' \subseteq Makers(members)
        <4>1. CASE Reply(s)
          <5>1. Quiet BY <2>1, <4>1, QuietReply
          <5> QED BY <5>1 DEF Quiet
        <4>2. CASE GoTo(s, "insert") /\ Members(s) # members
          <5>1. Members(s)' = Members(s)
            BY <4>2 DEF GoTo, Members, TypeInv, CallsKept, Calls
          <5>2. \A r \in Sessions \ {s} : req'[r] = req[r]
            BY <4>2 DEF GoTo, TypeInv, CallsKept
          <5> QED BY <4>2, <5>1, <5>2 DEF Makers, Running, Members
        <4>3. Reply(s) \/ (GoTo(s, "insert") /\ DmRooms(Members(s)) = {}) BY <1>2 DEF FindDm
        <4> QED BY <2>4, <4>1, <4>2, <4>3
      <3>2. /\ Cardinality(Makers(members)') <= Cardinality(Makers(members))
            /\ Cardinality(Makers(members)') \in Nat
        BY <3>1, MakersFinite, FS_Subset, FS_CardinalityType
      <3>3. Cardinality(DmRooms(members)) \in Nat BY FS_CardinalityType DEF Counted
      <3> QED BY <2>2, <3>2, <3>3, MakersFinite DEF Counted
    <2> QED BY <2>3, <2>4
  <1>3. ASSUME NEW s \in Sessions, NEW r \in RoomIds, InsertRoom(s, r) PROVE Counted(members)'
    <2>1. \A q \in Sessions \ {s} : req'[q] = req[q]
      BY <1>3 DEF InsertRoom, Reply, TypeInv, CallsKept
    <2>2. req'[s] = NoCall BY <1>3 DEF InsertRoom, Reply, TypeInv, CallsKept
    <2>3. Makers(members)' = Makers(members) \ {s}
      BY <2>1, <2>2 DEF Makers, Running, Members, NoCall
    <2>4. rooms \in [RoomIds -> Rooms \cup {NoRoom}] BY DEF TypeInv, MessagingTypeOK
    <2>5. rooms' = [rooms EXCEPT ![r] = [type |-> req[s].type, by |-> req[s].user,
                                         members |-> Members(s)]]
      BY <1>3 DEF InsertRoom
    <2>6. CASE s \in Makers(members)
      <3>1. DmRooms(members)' \subseteq DmRooms(members) \cup {r}
        BY <2>4, <2>5 DEF DmRooms, InUse
      <3>2. IsFiniteSet(DmRooms(members)) BY DEF Counted
      <3>3. /\ IsFiniteSet(DmRooms(members) \cup {r})
            /\ Cardinality(DmRooms(members) \cup {r}) <= Cardinality(DmRooms(members)) + 1
            /\ Cardinality(DmRooms(members)) \in Nat
        BY <3>2, FS_AddElement, FS_CardinalityType
      <3>4. /\ IsFiniteSet(DmRooms(members)')
            /\ Cardinality(DmRooms(members)') <= Cardinality(DmRooms(members)) + 1
            /\ Cardinality(DmRooms(members)') \in Nat
        <4>1. IsFiniteSet(DmRooms(members)')
              /\ Cardinality(DmRooms(members)') <= Cardinality(DmRooms(members) \cup {r})
          BY <3>1, <3>3, FS_Subset
        <4>2. Cardinality(DmRooms(members)') \in Nat
              /\ Cardinality(DmRooms(members) \cup {r}) \in Nat
          BY <3>3, <4>1, FS_CardinalityType
        <4> QED BY <3>3, <4>1, <4>2
      <3>5. Cardinality(Makers(members)') = Cardinality(Makers(members)) - 1
        BY <2>3, <2>6, MakersFinite, FS_RemoveElement
      <3> QED BY <3>3, <3>4, <3>5, MakersFinite DEF Counted
    <2>7. CASE s \notin Makers(members)
      <3>1. Makers(members)' = Makers(members) BY <2>3, <2>7
      <3>2. ~(req[s].type = "dm" /\ Members(s) = members)
        BY <1>3, <2>7 DEF InsertRoom, Makers
      <3>3. r \notin InUse BY <1>3 DEF InsertRoom
      <3>4. DmRooms(members)' = DmRooms(members)
        BY <2>4, <2>5, <3>2, <3>3 DEF DmRooms, InUse
      <3> QED BY <3>1, <3>4 DEF Counted
    <2> QED BY <2>6, <2>7
  <1> QED BY <1>1, <1>2, <1>3, RoomSteps

AllCounted == \A P \in SUBSET Users : Counted(P)

LEMMA CountedInit == ASSUME Init PROVE AllCounted
  <1>1. ASSUME NEW P PROVE DmRooms(P) = {} BY DEF Init, DmRooms, InUse, NoRoom
  <1>2. ASSUME NEW P PROVE Counted(P) BY <1>1, MakersFinite, FS_EmptySet DEF Counted
  <1> QED BY <1>2 DEF AllCounted

LEMMA CountedMeansBounded == ASSUME AllCounted PROVE DmRoomsBounded
  <1>1. ASSUME NEW u \in Users, NEW v \in Users
        PROVE  Cardinality(DmRooms({u, v})) <= Cardinality(Sessions)
    <2>1. Counted({u, v}) BY DEF AllCounted
    <2>2. Cardinality(DmRooms({u, v})) \in Nat BY <2>1, FS_CardinalityType DEF Counted
    <2> QED BY <2>1, <2>2, MakersFinite DEF Counted
  <1> QED BY <1>1 DEF DmRoomsBounded

\* First messages that race make no more dm rooms of one pair than requests are served at once.
THEOREM DmRoomsAreBounded == Spec => []DmRoomsBounded
  <1>1. TypeInv /\ AllCounted /\ [Next]_vars => AllCounted' BY CountedStep DEF AllCounted
  <1> QED BY <1>1, CountedInit, CountedMeansBounded, AlwaysTyped, PTL DEF Spec

-----------------------------------------------------------------------------
(* The order of pushes.  A message at its push has not been answered and is *)
(* pushed by one request; only answered messages come before another.       *)

Unanswered == \A s \in Sessions : req[s].at = "push" => ~messages[req[s].message].answered
OneEach == \A s, t \in Sessions :
  req[s].at = "push" /\ req[t].at = "push" /\ req[s].message = req[t].message => s = t
AfterAnswered == /\ \A s \in Sessions : req[s].after \subseteq Answered
                 /\ \A m \in Messages : messages[m].after \subseteq Answered
Ordered == Unanswered /\ OneEach /\ AfterAnswered

LEMMA AnsweredStays ==
  ASSUME TypeInv, Frames
  PROVE  Answered \subseteq Answered'
  <1>1. Messages = DOMAIN messages /\ Grows BY MessagesAreRows, MessagesStep
  <1>2. messages' \in Seq(MessageRows) /\ Messages \subseteq Messages' BY MessagesStep
  <1>3. DOMAIN messages' = Messages' BY <1>2 DEF Messages
  <1>4. ASSUME NEW m \in Answered PROVE m \in Answered'
    <2>1. m \in Messages /\ messages[m].answered BY <1>1, <1>4 DEF Answered
    <2>2. messages'[m].answered BY <1>1, <2>1 DEF Grows
    <2>3. m \in DOMAIN messages' BY <1>2, <1>3, <2>1
    <2> QED BY <2>2, <2>3 DEF Answered
  <1> QED BY <1>4

\* A request steps that is not at its push before or after, does not read what was answered, and
\* does not begin a page.
Aside ==
  /\ messages' = messages
  /\ \E s \in Sessions : /\ \A r \in Sessions \ {s} : req'[r] = req[r]
                         /\ req[s].at # "push" /\ req'[s].at # "push"
                         /\ req'[s].after = req[s].after \/ req'[s].after = {}
                         /\ req'[s].op # "page"

LEMMA AsideGoTo ==
  ASSUME TypeInv, messages' = messages, NEW s \in Sessions, NEW at, GoTo(s, at), at # "push",
         req[s].at # "push", req[s].op # "page"
  PROVE  Aside
  <1> DEFINE c == [req[s] EXCEPT !.at = at]
  <1>1. req[s] \in Calls BY DEF TypeInv, CallsKept
  <1>2. c.at = at /\ c.op = req[s].op /\ c.after = req[s].after BY <1>1 DEF Calls
  <1>3. req' = [req EXCEPT ![s] = c] BY DEF GoTo, TypeInv, CallsKept
  <1> HIDE DEF c
  <1>4. req'[s] = c /\ \A r \in Sessions \ {s} : req'[r] = req[r]
    BY <1>3 DEF TypeInv, CallsKept
  <1> QED BY <1>2, <1>4 DEF Aside

LEMMA AsideReply ==
  ASSUME TypeInv, messages' = messages, NEW s \in Sessions, Reply(s), req[s].at # "push"
  PROVE  Aside
  <1>1. req'[s] = NoCall /\ \A r \in Sessions \ {s} : req'[r] = req[r]
    BY DEF Reply, TypeInv, CallsKept
  <1> QED BY <1>1 DEF Aside, NoCall

LEMMA AsideBegin ==
  ASSUME TypeInv, messages' = messages, NEW s \in Sessions, NEW c, Begin(s, c), c.at # "push",
         c.after = {}, c.op # "page"
  PROVE  Aside
  <1>1. /\ req[s] = NoCall /\ req'[s] = c
        /\ \A r \in Sessions \ {s} : req'[r] = req[r]
    BY DEF Begin, TypeInv, CallsKept
  <1> QED BY <1>1 DEF Aside, NoCall

Kinds ==
  \/ Restart
  \/ \E s \in Sessions, u \in Users, r \in RoomIds : BeginSend(s, u, r)
  \/ \E s \in Sessions, t \in 0..LastTick : InsertMessage(s, t)
  \/ \E s \in Sessions : Push(s)
  \/ \E s \in Sessions, u \in Users, k \in SocketIds, r \in RoomIds : BeginPage(s, u, k, r)
  \/ Aside
  \/ UNCHANGED <<messages, req>>

LEMMA StepKinds == ASSUME TypeInv, [Next]_vars PROVE Kinds
  <1> USE DEF chatVars, deliveryVars, voiceVars
  <1>1. ASSUME NEW s \in Sessions, CreateRoom(s) PROVE Aside
    <2>1. CASE Belong(s) BY <2>1, AsideReply, AsideGoTo DEF Belong, Running
    <2>2. CASE FindDm(s) BY <2>2, AsideReply, AsideGoTo DEF FindDm, Running
    <2>3. ASSUME NEW u \in Users, NEW v \in Users, BeginDm(s, u, v) PROVE Aside
      BY <2>3, AsideBegin DEF BeginDm, NoCall
    <2>4. ASSUME NEW u \in Users, NEW M \in SUBSET Users, BeginGroup(s, u, M) PROVE Aside
      BY <2>4, AsideBegin DEF BeginGroup, NoCall
    <2>5. ASSUME NEW r \in RoomIds, InsertRoom(s, r) PROVE Aside
      BY <2>5, AsideReply DEF InsertRoom, Running
    <2> QED BY <1>1, <2>1, <2>2, <2>3, <2>4, <2>5 DEF CreateRoom
  <1>2. ASSUME NEW s \in Sessions, SendMessage(s) PROVE Kinds
    BY <1>2 DEF SendMessage, Kinds
  <1>3. ASSUME NEW s \in Sessions, GetMessages(s) PROVE Kinds
    <2>1. ASSUME NEW rows \in SUBSET (DOMAIN messages), ReadPage(s, rows) PROVE Aside
      BY <2>1, AsideReply DEF ReadPage, Running
    <2> QED BY <1>3, <2>1 DEF GetMessages, Kinds
  <1>4. ASSUME NEW s \in Sessions, MarkRead(s) PROVE Aside
    <2>1. ASSUME NEW u \in Users, NEW r \in RoomIds, BeginMark(s, u, r) PROVE Aside
      BY <2>1, AsideBegin DEF BeginMark, NoCall
    <2>2. ASSUME NEW t \in 0..LastTick, Mark(s, t) PROVE Aside
      BY <2>2, AsideReply DEF Mark, Running
    <2> QED BY <1>4, <2>1, <2>2 DEF MarkRead
  <1>5. ASSUME NEW s \in Sessions, Voice(s) PROVE Aside
    <2>1. CASE ReadExisting(s) \/ Reread(s)
      <3>1. /\ req[s].op \in {"profile", "rotate"} /\ req[s].at # "push"
            /\ messages' = messages
        BY <2>1 DEF ReadExisting, Reread, TypeInv, CallsKept, Keeps
      <3>2. Reply(s) \/ GoTo(s, "rotate") \/ GoTo(s, "insert")
        BY <2>1 DEF ReadExisting, Reread, Ensured
      <3> QED BY <3>1, <3>2, AsideReply, AsideGoTo
    <2>2. CASE InsertKey(s)
      <3>1. /\ req[s].op \in {"profile", "rotate"} /\ req[s].at # "push"
            /\ messages' = messages /\ GoTo(s, "reread")
        BY <2>2 DEF InsertKey
      <3> QED BY <3>1, AsideGoTo
    <2>3. CASE Rotate(s) BY <2>3, AsideReply DEF Rotate, Running
    <2>4. ASSUME NEW op \in {"profile", "rotate"}, NEW g \in Groups, BeginEnsure(s, op, g)
          PROVE  Aside
      BY <2>4, AsideBegin DEF BeginEnsure, NoCall
    <2> QED BY <1>5, <2>1, <2>2, <2>3, <2>4 DEF Voice
  <1>6. ASSUME NEW k \in SocketIds, Socket(k) PROVE UNCHANGED <<messages, req>>
    BY <1>6 DEF Socket, LinkDrops, HandleDisconnect, Connect
  <1>7. ASSUME NEW u \in Users, Client(u) PROVE UNCHANGED <<messages, req>>
    BY <1>7 DEF Client, CloseView, RemoveColleague, MoreNotes, OpenNotes, ListNotes
  <1>8. ASSUME NEW n \in notices, Notify(n) PROVE UNCHANGED <<messages, req>>
    BY <1>8 DEF Notify
  <1>9. ASSUME NEW g \in Groups, CreateGroup(g) \/ DeleteGroup(g)
        PROVE  UNCHANGED <<messages, req>>
    BY <1>9 DEF CreateGroup, DeleteGroup
  <1>10. CASE Tick BY <1>10 DEF Tick, Kinds
  <1>11. CASE UNCHANGED vars BY <1>11 DEF vars, Kinds
  <1> QED BY <1>1, <1>2, <1>3, <1>4, <1>5, <1>6, <1>7, <1>8, <1>9, <1>10, <1>11
          DEF Next, Serve, Kinds

LEMMA OneBegins ==
  ASSUME TypeInv, NEW s \in Sessions, NEW c, Begin(s, c)
  PROVE  /\ req[s] = NoCall /\ req'[s] = c
         /\ \A r \in Sessions \ {s} : req'[r] = req[r]
  BY DEF Begin, TypeInv, CallsKept

\* What InsertMessage and Push make of the requests.
LEMMA InsertingRequest ==
  ASSUME TypeInv, NEW s \in Sessions, NEW t \in 0..LastTick, InsertMessage(s, t)
  PROVE  /\ req[s].op = "send" /\ req[s].at = "insert"
         /\ req'[s].at = "push" /\ req'[s].message = Len(messages) + 1 /\ req'[s].after = {}
         /\ req'[s].op = req[s].op /\ req'[s].room = req[s].room /\ req'[s].user = req[s].user
         /\ \A r \in Sessions \ {s} : req'[r] = req[r]
  BY DEF InsertMessage, Running, TypeInv, CallsKept, Calls

LEMMA PushingRequest ==
  ASSUME TypeInv, NEW s \in Sessions, Push(s)
  PROVE  /\ req[s].op = "send" /\ req[s].at = "push" /\ req'[s] = NoCall
         /\ \A r \in Sessions \ {s} : req'[r] = req[r]
  BY DEF Push, Running, Reply, TypeInv, CallsKept

\* The same messages, and requests that were at their push if they are.
LEMMA OrderedAside ==
  ASSUME TypeInv, Ordered, messages' = messages,
         \A s \in Sessions : \/ req'[s] = req[s]
                             \/ /\ req'[s].at # "push"
                                /\ req'[s].after = req[s].after \/ req'[s].after \subseteq Answered
  PROVE  Ordered'
  <1>1. Answered' = Answered /\ Messages' = Messages BY DEF Answered, Messages
  <1>2. Unanswered' BY DEF Ordered, Unanswered
  <1>3. OneEach' BY DEF Ordered, OneEach
  <1>4. AfterAnswered' BY <1>1 DEF Ordered, AfterAnswered
  <1> QED BY <1>2, <1>3, <1>4 DEF Ordered

LEMMA OrderedStep == ASSUME TypeInv, Ordered, [Next]_vars PROVE Ordered'
  <1>1. CASE Restart BY <1>1, OrderedAside DEF Restart, NoCall, chatVars
  <1>2. ASSUME NEW s \in Sessions, NEW u \in Users, NEW r \in RoomIds, BeginSend(s, u, r)
        PROVE  Ordered'
    <2> DEFINE c == [NoCall EXCEPT !.op = "send", !.at = "insert", !.user = u, !.room = r,
                                   !.since = clock, !.after = Answered]
    <2>1. Begin(s, c) /\ c.at = "insert" /\ c.after = Answered /\ messages' = messages
      BY <1>2 DEF BeginSend, NoCall, chatVars
    <2> HIDE DEF c
    <2>2. req'[s] = c /\ \A q \in Sessions \ {s} : req'[q] = req[q] BY <2>1, OneBegins
    <2> QED BY <2>1, <2>2, OrderedAside
  <1>3. ASSUME NEW s \in Sessions, NEW u \in Users, NEW k \in SocketIds, NEW r \in RoomIds,
               BeginPage(s, u, k, r)
        PROVE  Ordered'
    <2> DEFINE c == [NoCall EXCEPT !.op = "page", !.at = "read", !.user = u, !.room = r]
    <2>1. Begin(s, c) /\ c.at = "read" /\ c.after = {} /\ messages' = messages
      BY <1>3 DEF BeginPage, NoCall, chatVars
    <2> HIDE DEF c
    <2>2. req'[s] = c /\ \A q \in Sessions \ {s} : req'[q] = req[q] BY <2>1, OneBegins
    <2> QED BY <2>1, <2>2, OrderedAside
  <1>4. CASE Aside BY <1>4, OrderedAside DEF Aside
  <1>5. CASE UNCHANGED <<messages, req>> BY <1>5, OrderedAside
  <1>6. ASSUME NEW s \in Sessions, NEW t \in 0..LastTick, InsertMessage(s, t) PROVE Ordered'
    <2> DEFINE n == Len(messages) + 1
    <2>1. /\ Messages' = Messages \cup {n} /\ n \notin Messages
          /\ messages'[n] = Message(s, t, FALSE)
          /\ \A m \in Messages : messages'[m] = messages[m]
      BY <1>6, InsertedMessage
    <2>2. /\ req'[s].at = "push" /\ req'[s].message = n /\ req'[s].after = {}
          /\ \A r \in Sessions \ {s} : req'[r] = req[r]
      BY <1>6, InsertingRequest
    <2> HIDE DEF n
    <2>3. Answered \subseteq Answered'
      <3>1. Frames BY <1>6 DEF Frames, InsertMessage, deliveryVars, voiceVars
      <3> QED BY <3>1, AnsweredStays
    <2>4. messages'[n].answered = FALSE /\ messages'[n].after = req[s].after
      BY <2>1 DEF Message
    <2>5. \A r \in Sessions : req[r].at = "push" => req[r].message \in Messages
      BY DEF TypeInv, MessagingTypeOK
    <2>6. Unanswered' BY <2>1, <2>2, <2>4, <2>5 DEF Ordered, Unanswered
    <2>7. OneEach' BY <2>1, <2>2, <2>5 DEF Ordered, OneEach
    <2>8. AfterAnswered'
      <3>1. \A r \in Sessions : req'[r].after \subseteq Answered'
        BY <2>2, <2>3 DEF Ordered, AfterAnswered
      <3>2. \A m \in Messages' : messages'[m].after \subseteq Answered'
        BY <2>1, <2>3, <2>4 DEF Ordered, AfterAnswered
      <3> QED BY <3>1, <3>2 DEF AfterAnswered
    <2> QED BY <2>6, <2>7, <2>8 DEF Ordered
  <1>7. ASSUME NEW s \in Sessions, Push(s) PROVE Ordered'
    <2>1. /\ req[s].message \in Messages /\ Messages' = Messages
          /\ \A m \in Messages \ {req[s].message} : messages'[m] = messages[m]
          /\ messages'[req[s].message] = [messages[req[s].message] EXCEPT !.answered = TRUE]
      BY <1>7, PushedMessage
    <2>2. /\ req[s].at = "push" /\ req'[s] = NoCall
          /\ \A r \in Sessions \ {s} : req'[r] = req[r]
      BY <1>7, PushingRequest
    <2>3. Answered \subseteq Answered'
      <3>1. Frames BY <1>7 DEF Frames, Push, deliveryVars, voiceVars
      <3> QED BY <3>1, AnsweredStays
    <2>4. \A m \in Messages : messages'[m].after = messages[m].after
      BY <2>1, MessageType DEF MessageRows
    <2>5. \A r \in Sessions : req[r].at = "push" => req[r].message \in Messages
      BY DEF TypeInv, MessagingTypeOK
    <2>6. \A r \in Sessions \ {s} : req[r].at = "push" => req[r].message # req[s].message
      BY <2>2 DEF Ordered, OneEach
    <2>7. req'[s].at # "push" /\ req'[s].after = {} BY <2>2 DEF NoCall
    <2>8. Unanswered' BY <2>1, <2>2, <2>5, <2>6, <2>7 DEF Ordered, Unanswered
    <2>9. OneEach' BY <2>2, <2>7 DEF Ordered, OneEach
    <2>10. AfterAnswered'
      <3>1. \A r \in Sessions : req'[r].after \subseteq Answered'
        BY <2>2, <2>3, <2>7 DEF Ordered, AfterAnswered
      <3>2. \A m \in Messages' : messages'[m].after \subseteq Answered'
        BY <2>1, <2>3, <2>4 DEF Ordered, AfterAnswered
      <3> QED BY <3>1, <3>2 DEF AfterAnswered
    <2> QED BY <2>8, <2>9, <2>10 DEF Ordered
  <1> QED BY <1>1, <1>2, <1>3, <1>4, <1>5, <1>6, <1>7, StepKinds DEF Kinds

\* Where sockets keep what they got, so does the order.
LEMMA PushOrderKept ==
  ASSUME TypeInv, Frames, PushOrder,
         \A k \in SocketIds : sockets'[k].got = sockets[k].got \/ sockets'[k].got = <<>>
  PROVE  PushOrder'
  <1>1. Grows BY MessagesStep
  <1>2. ASSUME NEW k \in SocketIds, NEW i \in DOMAIN sockets[k].got,
               NEW j \in DOMAIN sockets[k].got, i < j
        PROVE  sockets[k].got[j] \notin messages'[sockets[k].got[i]].after
    <2>1. sockets[k].got[i] \in Messages BY DEF TypeInv, MessagingTypeOK
    <2> QED BY <1>1, <1>2, <2>1 DEF PushOrder, Grows
  <1> QED BY <1>2 DEF PushOrder

LEMMA PushOrderStep == ASSUME TypeInv, Ordered, PushOrder, [Next]_vars PROVE PushOrder'
  <1>1. CASE UNCHANGED vars
    BY <1>1 DEF vars, chatVars, deliveryVars, PushOrder
  <1>2. ASSUME Next, \A k \in SocketIds : sockets'[k].got = sockets[k].got \/ sockets'[k].got = <<>>
        PROVE  PushOrder'
    BY <1>2, StepsWrite, PushOrderKept
  <1>3. sockets \in [SocketIds -> SocketStates] BY DEF TypeInv, MessagingTypeOK
  <1>4. ASSUME Next, NEW k \in SocketIds, LinkDrops(k) \/ HandleDisconnect(k) PROVE PushOrder'
    <2>1. \/ sockets' = [sockets EXCEPT ![k] = [sockets[k] EXCEPT !.up = FALSE]]
          \/ sockets' = [sockets EXCEPT ![k] = [sockets[k] EXCEPT !.registered = FALSE]]
      BY <1>3, <1>4 DEF LinkDrops, HandleDisconnect, UnregisterClient
    <2>2. ASSUME NEW j \in SocketIds PROVE sockets'[j].got = sockets[j].got
      BY <1>3, <2>1 DEF SocketStates
    <2> QED BY <1>2, <1>4, <2>2
  <1>5. ASSUME Next, NEW k \in SocketIds, NEW u \in Users, Connect(k, u) PROVE PushOrder'
    <2>1. \A j \in SocketIds : sockets'[j].got = sockets[j].got \/ sockets'[j].got = <<>>
      BY <1>3, <1>5 DEF Connect
    <2> QED BY <1>2, <1>5, <2>1
  <1>6. ASSUME Next, Restart PROVE PushOrder'
    <2>1. \A j \in SocketIds : sockets'[j].got = sockets[j].got
      BY <1>3, <1>6, SocketUpdated DEF Restart
    <2> QED BY <1>2, <1>6, <2>1
  <1>7. ASSUME Next, NEW s \in Sessions, Push(s) PROVE PushOrder'
    <2> DEFINE m == req[s].message
    <2>1. m \in Messages BY <1>7, PushedMessage
    <2>2. m \notin Answered BY <1>7, PushingRequest DEF Ordered, Unanswered, Answered
    <2>3. \A n \in Messages : messages'[n].after = messages[n].after
      BY <1>7, StepsWrite, MessagesStep DEF Grows
    <2>4. \A n \in Messages : m \notin messages[n].after BY <2>2 DEF Ordered, AfterAnswered
    <2>5. ASSUME NEW k \in SocketIds, NEW i \in DOMAIN sockets'[k].got,
                 NEW j \in DOMAIN sockets'[k].got, i < j
          PROVE  sockets'[k].got[j] \notin messages'[sockets'[k].got[i]].after
      <3> DEFINE q == sockets[k].got
      <3>1. sockets[k] \in SocketStates /\ q \in Seq(1..MaxMessages)
            /\ \A x \in DOMAIN q : q[x] \in Messages
        BY SocketType DEF Heard
      <3>2. \A x, y \in DOMAIN q : x < y => q[y] \notin messages'[q[x]].after
        BY <2>3, <3>1 DEF PushOrder
      <3>3. CASE sockets'[k] = sockets[k] BY <2>5, <3>2, <3>3
      <3>4. CASE sockets'[k] = [sockets[k] EXCEPT !.got = Append(q, m)]
        <4>1. m \in 1..MaxMessages
          BY <2>1, MessagesAreRows, MessagingAssumption DEF Messages
        <4> HIDE DEF m
        <4>2. Append(q, m) \in Seq(1..MaxMessages)
              /\ Append(q, m)[Len(q) + 1] = m
              /\ Len(Append(q, m)) = Len(q) + 1 /\ Len(q) \in Nat
              /\ \A x \in 1..Len(q) : Append(q, m)[x] = q[x]
          BY <3>1, <4>1, Appended
        <4>3. sockets'[k].got = Append(q, m) BY <3>1, <3>4 DEF SocketStates
        <4>4. i \in 1..(Len(q) + 1) /\ j \in 1..(Len(q) + 1) /\ DOMAIN q = 1..Len(q)
          BY <3>1, <4>2, <4>3
        <4>5. i \in 1..Len(q) BY <2>5, <4>2, <4>4
        <4>6. q[i] \in Messages /\ sockets'[k].got[i] = q[i] BY <3>1, <4>2, <4>3, <4>4, <4>5
        <4>7. CASE j = Len(q) + 1
          BY <2>3, <2>4, <4>2, <4>3, <4>6, <4>7
        <4>8. CASE j \in 1..Len(q)
          BY <2>5, <3>2, <4>2, <4>3, <4>4, <4>5, <4>6, <4>8
        <4>9. j = Len(q) + 1 \/ j \in 1..Len(q) BY <4>2, <4>4
        <4> QED BY <4>7, <4>8, <4>9
      <3> QED BY <1>7, <3>3, <3>4, PushedSocket
    <2> QED BY <2>5 DEF PushOrder
  <1>8. CASE UNCHANGED sockets /\ Next BY <1>2, <1>8
  <1> QED BY <1>1, <1>4, <1>5, <1>6, <1>7, <1>8, StepsWrite DEF Frames

\* No socket gets a message before one whose sender had its answer when it was sent.
THEOREM PushesAreOrdered == Spec => []PushOrder
  <1>1. ASSUME Init PROVE Ordered /\ PushOrder
    <2>1. \A s \in Sessions : req[s].at # "push" /\ req[s].after = {} BY <1>1 DEF Init, NoCall
    <2>2. Messages = {} BY <1>1 DEF Init, Messages
    <2>3. \A k \in SocketIds : DOMAIN sockets[k].got = {} BY <1>1 DEF Init, NoSocket
    <2> QED BY <2>1, <2>2, <2>3 DEF Ordered, Unanswered, OneEach, AfterAnswered, PushOrder
  <1> QED BY <1>1, OrderedStep, PushOrderStep, AlwaysTyped, PTL DEF Spec

-----------------------------------------------------------------------------
(* Views.  A client's view is of a room of its user, on a socket of its user. *)

UpIsRegistered == \A k \in SocketIds : sockets[k].up => sockets[k].registered
ViewsFit == \A u \in Users : views[u].room # None =>
  /\ views[u].room \in RoomIds /\ u \in rooms[views[u].room].members
  /\ views[u].socket \in SocketIds /\ sockets[views[u].socket].user = u
PagesFit == \A s \in Sessions : req[s].op = "page" => views[req[s].user].room = req[s].room

Watched == UpIsRegistered /\ ViewsFit /\ PagesFit /\ ViewIsComplete

Has(u, m) == \/ m \in views[u].got \/ Pushing(m)
             \/ messages[m].sender = u \/ Unpaged(views[u], m)
Complete(u) == views[u].room # None /\ Listens(u, views[u].socket) =>
                 \A m \in Of(views[u].room) : Has(u, m)

LEMMA CompleteIsAll == ViewIsComplete <=> \A u \in Users : Complete(u)
  BY DEF ViewIsComplete, Complete, Has

\* A socket keeps its user, and once down it stays so.
LEMMA SocketKeeps ==
  ASSUME TypeInv, UpIsRegistered, [Next]_vars
  PROVE  /\ UpIsRegistered'
         /\ \A k \in SocketIds : sockets[k].user # None =>
              /\ sockets'[k].user = sockets[k].user
              /\ sockets'[k].up => sockets[k].up
  <1> DEFINE Goal == /\ UpIsRegistered'
                     /\ \A k \in SocketIds : sockets[k].user # None =>
                          /\ sockets'[k].user = sockets[k].user
                          /\ sockets'[k].up => sockets[k].up
  <1>1. sockets \in [SocketIds -> SocketStates] BY DEF TypeInv, MessagingTypeOK
  <1>2. CASE UNCHANGED sockets BY <1>2 DEF UpIsRegistered
  <1>3. ASSUME NEW k \in SocketIds, LinkDrops(k) PROVE Goal
    <2>1. sockets' = [sockets EXCEPT ![k] = [sockets[k] EXCEPT !.up = FALSE]]
      BY <1>1, <1>3 DEF LinkDrops
    <2>2. ASSUME NEW j \in SocketIds
          PROVE  /\ sockets'[j].user = sockets[j].user
                 /\ sockets'[j].up => sockets[j].up
                 /\ sockets'[j].up => sockets'[j].registered
      BY <1>1, <2>1 DEF SocketStates, UpIsRegistered
    <2> QED BY <2>2 DEF UpIsRegistered
  <1>4. ASSUME NEW k \in SocketIds, HandleDisconnect(k) PROVE Goal
    <2>1. sockets' = [sockets EXCEPT ![k] = [sockets[k] EXCEPT !.registered = FALSE]]
          /\ ~sockets[k].up
      BY <1>1, <1>4 DEF HandleDisconnect, UnregisterClient
    <2>2. ASSUME NEW j \in SocketIds
          PROVE  /\ sockets'[j].user = sockets[j].user
                 /\ sockets'[j].up => sockets[j].up
                 /\ sockets'[j].up => sockets'[j].registered
      BY <1>1, <2>1 DEF SocketStates, UpIsRegistered
    <2> QED BY <2>2 DEF UpIsRegistered
  <1>5. ASSUME NEW k \in SocketIds, NEW u \in Users, Connect(k, u) PROVE Goal
    <2> DEFINE c == [user |-> u, up |-> TRUE, registered |-> TRUE, got |-> <<>>]
    <2>1. sockets[k].user = None /\ sockets' = [sockets EXCEPT ![k] = c]
      BY <1>5 DEF Connect, NoSocket
    <2>2. c.registered OBVIOUS
    <2> HIDE DEF c
    <2> QED BY <1>1, <2>1, <2>2 DEF UpIsRegistered
  <1>6. ASSUME NEW s \in Sessions, Push(s) PROVE Goal
    <2>1. ASSUME NEW j \in SocketIds
          PROVE  /\ sockets'[j].user = sockets[j].user
                 /\ sockets'[j].up = sockets[j].up
                 /\ sockets'[j].registered = sockets[j].registered
      <3>1. \/ sockets'[j] = sockets[j]
            \/ sockets'[j] = [sockets[j] EXCEPT !.got = Append(sockets[j].got, req[s].message)]
        BY <1>6, PushedSocket
      <3> QED BY <1>1, <3>1 DEF SocketStates
    <2> QED BY <2>1 DEF UpIsRegistered
  <1>7. CASE Restart
    <2>1. ASSUME NEW j \in SocketIds
          PROVE  sockets'[j].user = sockets[j].user /\ ~sockets'[j].up
      BY <1>1, <1>7 DEF Restart, SocketStates
    <2> QED BY <2>1 DEF UpIsRegistered
  <1>8. CASE Next BY <1>2, <1>3, <1>4, <1>5, <1>6, <1>7, <1>8, StepsWrite DEF Frames
  <1>9. CASE UNCHANGED vars BY <1>2, <1>9 DEF vars, deliveryVars
  <1> QED BY <1>8, <1>9

\* A message stays about to be pushed until it is, or the process stops.
LEMMA PushingStays ==
  ASSUME TypeInv, [Next]_vars, NEW m, Pushing(m)
  PROVE  Pushing(m)' \/ Restart \/ \E s \in Sessions : Push(s) /\ req[s].message = m
  <1>1. PICK s \in Sessions : Running(s, "send", "push") /\ req[s].message = m BY DEF Pushing
  <1>2. CASE req'[s] = req[s] BY <1>1, <1>2 DEF Pushing, Running
  <1>3. ASSUME NEW r \in Sessions, NEW c, Begin(r, c) PROVE req'[s] = req[s]
    BY <1>1, <1>3, OneBegins DEF Running, NoCall
  <1>4. CASE Aside BY <1>1, <1>2, <1>4 DEF Aside, Running
  <1>5. ASSUME NEW r \in Sessions, NEW u \in Users, NEW q \in RoomIds, BeginSend(r, u, q)
        PROVE  req'[s] = req[s]
    BY <1>3, <1>5 DEF BeginSend
  <1>6. ASSUME NEW r \in Sessions, NEW u \in Users, NEW k \in SocketIds, NEW q \in RoomIds,
               BeginPage(r, u, k, q)
        PROVE  req'[s] = req[s]
    BY <1>3, <1>6 DEF BeginPage
  <1>7. ASSUME NEW r \in Sessions, NEW t \in 0..LastTick, InsertMessage(r, t)
        PROVE  req'[s] = req[s]
    <2>1. r # s BY <1>1, <1>7, InsertingRequest DEF Running
    <2> QED BY <1>7, <2>1, InsertingRequest
  <1>8. ASSUME NEW r \in Sessions, Push(r), r # s PROVE req'[s] = req[s]
    BY <1>8, PushingRequest
  <1> QED BY <1>1, <1>2, <1>4, <1>5, <1>6, <1>7, <1>8, StepKinds DEF Kinds

LEMMA ViewsFitStep ==
  ASSUME TypeInv, UpIsRegistered, ViewsFit, [Next]_vars
  PROVE  ViewsFit'
  <1>1. views \in [Users -> Views] BY DEF TypeInv, MessagingTypeOK
  <1>2. \A r \in InUse : rooms'[r] = rooms[r]
    <2>1. CASE Next BY <2>1, StepsWrite, RoomsStep
    <2>2. CASE UNCHANGED vars BY <2>2 DEF vars, chatVars
    <2> QED BY <2>1, <2>2
  <1>3. ASSUME NEW u \in Users,
               views'[u].room = views[u].room /\ views'[u].socket = views[u].socket,
               views'[u].room # None
        PROVE  /\ views'[u].room \in RoomIds /\ u \in rooms'[views'[u].room].members
               /\ views'[u].socket \in SocketIds /\ sockets'[views'[u].socket].user = u
    <2>1. /\ views[u].room \in RoomIds /\ u \in rooms[views[u].room].members
          /\ views[u].socket \in SocketIds /\ sockets[views[u].socket].user = u
      BY <1>3 DEF ViewsFit
    <2>2. rooms'[views[u].room] = rooms[views[u].room] BY <1>2, <2>1, MembersMeanUse
    <2>3. sockets'[views[u].socket].user = u
      BY <2>1, SocketKeeps, MessagingAssumption
    <2> QED BY <1>3, <2>1, <2>2, <2>3
  <1>4. ASSUME \A u \in Users : \/ views'[u].room = None
                                \/ /\ views'[u].room = views[u].room
                                   /\ views'[u].socket = views[u].socket
        PROVE  ViewsFit'
    BY <1>3, <1>4 DEF ViewsFit
  <1>5. CASE UNCHANGED views BY <1>4, <1>5
  <1>6. ASSUME NEW u \in Users, CloseView(u) PROVE ViewsFit'
    <2>1. views' = [views EXCEPT ![u] = NoView] BY <1>6 DEF CloseView
    <2>2. \A v \in Users : views'[v].room = None \/ views'[v] = views[v]
      BY <1>1, <2>1 DEF NoView
    <2> QED BY <1>4, <2>2
  <1>7. ASSUME NEW s \in Sessions, NEW u \in Users, NEW k \in SocketIds, NEW r \in RoomIds,
               BeginPage(s, u, k, r), Next
        PROVE  ViewsFit'
    <2>1. CASE views' = views BY <1>4, <2>1
    <2>2. CASE views' = [views EXCEPT ![u].room = r, ![u].socket = k]
      <3>1. views' = [views EXCEPT ![u] = [views[u] EXCEPT !.room = r, !.socket = k]]
        BY <1>1, <2>2
      <3>2. views'[u].room = r /\ views'[u].socket = k
            /\ \A v \in Users \ {u} : views'[v] = views[v]
        BY <1>1, <3>1 DEF Views
      <3>3. u \in rooms[r].members /\ sockets[k].user = u BY <1>7 DEF BeginPage, IsMember, Listens
      <3>4. rooms' = rooms /\ sockets' = sockets BY <1>7 DEF BeginPage, chatVars
      <3>5. \A v \in Users \ {u} : views'[v].room # None =>
              /\ views'[v].room \in RoomIds /\ v \in rooms'[views'[v].room].members
              /\ views'[v].socket \in SocketIds /\ sockets'[views'[v].socket].user = v
        BY <3>2, <3>4 DEF ViewsFit
      <3> QED BY <3>2, <3>3, <3>4, <3>5 DEF ViewsFit
    <2> QED BY <1>7, <2>1, <2>2 DEF BeginPage
  <1>8. ASSUME NEW s \in Sessions, NEW rows \in SUBSET (DOMAIN messages), ReadPage(s, rows)
        PROVE  ViewsFit'
    <2>1. req[s].user \in Users BY <1>8 DEF ReadPage, Running, TypeInv, CallsKept, Keeps
    <2>2. ASSUME NEW u \in Users
          PROVE  views'[u].room = views[u].room /\ views'[u].socket = views[u].socket
      <3>1. CASE views' = [views EXCEPT ![req[s].user].before = 0]
        BY <1>1, <2>1, <3>1 DEF Views
      <3>2. ASSUME NEW oldest \in rows,
                   views' = [views EXCEPT ![req[s].user] = Turned(@, rows, oldest)]
            PROVE  views'[u].room = views[u].room /\ views'[u].socket = views[u].socket
        BY <1>1, <2>1, <3>2 DEF Views, Turned
      <3> QED BY <1>8, <3>1, <3>2 DEF ReadPage
    <2> QED BY <1>4, <2>2
  <1>9. ASSUME NEW s \in Sessions, Push(s) PROVE ViewsFit'
    <2>1. ASSUME NEW u \in Users
          PROVE  views'[u].room = views[u].room /\ views'[u].socket = views[u].socket
      BY <1>1, <1>9 DEF Push, ViewsWith, Views
    <2> QED BY <1>4, <2>1
  <1>10. CASE UNCHANGED vars BY <1>5, <1>10 DEF vars, deliveryVars
  <1> QED BY <1>5, <1>6, <1>7, <1>8, <1>9, <1>10, StepsWrite DEF Frames

\* A view with a page under way keeps its room.
LEMMA PagedRoomStays ==
  ASSUME TypeInv, [Next]_vars, NEW s \in Sessions, req[s].op = "page"
  PROVE  views'[req[s].user].room = views[req[s].user].room
  <1>0. PICK u : u = req[s].user OBVIOUS
  <1>1. views \in [Users -> Views] BY DEF TypeInv, MessagingTypeOK
  <1>2. u \in Users BY <1>0 DEF TypeInv, CallsKept, Keeps
  <1>3. CASE UNCHANGED views BY <1>3
  <1>4. ASSUME NEW v \in Users, CloseView(v) PROVE views'[u].room = views[u].room
    <2>1. v # u BY <1>0, <1>4 DEF CloseView
    <2> QED BY <1>1, <1>2, <1>4, <2>1 DEF CloseView
  <1>5. ASSUME NEW r \in Sessions, NEW v \in Users, NEW k \in SocketIds, NEW q \in RoomIds,
               BeginPage(r, v, k, q)
        PROVE  views'[u].room = views[u].room
    <2>1. v # u BY <1>0, <1>5 DEF BeginPage
    <2>2. views' = views \/ views' = [views EXCEPT ![v].room = q, ![v].socket = k]
      BY <1>5 DEF BeginPage
    <2>3. views' = views \/ views' = [views EXCEPT ![v] = [views[v] EXCEPT !.room = q, !.socket = k]]
      BY <1>1, <2>2
    <2> QED BY <1>1, <1>2, <2>1, <2>3
  <1>6. ASSUME NEW r \in Sessions, NEW rows \in SUBSET (DOMAIN messages), ReadPage(r, rows)
        PROVE  views'[u].room = views[u].room
    <2>1. CASE views' = [views EXCEPT ![req[r].user].before = 0]
      BY <1>1, <1>2, <2>1 DEF Views
    <2>2. ASSUME NEW oldest \in rows,
                 views' = [views EXCEPT ![req[r].user] = Turned(@, rows, oldest)]
          PROVE  views'[u].room = views[u].room
      BY <1>1, <1>2, <2>2 DEF Views, Turned
    <2> QED BY <1>6, <2>1, <2>2 DEF ReadPage
  <1>7. ASSUME NEW r \in Sessions, Push(r) PROVE views'[u].room = views[u].room
    BY <1>1, <1>2, <1>7 DEF Push, ViewsWith, Views
  <1>8. CASE UNCHANGED vars BY <1>3, <1>8 DEF vars, deliveryVars
  <1>9. CASE Next
    <2>1. Frames BY <1>9, StepsWrite
    <2> QED BY <1>0, <1>3, <1>4, <1>5, <1>6, <1>7, <2>1 DEF Frames
  <1> QED BY <1>0, <1>8, <1>9

LEMMA PagesFitStep ==
  ASSUME TypeInv, PagesFit, [Next]_vars
  PROVE  PagesFit'
  <1>1. ASSUME NEW s \in Sessions, req'[s] = req[s], req'[s].op = "page"
        PROVE  views'[req'[s].user].room = req'[s].room
    BY <1>1, PagedRoomStays DEF PagesFit
  <1>2. ASSUME \A s \in Sessions : req'[s] = req[s] \/ req'[s].op # "page" PROVE PagesFit'
    BY <1>1, <1>2 DEF PagesFit
  <1>3. CASE Restart BY <1>2, <1>3 DEF Restart, NoCall
  <1>4. ASSUME NEW s \in Sessions, NEW u \in Users, NEW r \in RoomIds, BeginSend(s, u, r)
        PROVE  PagesFit'
    <2> DEFINE c == [NoCall EXCEPT !.op = "send", !.at = "insert", !.user = u, !.room = r,
                                   !.since = clock, !.after = Answered]
    <2>1. Begin(s, c) /\ c.op = "send" BY <1>4 DEF BeginSend, NoCall
    <2> HIDE DEF c
    <2> QED BY <1>2, <2>1, OneBegins
  <1>5. ASSUME NEW s \in Sessions, NEW t \in 0..LastTick, InsertMessage(s, t) PROVE PagesFit'
    BY <1>2, <1>5, InsertingRequest
  <1>6. ASSUME NEW s \in Sessions, Push(s) PROVE PagesFit'
    BY <1>2, <1>6, PushingRequest DEF NoCall
  <1>7. CASE Aside BY <1>2, <1>7 DEF Aside
  <1>8. CASE UNCHANGED <<messages, req>> BY <1>2, <1>8
  <1>9. ASSUME NEW s \in Sessions, NEW u \in Users, NEW k \in SocketIds, NEW r \in RoomIds,
               BeginPage(s, u, k, r)
        PROVE  PagesFit'
    <2> DEFINE c == [NoCall EXCEPT !.op = "page", !.at = "read", !.user = u, !.room = r]
    <2>1. Begin(s, c) /\ c.user = u /\ c.room = r BY <1>9 DEF BeginPage, NoCall
    <2> HIDE DEF c
    <2>2. req'[s] = c /\ \A q \in Sessions \ {s} : req'[q] = req[q] BY <2>1, OneBegins
    <2>3. views'[u].room = r
      BY <1>9 DEF BeginPage, TypeInv, MessagingTypeOK, Views
    <2> QED BY <1>1, <2>1, <2>2, <2>3 DEF PagesFit
  <1> QED BY <1>3, <1>4, <1>5, <1>6, <1>7, <1>8, <1>9, StepKinds DEF Kinds

\* A view that does not change keeps the messages it has, but for those no longer to be pushed.
LEMMA HasStays ==
  ASSUME TypeInv, [Next]_vars, NEW u \in Users, NEW m \in Messages, Has(u, m),
         views'[u] = views[u], Pushing(m) => Pushing(m)'
  PROVE  Has(u, m)'
  <1>1. messages'[m].sender = messages[m].sender /\ messages'[m].at = messages[m].at
    <2>1. CASE Next BY <2>1, StepsWrite, MessagesStep DEF Grows
    <2>2. CASE UNCHANGED vars BY <2>2 DEF vars, chatVars
    <2> QED BY <2>1, <2>2
  <1>2. CASE m \in views[u].got BY <1>2 DEF Has
  <1>3. CASE Pushing(m) BY <1>3 DEF Has
  <1>4. CASE messages[m].sender = u BY <1>1, <1>4 DEF Has
  <1>5. CASE Unpaged(views[u], m) BY <1>1, <1>5 DEF Has, Unpaged
  <1> QED BY <1>2, <1>3, <1>4, <1>5 DEF Has

\* Which steps may leave something out of a view: it changes, or messages do.
LEMMA CompleteStays ==
  ASSUME TypeInv, Watched, [Next]_vars, NEW u \in Users, views'[u] = views[u],
         UNCHANGED messages, \A m \in Messages : Pushing(m) => Pushing(m)'
  PROVE  Complete(u)'
  <1>1. ASSUME views[u].room # None, Listens(u, views[u].socket)',
               NEW m \in Of(views[u].room)'
        PROVE  Has(u, m)'
    <2>1. m \in Of(views[u].room) BY <1>1 DEF Of
    <2>2. /\ views[u].socket \in SocketIds /\ sockets[views[u].socket].user = u /\ u # None
      BY <1>1, MessagingAssumption DEF Watched, ViewsFit
    <2>3. Listens(u, views[u].socket) BY <1>1, <2>2, SocketKeeps DEF Listens, Watched
    <2>4. Complete(u) BY CompleteIsAll DEF Watched
    <2>5. Has(u, m) /\ m \in Messages BY <1>1, <2>1, <2>3, <2>4, MessagesAreRows DEF Complete, Of
    <2> QED BY <2>5, HasStays
  <1> QED BY <1>1 DEF Complete

LEMMA PageCompletes ==
  ASSUME TypeInv, Watched, [Next]_vars, NEW s \in Sessions, NEW rows \in SUBSET (DOMAIN messages),
         ReadPage(s, rows), NEW u \in Users, u = req[s].user, NEW v, v = views[u],
         NEW room, room = req[s].room, NEW older, older = Older(room, v.before)
  PROVE  Complete(u)'
  <1>1. u \in Users /\ room \in RoomIds /\ v.room = room
    BY DEF ReadPage, Running, TypeInv, CallsKept, Keeps, Watched, PagesFit
  <1>2. views \in [Users -> Views] /\ v \in Views BY <1>1 DEF TypeInv, MessagingTypeOK
  <1>3. IsPage(rows, older) BY DEF ReadPage
  <1>4. UNCHANGED <<messages, sockets>> BY DEF ReadPage, chatVars
  <1>5. ASSUME NEW m \in Messages, Pushing(m) PROVE Pushing(m)'
    <2>1. \A r \in Sessions \ {s} : req'[r] = req[r] BY DEF ReadPage, Reply, TypeInv, CallsKept
    <2>2. req[s].op = "page" BY DEF ReadPage, Running
    <2> QED BY <1>5, <2>1, <2>2 DEF Pushing, Running
  <1>6. room # None BY <1>1, MessagingAssumption
  <1>7. older \subseteq Messages BY MessagesAreRows DEF Older, Of
  <1>8. Complete(u) BY <1>1, CompleteIsAll DEF Watched
  <1>9. Listens(u, v.socket)' => Listens(u, v.socket) BY <1>4 DEF Listens
  <1> SUFFICES ASSUME Listens(u, v.socket), NEW m \in Of(room), views'[u].room = room,
                      views'[u].socket = v.socket
               PROVE  Has(u, m)'
    <2>1. CASE views' = [views EXCEPT ![u].before = 0]
      <3>1. views'[u].room = v.room /\ views'[u].socket = v.socket BY <1>1, <1>2, <2>1 DEF Views
      <3> QED BY <1>1, <1>4, <1>9, <3>1 DEF Complete, Of
    <2>2. ASSUME NEW oldest \in rows, views' = [views EXCEPT ![u] = Turned(@, rows, oldest)]
          PROVE  views'[u].room = v.room /\ views'[u].socket = v.socket
      BY <1>1, <1>2, <2>2 DEF Views, Turned
    <2> QED BY <1>1, <1>4, <1>9, <2>1, <2>2 DEF Complete, Of, ReadPage
  <1>10. m \in Messages BY MessagesAreRows DEF Of
  <1>11. Has(u, m) BY <1>1, <1>6, <1>8 DEF Complete
  <1>12. messages'[m] = messages[m] BY <1>4
  <1>13. messages[m].at \in Nat BY <1>10, MessageType
  <1>14. CASE Pushing(m) \/ messages[m].sender = u
    BY <1>5, <1>10, <1>12, <1>14 DEF Has
  <1>15. CASE views' = [views EXCEPT ![u].before = 0] /\ rows = {}
    <2>1. views'[u].got = v.got /\ views'[u].cuts = v.cuts BY <1>1, <1>2, <1>15 DEF Views
    <2>2. older = {}
      <3>1. IsFiniteSet(older)
        <4>1. IsFiniteSet(Messages) BY MessagesAreRows, FS_Interval DEF Messages
        <4> QED BY <1>7, <4>1, FS_Subset
      <3>2. Cardinality({}) = 0 BY FS_EmptySet
      <3>3. Cardinality(older) = 0
        BY <1>3, <1>15, <3>2, MessagingAssumption DEF IsPage
      <3> QED BY <3>1, <3>3, FS_EmptySet
    <2>3. v.before # None /\ ~(messages[m].at < v.before * Grain) BY <2>2 DEF Older
    <2>4. m \in v.got \/ Pushing(m) \/ messages[m].sender = u
          \/ Millisecond(messages[m].at) \in v.cuts
      BY <1>11, <2>3 DEF Has, Unpaged
    <2> QED BY <1>12, <1>14, <2>1, <2>4 DEF Has, Unpaged
  <1>16. ASSUME NEW oldest \in rows, \A n \in rows : messages[oldest].at <= messages[n].at,
                views' = [views EXCEPT ![u] = Turned(@, rows, oldest)]
         PROVE  Has(u, m)'
    <2> DEFINE next == Millisecond(messages[oldest].at)
    <2>1. views'[u] = Turned(v, rows, oldest) BY <1>1, <1>2, <1>16
    <2>2. /\ views'[u].got = v.got \cup rows /\ views'[u].before = next
          /\ views'[u].cuts = v.cuts \cup {next}
      BY <1>2, <2>1 DEF Turned, Views
    <2>3. oldest \in Messages /\ messages[oldest].at \in Nat
      BY MessagesAreRows, MessageType
    <2>4. CASE m \in rows BY <2>2, <2>4 DEF Has
    <2>5. CASE m \in older \ rows
      <3>1. messages[m].at <= messages[oldest].at BY <1>3, <2>5 DEF IsPage
      <3>2. CASE messages[m].at < next * Grain BY <1>12, <2>2, <3>2 DEF Has, Unpaged
      <3>3. CASE ~(messages[m].at < next * Grain)
        <4>1. next \in Nat /\ Millisecond(messages[m].at) \in Nat /\ Grain \in Nat
          BY <1>13, <2>3, DivBounds, MessagingAssumption
        <4>2. Millisecond(messages[m].at) >= next BY <1>13, <3>3, <4>1, DivBounds
        <4>3. Millisecond(messages[m].at) <= next
          BY <1>13, <2>3, <3>1, MessagingAssumption DEF Millisecond
        <4>4. Millisecond(messages[m].at) = next BY <4>1, <4>2, <4>3
        <4> QED BY <1>12, <2>2, <4>4 DEF Has, Unpaged
      <3> QED BY <3>2, <3>3
    <2>6. CASE m \notin older
      <3>1. v.before # None /\ ~(messages[m].at < v.before * Grain) BY <2>6 DEF Older
      <3>2. m \in v.got \/ Pushing(m) \/ messages[m].sender = u
            \/ Millisecond(messages[m].at) \in v.cuts
        BY <1>11, <3>1 DEF Has, Unpaged
      <3> QED BY <1>12, <1>14, <2>2, <3>2 DEF Has, Unpaged
    <2> QED BY <2>4, <2>5, <2>6
  <1> QED BY <1>15, <1>16 DEF ReadPage

LEMMA CompleteStep ==
  ASSUME TypeInv, Watched, [Next]_vars, NEW u \in Users
  PROVE  Complete(u)'
  <1>1. views \in [Users -> Views] BY DEF TypeInv, MessagingTypeOK
  <1>2. sockets' \in [SocketIds -> SocketStates] BY TypeStep DEF TypeInv, MessagingTypeOK
  <1>3. Complete(u) BY CompleteIsAll DEF Watched
  <1>4. ViewsFit' BY ViewsFitStep DEF Watched
  <1>5. CASE Restart
    <2>1. ASSUME views[u].room # None PROVE ~Listens(u, views[u].socket)'
      <3>1. views[u].socket \in SocketIds BY <2>1 DEF Watched, ViewsFit
      <3>2. sockets[views[u].socket] \in SocketStates
        BY <3>1 DEF TypeInv, MessagingTypeOK
      <3>3. views' = views BY <1>5 DEF Restart
      <3>4. ~sockets'[views[u].socket].up BY <1>5, <3>1, <3>2 DEF Restart, SocketStates
      <3> QED BY <3>3, <3>4 DEF Listens
    <2>2. views' = views BY <1>5 DEF Restart
    <2> QED BY <2>1, <2>2 DEF Complete
  <1>6. ASSUME NEW s \in Sessions, Push(s), Next PROVE Complete(u)'
    <2> SUFFICES ASSUME views'[u].room # None, Listens(u, views[u].socket)',
                        NEW m \in Of(views[u].room)'
                 PROVE  Has(u, m)'
      BY <1>1, <1>6 DEF Complete, Push, ViewsWith, Views
    <2>1. /\ views'[u].room = views[u].room /\ views'[u].socket = views[u].socket
          /\ views'[u].before = views[u].before /\ views'[u].cuts = views[u].cuts
          /\ views[u].got \subseteq views'[u].got
      BY <1>1, <1>6 DEF Push, ViewsWith, Views
    <2>2. /\ views[u].room \in RoomIds /\ u \in rooms[views[u].room].members
          /\ views[u].socket \in SocketIds /\ sockets[views[u].socket].user = u
      BY <2>1 DEF Watched, ViewsFit
    <2>3. sockets[views[u].socket].up
      BY <2>1, <2>2, SocketKeeps, MessagingAssumption DEF Watched, Listens
    <2>4. messages' \in Seq(MessageRows) /\ Messages' = Messages BY <1>6, PushedMessage
    <2>5. m \in Messages BY <2>4 DEF Of, Messages
    <2>6. /\ messages'[m].room = messages[m].room /\ messages'[m].sender = messages[m].sender
          /\ messages'[m].at = messages[m].at
      BY <1>6, <2>5, StepsWrite, MessagesStep DEF Grows
    <2>7. m \in Of(views[u].room) BY <2>1, <2>5, <2>6, MessagesAreRows DEF Of
    <2>8. Has(u, m) BY <1>3, <2>1, <2>2, <2>3, <2>7 DEF Complete, Listens
    <2>9. CASE m = req[s].message /\ messages[m].sender # u
      <3>1. u \in Recipients(m) BY <2>2, <2>7, <2>9 DEF Recipients, Of
      <3>2. views[u].socket \in Reached(u)
        BY <2>2, <2>3 DEF Reached, ClientsOf, Watched, UpIsRegistered
      <3>3. views[u].room = messages[m].room BY <2>7 DEF Of
      <3>4. views[u].socket \in UNION {Reached(w) : w \in Recipients(m)} BY <3>1, <3>2
      <3>5. views' = ViewsWith(m, UNION {Reached(w) : w \in Recipients(m)})
        BY <1>6, <2>9 DEF Push
      <3>6. m \in views'[u].got BY <1>1, <3>3, <3>4, <3>5 DEF ViewsWith, Views
      <3> QED BY <3>6 DEF Has
    <2>10. CASE m # req[s].message /\ Pushing(m)
      <3>1. Pushing(m)'
        <4>1. PICK r \in Sessions : Running(r, "send", "push") /\ req[r].message = m
          BY <2>10 DEF Pushing
        <4>2. req'[r] = req[r] BY <1>6, <2>10, <4>1, PushingRequest
        <4> QED BY <4>1, <4>2 DEF Pushing, Running
      <3> QED BY <3>1 DEF Has
    <2>11. CASE m \in views[u].got \/ messages[m].sender = u \/ Unpaged(views[u], m)
      BY <2>1, <2>6, <2>11 DEF Has, Unpaged
    <2> QED BY <2>8, <2>9, <2>10, <2>11 DEF Has
  <1>7. ASSUME NEW s \in Sessions, NEW t \in 0..LastTick, InsertMessage(s, t), Next
        PROVE  Complete(u)'
    <2>0. PICK n : n = Len(messages) + 1 OBVIOUS
    <2>1. views' = views /\ sockets' = sockets BY <1>7 DEF InsertMessage, deliveryVars
    <2>2. Messages' = Messages \cup {n} /\ \A m \in Messages : messages'[m] = messages[m]
      BY <1>7, <2>0, InsertedMessage
    <2>3. DOMAIN messages' = Messages'
      <3>1. messages' \in Seq(MessageRows) BY <1>7, InsertedMessage
      <3> QED BY <3>1 DEF Messages
    <2>4. Pushing(n)'
      BY <1>7, <2>0, InsertingRequest DEF Pushing, Running
    <2>5. ASSUME NEW m \in Messages, Pushing(m) PROVE Pushing(m)'
      <3>1. PICK r \in Sessions : Running(r, "send", "push") /\ req[r].message = m
        BY <2>5 DEF Pushing
      <3>2. r # s BY <1>7, <3>1, InsertingRequest DEF Running
      <3>3. req'[r] = req[r] BY <1>7, <3>2, InsertingRequest
      <3> QED BY <3>1, <3>3 DEF Pushing, Running
    <2> SUFFICES ASSUME views[u].room # None, Listens(u, views[u].socket),
                        NEW m \in Of(views[u].room)'
                 PROVE  Has(u, m)'
      BY <2>1 DEF Complete, Listens
    <2>6. CASE m = n BY <2>4, <2>6 DEF Has
    <2>7. CASE m \in Messages
      <3>1. m \in Of(views[u].room) BY <2>1, <2>2, <2>7, MessagesAreRows DEF Of
      <3>2. Has(u, m) BY <1>3, <3>1 DEF Complete
      <3> QED BY <2>1, <2>5, <2>7, <3>2, HasStays
    <2> QED BY <2>2, <2>3, <2>6, <2>7 DEF Of
  <1>8. ASSUME NEW v \in Users, CloseView(v) PROVE Complete(u)'
    <2>1. UNCHANGED <<messages, req, sockets>> BY <1>8 DEF CloseView, chatVars
    <2>2. \A m : Pushing(m) => Pushing(m)' BY <2>1 DEF Pushing, Running
    <2>3. views'[u] = views[u] \/ views'[u] = NoView BY <1>1, <1>8 DEF CloseView
    <2>4. CASE views'[u] = NoView BY <2>4 DEF Complete, NoView
    <2> QED BY <2>1, <2>2, <2>3, <2>4, CompleteStays
  <1>9. ASSUME NEW s \in Sessions, NEW v \in Users, NEW k \in SocketIds, NEW r \in RoomIds,
               BeginPage(s, v, k, r)
        PROVE  Complete(u)'
    <2>1. UNCHANGED messages BY <1>9 DEF BeginPage, chatVars
    <2>2. ASSUME NEW m, Pushing(m) PROVE Pushing(m)'
      <3> DEFINE c == [NoCall EXCEPT !.op = "page", !.at = "read", !.user = v, !.room = r]
      <3>1. Begin(s, c) BY <1>9 DEF BeginPage
      <3> HIDE DEF c
      <3>2. req[s] = NoCall /\ \A q \in Sessions \ {s} : req'[q] = req[q] BY <3>1, OneBegins
      <3>3. req[s].op # "send" BY <3>2 DEF NoCall
      <3> QED BY <2>2, <3>2, <3>3 DEF Pushing, Running
    <2>3. CASE views'[u] = views[u] BY <2>1, <2>2, <2>3, CompleteStays
    <2>4. CASE views[u] = NoView /\ views'[u] = [views[u] EXCEPT !.room = r, !.socket = k]
      <3>1. views'[u].before = None BY <1>1, <2>4 DEF NoView, Views
      <3> QED BY <3>1 DEF Complete, Has, Unpaged
    <2>5. \/ views'[u] = views[u]
          \/ views[u] = NoView /\ views'[u] = [views[u] EXCEPT !.room = r, !.socket = k]
      <3>1. \/ views' = views
            \/ views[v] = NoView /\ views' = [views EXCEPT ![v].room = r, ![v].socket = k]
        BY <1>9 DEF BeginPage
      <3> QED BY <1>1, <3>1
    <2> QED BY <2>3, <2>4, <2>5
  <1>10. ASSUME NEW s \in Sessions, NEW rows \in SUBSET (DOMAIN messages), ReadPage(s, rows)
         PROVE  Complete(u)'
    <2>1. CASE u = req[s].user BY <1>10, <2>1, PageCompletes
    <2>2. CASE u # req[s].user
      <3>1. views'[u] = views[u] BY <1>1, <1>10, <2>2 DEF ReadPage
      <3>2. UNCHANGED messages BY <1>10 DEF ReadPage, chatVars
      <3>3. ASSUME NEW m, Pushing(m) PROVE Pushing(m)'
        <4>1. \A r \in Sessions \ {s} : req'[r] = req[r]
          BY <1>10 DEF ReadPage, Reply, TypeInv, CallsKept
        <4>2. req[s].op = "page" BY <1>10 DEF ReadPage, Running
        <4> QED BY <3>3, <4>1, <4>2 DEF Pushing, Running
      <3> QED BY <3>1, <3>2, <3>3, CompleteStays
    <2> QED BY <2>1, <2>2
  <1>11. ASSUME views' = views, UNCHANGED messages, ~Restart, ~\E s \in Sessions : Push(s)
         PROVE  Complete(u)'
    <2>1. \A m : Pushing(m) => Pushing(m)' BY <1>11, PushingStays
    <2> QED BY <1>11, <2>1, CompleteStays
  <1>12. CASE UNCHANGED vars
    <2>1. \A m : Pushing(m) => Pushing(m)' BY <1>12 DEF vars, Pushing, Running
    <2> QED BY <1>12, <2>1, CompleteStays DEF vars, chatVars, deliveryVars
  <1>13. CASE Next
    <2>1. Frames BY <1>13, StepsWrite
    <2> QED BY <1>5, <1>6, <1>7, <1>8, <1>9, <1>10, <1>11, <1>13, <2>1 DEF Frames
  <1> QED BY <1>12, <1>13

LEMMA WatchedStep == ASSUME TypeInv, Watched, [Next]_vars PROVE Watched'
  <1>1. UpIsRegistered' BY SocketKeeps DEF Watched
  <1>2. ViewsFit' BY ViewsFitStep DEF Watched
  <1>3. PagesFit' BY PagesFitStep DEF Watched
  <1>4. \A u \in Users : Complete(u)' BY CompleteStep
  <1>5. ViewIsComplete' BY <1>4 DEF ViewIsComplete, Complete, Has
  <1> QED BY <1>1, <1>2, <1>3, <1>5 DEF Watched

\* A client that stays connected has every message of the room it has open, down to where it has
\* paged: pushes and pages leave no gap but twins of a page's end.
THEOREM ViewsAreComplete == Spec => []ViewIsComplete
  <1>1. ASSUME Init PROVE Watched
    <2>1. \A u \in Users : views[u].room = None BY <1>1 DEF Init, NoView
    <2>2. \A k \in SocketIds : ~sockets[k].up BY <1>1 DEF Init, NoSocket
    <2>3. \A s \in Sessions : req[s].op # "page" BY <1>1 DEF Init, NoCall
    <2> QED BY <2>1, <2>2, <2>3
            DEF Watched, UpIsRegistered, ViewsFit, PagesFit, ViewIsComplete
  <1>2. Watched => ViewIsComplete BY DEF Watched
  <1> QED BY <1>1, <1>2, WatchedStep, AlwaysTyped, PTL DEF Spec

-----------------------------------------------------------------------------
(* Bells *)

Bells == [socket : SocketIds \cup {None}, rows : SUBSET (Nat \X Users \X Nat), next : Nat,
          down : Nat, cuts : SUBSET Nat]

BellsFit == /\ bells \in [Users -> Bells]
            /\ \A u \in Users : bells[u].socket # None => sockets[bells[u].socket].user = u

\* The pages a client has read are at most the rows down to the last one's end.
Since(rows, u, down) == {x \in rows : x[2] = u /\ x[3] >= down}
Paged(bell, u) ==
  bell.next > 0 => Cardinality(Since(notes, u, bell.down)) >= (bell.next - 1) * NotesPage
BellsCount == IsFiniteSet(notes) /\ \A u \in Users : Paged(bells[u], u)

Rung == UpIsRegistered /\ BellsFit /\ BellsCount /\ BellIsComplete

Hears(u) == bells[u].socket # None /\ Listens(u, bells[u].socket)
Due(n, u) == \/ n \in bells[u].rows \/ <<n[1], n[2], "push">> \in notices
             \/ Unlisted(bells[u], n)

LEMMA NoteType ==
  ASSUME TypeInv, NEW n \in notices
  PROVE  n[1] \in Nat /\ n[2] \in Users /\ n = <<n[1], n[2], n[3]>>
  <1>1. Messages \subseteq Nat BY MessagesAreRows DEF Messages
  <1>2. n \in Messages \X Users \X {"insert", "push"} BY DEF TypeInv, MessagingTypeOK
  <1>3. PICK a \in Messages, b \in Users, c \in {"insert", "push"} : n = <<a, b, c>> BY <1>2
  <1> QED BY <1>1, <1>3

LEMMA NotesAreTyped ==
  ASSUME TypeInv
  PROVE  /\ notes \subseteq Nat \X Users \X Nat
         /\ \A x \in notes : x[3] \in Nat
  <1>1. Messages \subseteq Nat BY MessagesAreRows DEF Messages
  <1>2. notes \subseteq Messages \X Users \X (0..LastTick) BY DEF TypeInv, MessagingTypeOK
  <1>3. ASSUME NEW x \in notes PROVE x \in Nat \X Users \X Nat /\ x[3] \in Nat
    <2>1. x \in Messages \X Users \X (0..LastTick) BY <1>2
    <2>2. PICK a \in Messages, b \in Users, c \in 0..LastTick : x = <<a, b, c>> BY <2>1
    <2>3. a \in Nat /\ c \in Nat BY <1>1, MessagingAssumption
    <2> QED BY <2>2, <2>3
  <1> QED BY <1>3

LEMMA BellWithIs ==
  ASSUME bells \in [Users -> Bells], NEW u \in Users, NEW rows, NEW K
  PROVE  BellWith(u, rows, K) = IF bells[u].socket \in K
                                THEN [bells EXCEPT ![u] = [bells[u] EXCEPT !.rows = @ \cup rows]]
                                ELSE bells
  <1>1. CASE bells[u].socket \in K
    <2>1. BellWith(u, rows, K) = [bells EXCEPT ![u].rows = @ \cup rows] BY <1>1 DEF BellWith
    <2> QED BY <1>1, <2>1
  <1>2. CASE bells[u].socket \notin K
    <2>1. BellWith(u, rows, K) = [bells EXCEPT ![u].rows = bells[u].rows] BY <1>2 DEF BellWith
    <2>2. bells[u] \in Bells OBVIOUS
    <2>3. [bells[u] EXCEPT !.rows = bells[u].rows] = bells[u] BY <2>2 DEF Bells
    <2>4. BellWith(u, rows, K) = [bells EXCEPT ![u] = bells[u]] BY <2>1, <2>3
    <2> QED BY <1>2, <2>4
  <1> QED BY <1>1, <1>2

-----------------------------------------------------------------------------
(* Pages of notifications.  All are a user's rows, down is where the pages  *)
(* before this one ended.                                                   *)

\* A row that is behind those pages is neither in what comes before this page, nor, if it is
\* not in the page, newer than a row of it; a page that is not full is the last.
LEMMA PageLeavesNoGap ==
  ASSUME NEW all, IsFiniteSet(all), \A x \in all : x[3] \in Nat, NEW rows,
         NEW page \in Nat \ {0}, NEW down \in Nat, IsNotesPage(rows, all, page),
         Cardinality({x \in all : x[3] >= down}) >= (page - 1) * NotesPage,
         NEW n \in all \ rows, page > 1 => n[3] < down
  PROVE  /\ \A x \in rows : n[3] <= x[3]
         /\ ~(Cardinality(rows) < NotesPage)
  <1> DEFINE p == (page - 1) * NotesPage
             S == {x \in all : x[3] >= down}
  <1>1. p \in Nat /\ NotesPage \in Nat /\ (page = 1 => p = 0) BY MessagingAssumption
  <1>2. Cardinality(S) >= p OBVIOUS
  <1>3. PICK before \in SUBSET all :
          /\ rows \subseteq all \ before
          /\ Cardinality(before) = AtMost(p, all)
          /\ Cardinality(rows) = AtMost(NotesPage, all \ before)
          /\ \A x \in before, y \in all \ before : x[3] >= y[3]
          /\ \A x \in rows, y \in all \ (before \cup rows) : x[3] >= y[3]
    BY DEF IsNotesPage
  <1>4. /\ S \in SUBSET all /\ all \ before \in SUBSET all /\ before \in SUBSET all
        /\ rows \in SUBSET (all \ before)
    BY <1>3
  <1>5. IsFiniteSet(S) /\ IsFiniteSet(all \ before) /\ IsFiniteSet(before)
    BY <1>4, FS_Subset
  <1>6. /\ Cardinality(S) \in Nat /\ Cardinality(before) \in Nat /\ Cardinality(all) \in Nat
        /\ Cardinality(all \ before) \in Nat
    BY <1>5, FS_CardinalityType
  <1>7. Cardinality(before) <= p BY <1>1, <1>3, <1>6 DEF AtMost
  <1> HIDE DEF p
  <1>8. n \notin before
    <2>1. ASSUME n \in before PROVE FALSE
      <3>1. CASE page = 1
        <4>1. Cardinality(before) = 0 BY <1>1, <1>6, <1>7, <3>1
        <4> QED BY <1>5, <2>1, <4>1, FS_EmptySet
      <3>2. CASE page > 1
        <4>1. n[3] < down /\ n[3] \in Nat BY <3>2
        <4>2. n \notin S BY <4>1
        <4>3. \A x \in S : x \in before
          <5>1. ASSUME NEW x \in S, x \notin before PROVE FALSE
            <6>1. n[3] >= x[3] /\ x[3] >= down /\ x[3] \in Nat BY <1>3, <2>1, <5>1
            <6> QED BY <4>1, <6>1
          <5> QED BY <5>1
        <4>4. S \cup {n} \in SUBSET before BY <2>1, <4>3
        <4> HIDE DEF S
        <4>5. Cardinality(S \cup {n}) = Cardinality(S) + 1 BY <1>5, <4>2, FS_AddElement
        <4>6. Cardinality(S \cup {n}) <= Cardinality(before) BY <1>5, <4>4, FS_Subset
        <4> QED BY <1>1, <1>2, <1>6, <1>7, <4>5, <4>6
      <3> QED BY <3>1, <3>2
    <2> QED BY <2>1
  <1>9. \A x \in rows : n[3] <= x[3]
    <2>1. ASSUME NEW x \in rows PROVE n[3] <= x[3]
      <3>1. x[3] >= n[3] BY <1>3, <1>8
      <3> QED BY <1>4, <3>1
    <2> QED BY <2>1
  <1>10. ASSUME Cardinality(rows) < NotesPage PROVE FALSE
    <2>1. Cardinality(rows) = Cardinality(all \ before) BY <1>1, <1>3, <1>6, <1>10 DEF AtMost
    <2>2. all \ before = rows BY <1>4, <1>5, <2>1, FS_Subset
    <2> QED BY <1>8, <2>2
  <1> QED BY <1>9, <1>10

\* The rows down to the end of a full page are those of all pages so far.
LEMMA PagesAddUp ==
  ASSUME NEW all, IsFiniteSet(all), \A x \in all : x[3] \in Nat, NEW rows,
         NEW page \in Nat \ {0}, IsNotesPage(rows, all, page), Cardinality(rows) = NotesPage,
         NEW oldest \in rows, \A x \in rows : oldest[3] <= x[3]
  PROVE  Cardinality({x \in all : x[3] >= oldest[3]}) >= page * NotesPage
  <1> DEFINE p == (page - 1) * NotesPage
             S == {x \in all : x[3] >= oldest[3]}
  <1>1. p \in Nat /\ NotesPage \in Nat \ {0} /\ p + NotesPage = page * NotesPage
    BY MessagingAssumption
  <1> HIDE DEF p
  <1>2. PICK before \in SUBSET all :
          /\ rows \subseteq all \ before
          /\ Cardinality(before) = AtMost(p, all)
          /\ \A x \in before, y \in all \ before : x[3] >= y[3]
    BY DEF IsNotesPage, p
  <1>3. oldest \in all /\ oldest[3] \in Nat BY <1>2
  <1>4. S \in SUBSET all /\ before \in SUBSET all /\ rows \in SUBSET all BY <1>2
  <1>5. before \cup rows \in SUBSET S
    <2>1. \A x \in before : x[3] >= oldest[3] BY <1>2
    <2>2. \A x \in rows : x \in all /\ x[3] \in Nat /\ x[3] >= oldest[3] BY <1>3, <1>4
    <2> QED BY <1>2, <2>1, <2>2
  <1> HIDE DEF S
  <1>6. IsFiniteSet(S) /\ IsFiniteSet(before) /\ IsFiniteSet(rows) BY <1>4, FS_Subset
  <1>7. /\ Cardinality(all) \in Nat /\ Cardinality(before) \in Nat /\ Cardinality(S) \in Nat
    BY <1>6, FS_CardinalityType
  <1>8. Cardinality(before) = p
    <2>1. ASSUME Cardinality(all) < p PROVE FALSE
      <3>1. Cardinality(all) = Cardinality(before) BY <1>2, <2>1 DEF AtMost
      <3>2. all = before BY <1>4, <3>1, FS_Subset
      <3> QED BY <1>2, <1>3, <3>2
    <2> QED BY <1>1, <1>2, <1>7, <2>1 DEF AtMost
  <1>9. before \cap rows = {} BY <1>2
  <1>10. Cardinality(before \cup rows) = Cardinality(before) + Cardinality(rows) - Cardinality({})
    BY <1>6, <1>9, FS_Union
  <1>11. Cardinality({}) = 0 BY FS_EmptySet
  <1>12. Cardinality(before \cup rows) <= Cardinality(S) BY <1>5, <1>6, FS_Subset
  <1> QED BY <1>1, <1>7, <1>8, <1>10, <1>11, <1>12 DEF S

\* A client that opens its list or asks for more, and what it has got then.
Asked(u, bell) ==
  /\ bell \in Bells /\ bell.socket \in SocketIds /\ sockets[bell.socket].user = u
  /\ bell.next \in Nat \ {0} /\ Paged(bell, u)
  /\ bell = bells[u] \/ bell.next = 1

NowShows(u, bell, rows) ==
  /\ bells' \in [Users -> Bells]
  /\ \A v \in Users : v # u => bells'[v] = bells[v]
  /\ bells'[u].socket = bell.socket
  /\ bells'[u].rows = bell.rows \cup rows
  /\ bell.cuts \subseteq bells'[u].cuts
  /\ \/ Cardinality(rows) < NotesPage /\ bells'[u].next = 0
     \/ /\ Cardinality(rows) = NotesPage
        /\ bells'[u].next = bell.next + 1
        /\ \E oldest \in rows : /\ \A x \in rows : oldest[3] <= x[3]
                                /\ bells'[u].down = oldest[3] /\ oldest[3] \in bells'[u].cuts

LEMMA ListingAsks ==
  ASSUME TypeInv, Rung, NEW u \in Users, MoreNotes(u) \/ \E k \in SocketIds : OpenNotes(u, k)
  PROVE  \E bell, rows : Asked(u, bell) /\ ListNotes(u, bell, rows)
  <1>1. bells \in [Users -> Bells] BY DEF Rung, BellsFit
  <1>2. CASE MoreNotes(u)
    <2>1. PICK rows : ListNotes(u, bells[u], rows) BY <1>2 DEF MoreNotes
    <2>2. /\ bells[u] \in Bells /\ bells[u].next > 1 /\ bells[u].socket # None
          /\ sockets[bells[u].socket].user = u /\ Paged(bells[u], u)
      BY <1>1, <1>2 DEF MoreNotes, Rung, BellsFit, BellsCount
    <2>3. bells[u].next \in Nat \ {0} /\ bells[u].socket \in SocketIds BY <2>2 DEF Bells
    <2> QED BY <2>1, <2>2, <2>3 DEF Asked
  <1>3. ASSUME NEW k \in SocketIds, OpenNotes(u, k)
        PROVE  \E bell, rows : Asked(u, bell) /\ ListNotes(u, bell, rows)
    <2> DEFINE bell == [NoBell EXCEPT !.socket = k]
    <2>1. PICK rows : ListNotes(u, bell, rows) BY <1>3 DEF OpenNotes
    <2>2. bell \in Bells /\ bell.socket = k /\ bell.next = 1 /\ bell.down = 0 BY DEF NoBell, Bells
    <2>3. sockets[k].user = u BY <2>1, <2>2 DEF ListNotes, Listens
    <2> HIDE DEF bell
    <2>4. Cardinality(Since(notes, u, 0)) \in Nat
      <3>1. Since(notes, u, 0) \in SUBSET notes BY DEF Since
      <3>2. IsFiniteSet(Since(notes, u, 0)) BY <3>1, FS_Subset DEF Rung, BellsCount
      <3> QED BY <3>2, FS_CardinalityType
    <2>5. Paged(bell, u) BY <2>2, <2>4, MessagingAssumption DEF Paged
    <2> QED BY <2>1, <2>2, <2>3, <2>5 DEF Asked
  <1> QED BY <1>2, <1>3

LEMMA ListingAnswers ==
  ASSUME TypeInv, Rung, NEW u \in Users, NEW bell, NEW rows, Asked(u, bell),
         ListNotes(u, bell, rows)
  PROVE  NowShows(u, bell, rows)
  <1>1. bells \in [Users -> Bells] /\ bell \in Bells BY DEF Rung, BellsFit, Asked
  <1>2. rows \subseteq notes /\ rows \subseteq Nat \X Users \X Nat
    BY NotesAreTyped DEF ListNotes, IsNotesPage, NotesOf
  <1>3. CASE /\ Cardinality(rows) < NotesPage
             /\ bells' = [bells EXCEPT ![u] = LastPage(bell, rows)]
    <2>1. /\ LastPage(bell, rows) \in Bells /\ LastPage(bell, rows).socket = bell.socket
          /\ LastPage(bell, rows).rows = bell.rows \cup rows
          /\ LastPage(bell, rows).cuts = bell.cuts /\ LastPage(bell, rows).next = 0
      BY <1>1, <1>2 DEF LastPage, Bells
    <2> QED BY <1>1, <1>3, <2>1 DEF NowShows
  <1>4. CASE /\ Cardinality(rows) = NotesPage
             /\ \E oldest \in rows : /\ \A x \in rows : oldest[3] <= x[3]
                                     /\ bells' = [bells EXCEPT ![u] = FullPage(bell, rows, oldest[3])]
    <2>1. PICK oldest \in rows : /\ \A x \in rows : oldest[3] <= x[3]
                                 /\ bells' = [bells EXCEPT ![u] = FullPage(bell, rows, oldest[3])]
      BY <1>4
    <2>2. PICK end : end = oldest[3] OBVIOUS
    <2> DEFINE row == FullPage(bell, rows, end)
    <2>3. /\ row \in Bells /\ row.socket = bell.socket /\ row.rows = bell.rows \cup rows
          /\ row.cuts = bell.cuts \cup {end} /\ row.next = bell.next + 1 /\ row.down = end
      <3>1. end \in Nat BY <1>2, <2>2, NotesAreTyped
      <3>2. /\ bell.socket \in SocketIds \cup {None} /\ bell.next + 1 \in Nat
            /\ bell.rows \cup rows \in SUBSET (Nat \X Users \X Nat)
            /\ bell.cuts \cup {end} \in SUBSET Nat
        BY <1>1, <1>2, <3>1 DEF Bells
      <3> QED BY <3>1, <3>2 DEF FullPage, Bells
    <2> HIDE DEF row
    <2>4. bells' = [bells EXCEPT ![u] = row] BY <2>1, <2>2 DEF row
    <2>5. end \in row.cuts BY <2>3
    <2> QED BY <1>1, <1>4, <2>1, <2>2, <2>3, <2>4, <2>5 DEF NowShows
  <1> QED BY <1>3, <1>4 DEF ListNotes

LEMMA BellsStep ==
  ASSUME TypeInv, Rung, [Next]_vars
  PROVE  BellsFit'
  <1>1. bells \in [Users -> Bells] BY DEF Rung, BellsFit
  <1>2. ASSUME NEW u \in Users, bells[u].socket # None
        PROVE  sockets'[bells[u].socket].user = u
    <2>1. bells[u].socket \in SocketIds /\ sockets[bells[u].socket].user = u
      BY <1>1, <1>2 DEF Bells, Rung, BellsFit
    <2> QED BY <2>1, SocketKeeps, MessagingAssumption DEF Rung
  <1>3. ASSUME bells' \in [Users -> Bells], \A u \in Users : bells'[u].socket = bells[u].socket
        PROVE  BellsFit'
    BY <1>2, <1>3 DEF BellsFit
  <1>4. CASE UNCHANGED bells BY <1>1, <1>3, <1>4
  <1>5. ASSUME NEW n \in notices, Notify(n) PROVE BellsFit'
    <2>1. n[2] \in Users /\ RowsOf(n) \subseteq Nat \X Users \X Nat
      BY NoteType, NotesAreTyped DEF RowsOf
    <2>2. \/ bells' = bells
          \/ bells' = [bells EXCEPT ![n[2]] = [bells[n[2]] EXCEPT !.rows = @ \cup RowsOf(n)]]
      <3>1. bells' = bells \/ bells' = BellWith(n[2], RowsOf(n), Reached(n[2])) BY <1>5 DEF Notify
      <3> QED BY <1>1, <2>1, <3>1, BellWithIs
    <2>3. [bells[n[2]] EXCEPT !.rows = @ \cup RowsOf(n)] \in Bells
      BY <1>1, <2>1 DEF Bells
    <2>4. CASE bells' = [bells EXCEPT ![n[2]] = [bells[n[2]] EXCEPT !.rows = @ \cup RowsOf(n)]]
      <3>1. bells' \in [Users -> Bells] BY <1>1, <2>3, <2>4
      <3>2. \A u \in Users : bells'[u].socket = bells[u].socket BY <1>1, <2>1, <2>4 DEF Bells
      <3> QED BY <1>3, <3>1, <3>2
    <2> QED BY <1>4, <2>2, <2>4
  <1>6. ASSUME NEW u \in Users, MoreNotes(u) \/ \E k \in SocketIds : OpenNotes(u, k)
        PROVE  BellsFit'
    <2>1. PICK bell, rows : Asked(u, bell) /\ ListNotes(u, bell, rows) BY <1>6, ListingAsks
    <2>2. NowShows(u, bell, rows) BY <2>1, ListingAnswers
    <2>3. sockets' = sockets BY <2>1 DEF ListNotes
    <2> QED BY <1>2, <2>1, <2>2, <2>3 DEF BellsFit, NowShows, Asked
  <1>7. CASE UNCHANGED vars BY <1>4, <1>7 DEF vars, deliveryVars
  <1>8. CASE Next
    <2>1. Frames BY <1>8, StepsWrite
    <2> QED BY <1>4, <1>5, <1>6, <2>1 DEF Frames
  <1> QED BY <1>7, <1>8

LEMMA CountsStep ==
  ASSUME TypeInv, Rung, [Next]_vars
  PROVE  BellsCount'
  <1>1. bells \in [Users -> Bells] /\ IsFiniteSet(notes) BY DEF Rung, BellsFit, BellsCount
  <1>2. ASSUME notes \subseteq notes', IsFiniteSet(notes'), NEW u \in Users, NEW down
        PROVE  /\ Cardinality(Since(notes, u, down)) \in Nat
               /\ Cardinality(Since(notes', u, down)) \in Nat
               /\ Cardinality(Since(notes, u, down)) <= Cardinality(Since(notes', u, down))
    <2>1. /\ Since(notes', u, down) \in SUBSET notes'
          /\ Since(notes, u, down) \in SUBSET Since(notes', u, down)
      BY <1>2 DEF Since
    <2>2. IsFiniteSet(Since(notes', u, down)) BY <1>2, <2>1, FS_Subset
    <2>3. IsFiniteSet(Since(notes, u, down)) BY <2>1, <2>2, FS_Subset
    <2> QED BY <2>1, <2>2, <2>3, FS_Subset, FS_CardinalityType
  <1>3. ASSUME notes \subseteq notes', IsFiniteSet(notes'),
               \A u \in Users : bells'[u].next = bells[u].next /\ bells'[u].down = bells[u].down
        PROVE  BellsCount'
    <2>1. ASSUME NEW u \in Users PROVE Paged(bells[u], u)'
      <3>1. PICK down, p : down = bells[u].down /\ p = (bells[u].next - 1) * NotesPage OBVIOUS
      <3>2. down = bells'[u].down /\ p = (bells'[u].next - 1) * NotesPage BY <1>3, <3>1
      <3>3. p \in Int
        <4>1. bells[u].next \in Nat BY <1>1 DEF Bells
        <4> QED BY <3>1, <4>1, MessagingAssumption
      <3>4. bells'[u].next > 0 => Cardinality(Since(notes, u, down)) >= p
        BY <1>3, <3>1 DEF Rung, BellsCount, Paged
      <3>5. bells'[u].next > 0 => Cardinality(Since(notes', u, down)) >= p
        BY <1>2, <1>3, <3>3, <3>4
      <3> QED BY ONLY <3>2, <3>5 DEF Paged
    <2> QED BY <1>3, <2>1 DEF BellsCount
  <1>4. ASSUME NEW n \in notices, Notify(n) PROVE BellsCount'
    <2>1. n[2] \in Users BY NoteType
    <2>2. notes \subseteq notes' /\ IsFiniteSet(notes')
      <3>1. notes' = notes \/ \E x : notes' = notes \cup {x} BY <1>4 DEF Notify
      <3> QED BY <1>1, <3>1, FS_AddElement
    <2>3. \/ bells' = bells
          \/ bells' = [bells EXCEPT ![n[2]] = [bells[n[2]] EXCEPT !.rows = @ \cup RowsOf(n)]]
      <3>1. bells' = bells \/ bells' = BellWith(n[2], RowsOf(n), Reached(n[2])) BY <1>4 DEF Notify
      <3> QED BY <1>1, <2>1, <3>1, BellWithIs
    <2>4. \A u \in Users : bells'[u].next = bells[u].next /\ bells'[u].down = bells[u].down
      BY <1>1, <2>1, <2>3 DEF Bells
    <2> QED BY <1>3, <2>2, <2>4
  <1>5. ASSUME NEW u \in Users, MoreNotes(u) \/ \E k \in SocketIds : OpenNotes(u, k)
        PROVE  BellsCount'
    <2>1. PICK bell, rows : Asked(u, bell) /\ ListNotes(u, bell, rows) BY <1>5, ListingAsks
    <2>2. NowShows(u, bell, rows) BY <2>1, ListingAnswers
    <2>3. notes' = notes BY <2>1 DEF ListNotes
    <2>4. ASSUME NEW v \in Users, v # u PROVE Paged(bells[v], v)'
      <3>1. Paged(bells[v], v) /\ bells'[v] = bells[v] BY <2>2, <2>4 DEF Rung, BellsCount, NowShows
      <3> QED BY ONLY <2>3, <3>1 DEF Paged
    <2>5. bells'[u].next = 0 => Paged(bells[u], u)' BY DEF Paged
    <2>6. ASSUME Cardinality(rows) = NotesPage, bells'[u].next # 0 PROVE Paged(bells[u], u)'
      <3>1. PICK oldest \in rows : /\ \A x \in rows : oldest[3] <= x[3]
                                   /\ bells'[u].down = oldest[3]
        BY <2>2, <2>6 DEF NowShows
      <3>2. bells'[u].next = bell.next + 1 /\ bell.next \in Nat \ {0}
        BY <2>1, <2>2, <2>6 DEF NowShows, Asked
      <3>3. IsNotesPage(rows, NotesOf(u), bell.next) BY <2>1 DEF ListNotes
      <3>4. NotesOf(u) \in SUBSET notes BY DEF NotesOf
      <3>5. IsFiniteSet(NotesOf(u)) /\ \A x \in NotesOf(u) : x[3] \in Nat
        BY <1>1, <3>4, FS_Subset, NotesAreTyped
      <3>6. Cardinality({x \in NotesOf(u) : x[3] >= oldest[3]}) >= bell.next * NotesPage
        BY <2>6, <3>1, <3>2, <3>3, <3>5, PagesAddUp
      <3>7. {x \in NotesOf(u) : x[3] >= oldest[3]} = Since(notes, u, oldest[3])
        BY DEF Since, NotesOf
      <3>8. bells'[u].next - 1 = bell.next BY <3>2
      <3>9. Cardinality(Since(notes', u, bells'[u].down)) >= (bells'[u].next - 1) * NotesPage
        BY <2>3, <3>1, <3>6, <3>7, <3>8
      <3> QED BY <3>9 DEF Paged
    <2>7. Paged(bells[u], u)' BY <2>2, <2>5, <2>6 DEF NowShows
    <2> QED BY <1>1, <2>3, <2>4, <2>7 DEF BellsCount
  <1>6. CASE bells' = bells /\ notes' = notes BY <1>1, <1>3, <1>6
  <1>7. CASE UNCHANGED vars BY <1>6, <1>7 DEF vars, deliveryVars
  <1>8. CASE Next
    <2>1. Frames BY <1>8, StepsWrite
    <2> QED BY <1>4, <1>5, <1>6, <2>1 DEF Frames
  <1> QED BY <1>7, <1>8

LEMMA BellCompleteStep ==
  ASSUME TypeInv, Rung, [Next]_vars, NEW u \in Users, Hears(u)', NEW n \in notes', n[2] = u
  PROVE  Due(n, u)'
  <1>1. bells \in [Users -> Bells] BY DEF Rung, BellsFit
  <1>2. ASSUME bells'[u].socket = bells[u].socket
        PROVE  /\ Hears(u) /\ bells[u].socket \in Reached(u)
               /\ \A x \in notes : x[2] = u => Due(x, u)
    <2>1. /\ bells[u].socket \in SocketIds /\ sockets[bells[u].socket].user = u
          /\ bells[u].socket # None
      BY <1>1, <1>2 DEF Bells, Rung, BellsFit, Hears
    <2>2. sockets[bells[u].socket].up
      BY <1>2, <2>1, SocketKeeps, MessagingAssumption DEF Rung, Hears, Listens
    <2>3. bells[u].socket \in Reached(u)
      BY <2>1, <2>2 DEF Reached, ClientsOf, Rung, UpIsRegistered
    <2> QED BY <2>1, <2>2, <2>3 DEF Hears, Listens, Rung, BellIsComplete, Due, NotesOf
  <1>3. ASSUME bells' = bells, notes' = notes, notices \subseteq notices' PROVE Due(n, u)'
    BY <1>2, <1>3 DEF Due, Unlisted
  <1>4. ASSUME NEW x \in notices, Notify(x) PROVE Due(n, u)'
    <2>2. x[1] \in Nat /\ x[2] \in Users /\ x = <<x[1], x[2], x[3]>> BY NoteType
    <2>3. CASE x[3] = "insert"
      <3>1. PICK t : /\ notices' = (notices \ {x}) \cup {<<x[1], x[2], "push">>}
                     /\ notes' = notes \cup {<<x[1], x[2], t>>} /\ bells' = bells
        BY <1>4, <2>3 DEF Notify
      <3>2. CASE n = <<x[1], x[2], t>>
        <4>1. n[1] = x[1] /\ n[2] = x[2] BY <3>2
        <4> QED BY <3>1, <4>1 DEF Due
      <3>3. CASE n \in notes
        <4>1. Due(n, u) BY <1>2, <3>1, <3>3
        <4>2. <<n[1], n[2], "push">> # x BY <2>2, <2>3
        <4> QED BY <3>1, <4>1, <4>2 DEF Due, Unlisted
      <3> QED BY <3>1, <3>2, <3>3
    <2>4. CASE x[3] = "push"
      <3>1. /\ notices' = notices \ {x} /\ notes' = notes
            /\ bells' = BellWith(x[2], RowsOf(x), Reached(x[2]))
        BY <1>4, <2>4 DEF Notify
      <3>3. \/ bells' = bells /\ bells[x[2]].socket \notin Reached(x[2])
            \/ bells' = [bells EXCEPT ![x[2]] = [bells[x[2]] EXCEPT !.rows = @ \cup RowsOf(x)]]
        BY <1>1, <2>2, <3>1, BellWithIs
      <3>4. /\ bells'[u].socket = bells[u].socket /\ bells[u].rows \subseteq bells'[u].rows
            /\ bells'[u].down = bells[u].down /\ bells'[u].cuts = bells[u].cuts
        BY <1>1, <2>2, <3>3 DEF Bells
      <3>5. Due(n, u) /\ bells[u].socket \in Reached(u) BY <1>2, <3>1, <3>4
      <3>6. CASE n \in bells[u].rows \/ Unlisted(bells[u], n) BY <3>4, <3>6 DEF Due, Unlisted
      <3>7. CASE <<n[1], n[2], "push">> \in notices /\ <<n[1], n[2], "push">> # x
        BY <3>1, <3>7 DEF Due
      <3>8. CASE <<n[1], n[2], "push">> = x
        <4>1. n[1] = x[1] /\ n[2] = x[2] /\ x[2] = u BY <2>2, <3>8
        <4>2. n \in RowsOf(x) BY <3>1, <4>1 DEF RowsOf
        <4>3. bells' = [bells EXCEPT ![u] = [bells[u] EXCEPT !.rows = @ \cup RowsOf(x)]]
          BY <3>3, <3>5, <4>1
        <4>4. n \in bells'[u].rows BY <1>1, <4>2, <4>3 DEF Bells
        <4> QED BY <4>4 DEF Due
      <3> QED BY <3>5, <3>6, <3>7, <3>8 DEF Due
    <2> QED BY <1>4, <2>3, <2>4 DEF Notify
  <1>5. ASSUME NEW s \in Sessions, Push(s) PROVE Due(n, u)'
    BY <1>3, <1>5 DEF Push
  <1>6. ASSUME NEW v \in Users, MoreNotes(v) \/ \E k \in SocketIds : OpenNotes(v, k)
        PROVE  Due(n, u)'
    <2>1. PICK bell, rows : Asked(v, bell) /\ ListNotes(v, bell, rows) BY <1>6, ListingAsks
    <2>2. NowShows(v, bell, rows) BY <2>1, ListingAnswers
    <2>3. notices' = notices /\ notes' = notes BY <2>1 DEF ListNotes
    <2>4. CASE v # u
      <3>1. bells'[u] = bells[u] BY <2>2, <2>4 DEF NowShows
      <3> QED BY <1>2, <2>3, <3>1 DEF Due, Unlisted
    <2>5. CASE v = u
      <3>1. n \in NotesOf(u) BY <2>3 DEF NotesOf
      <3>2. NotesOf(u) \in SUBSET notes BY DEF NotesOf
      <3>3. IsFiniteSet(NotesOf(u)) /\ \A x \in NotesOf(u) : x[3] \in Nat
        BY <3>2, FS_Subset, NotesAreTyped DEF Rung, BellsCount
      <3>4. /\ IsNotesPage(rows, NotesOf(u), bell.next) /\ bell.next \in Nat \ {0}
            /\ bell.down \in Nat
        BY <2>1, <2>5 DEF ListNotes, Asked, Bells
      <3>5. Cardinality({x \in NotesOf(u) : x[3] >= bell.down}) >= (bell.next - 1) * NotesPage
        <4>1. bell.next > 0 /\ Paged(bell, u) BY <2>1, <2>5, <3>4 DEF Asked
        <4>2. {x \in NotesOf(u) : x[3] >= bell.down} = Since(notes, u, bell.down)
          BY DEF Since, NotesOf
        <4> QED BY <4>1, <4>2 DEF Paged
      <3>6. ASSUME n \notin rows, bell.next > 1 => n[3] < bell.down PROVE Due(n, u)'
        <4>1. /\ \A x \in rows : n[3] <= x[3]
              /\ ~(Cardinality(rows) < NotesPage)
          BY <3>1, <3>3, <3>4, <3>5, <3>6, PageLeavesNoGap
        <4>2. PICK oldest \in rows : bells'[u].down = oldest[3] /\ oldest[3] \in bells'[u].cuts
          BY <2>2, <2>5, <4>1 DEF NowShows
        <4>3. n[3] <= oldest[3] /\ n[3] \in Nat /\ oldest[3] \in Nat
          <5>1. oldest \in NotesOf(u) BY <2>1, <2>5, <4>2 DEF ListNotes, IsNotesPage
          <5> QED BY <3>1, <3>3, <4>1, <5>1
        <4>4. n[3] < oldest[3] \/ n[3] = oldest[3] BY <4>3
        <4> QED BY <4>2, <4>4 DEF Due, Unlisted
      <3>7. CASE n \in rows BY <2>2, <2>5, <3>7 DEF Due, NowShows
      <3>8. CASE bell.next = 1 BY <3>6, <3>7, <3>8
      <3>9. CASE bell = bells[u]
        <4>1. bells'[u].socket = bells[u].socket BY <2>2, <2>5, <3>9 DEF NowShows
        <4>2. Due(n, u) BY <1>2, <2>3, <4>1
        <4>3. CASE n \in bells[u].rows BY <2>2, <2>5, <3>9, <4>3 DEF Due, NowShows
        <4>4. CASE <<n[1], n[2], "push">> \in notices BY <2>3, <4>4 DEF Due
        <4>5. CASE n[3] \in bells[u].cuts
          BY <2>2, <2>5, <3>9, <4>5 DEF Due, NowShows, Unlisted
        <4>6. CASE n[3] < bells[u].down BY <3>6, <3>7, <3>9, <4>6
        <4> QED BY <4>2, <4>3, <4>4, <4>5, <4>6 DEF Due, Unlisted
      <3> QED BY <2>1, <2>5, <3>8, <3>9 DEF Asked
    <2> QED BY <2>4, <2>5
  <1>7. CASE Restart
    <2>1. bells' = bells /\ \A k \in SocketIds : ~sockets'[k].up
      BY <1>7 DEF Restart, TypeInv, MessagingTypeOK, SocketStates
    <2>2. bells[u].socket \in SocketIds BY <1>1, <2>1 DEF Bells, Hears
    <2> QED BY <2>1, <2>2 DEF Hears, Listens
  <1>8. CASE UNCHANGED vars BY <1>3, <1>8 DEF vars, deliveryVars
  <1>9. CASE Next
    <2>1. Frames BY <1>9, StepsWrite
    <2> QED BY <1>3, <1>4, <1>5, <1>6, <1>7, <2>1 DEF Frames
  <1> QED BY <1>8, <1>9

\* A client that stays connected after it has opened its notifications has every one down to the
\* end of the last page it has read, but for twins of a page's end, or the event is under way.
THEOREM BellsAreComplete == Spec => []BellIsComplete
  <1>1. ASSUME Init PROVE Rung
    <2>1. \A k \in SocketIds : ~sockets[k].up BY <1>1 DEF Init, NoSocket
    <2>2. NoBell \in Bells /\ NoBell.socket = None /\ NoBell.next = 1 BY DEF NoBell, Bells
    <2>3. bells = [u \in Users |-> NoBell] /\ notes = {} BY <1>1 DEF Init
    <2>4. BellsCount
      <3>1. \A u \in Users : Since(notes, u, bells[u].down) = {} BY <2>3 DEF Since
      <3>2. Cardinality({}) = 0 /\ IsFiniteSet({}) BY FS_EmptySet
      <3>3. (1 - 1) * NotesPage = 0 BY MessagingAssumption
      <3>4. \A u \in Users : bells[u].next = 1 BY <2>2, <2>3
      <3> QED BY <2>3, <3>1, <3>2, <3>3, <3>4 DEF BellsCount, Paged
    <2> QED BY <2>1, <2>2, <2>3, <2>4 DEF Rung, UpIsRegistered, BellsFit, BellIsComplete
  <1>2. ASSUME TypeInv, Rung, [Next]_vars PROVE Rung'
    <2>1. UpIsRegistered' /\ BellsFit' /\ BellsCount'
      BY <1>2, SocketKeeps, BellsStep, CountsStep DEF Rung
    <2>2. \A u \in Users, n \in notes' : Hears(u)' /\ n[2] = u => Due(n, u)'
      BY <1>2, BellCompleteStep
    <2>3. BellIsComplete' BY <2>2 DEF BellIsComplete, Hears, Due, NotesOf
    <2> QED BY <2>1, <2>3 DEF Rung
  <1>3. Rung => BellIsComplete BY DEF Rung
  <1> QED BY <1>1, <1>2, <1>3, AlwaysTyped, PTL DEF Spec

-----------------------------------------------------------------------------
(* Removed colleagues *)

\* The requests that are to make a room: as they were, not further than their check of the
\* members, or past it with members who all belong.
Drawn(s) == \/ req'[s] = req[s]
            \/ req'[s].op # "createRoom" \/ req'[s].at = "belongs"
            \/ /\ req[s].op = "createRoom" /\ req'[s].with = req[s].with
               /\ req[s].at # "belongs" \/ req[s].with \cap former = {}

LEMMA DrawnReply ==
  ASSUME TypeInv, NEW s \in Sessions, Reply(s)
  PROVE  \A r \in Sessions : Drawn(r)
  <1>1. req'[s] = NoCall /\ \A r \in Sessions \ {s} : req'[r] = req[r]
    BY DEF Reply, TypeInv, CallsKept
  <1> QED BY <1>1 DEF Drawn, NoCall

LEMMA DrawnGoTo ==
  ASSUME TypeInv, NEW s \in Sessions, NEW at, GoTo(s, at),
         req[s].op = "createRoom" => req[s].at # "belongs" \/ req[s].with \cap former = {}
  PROVE  \A r \in Sessions : Drawn(r)
  <1> DEFINE c == [req[s] EXCEPT !.at = at]
  <1>1. req[s] \in Calls BY DEF TypeInv, CallsKept
  <1>2. c.op = req[s].op /\ c.with = req[s].with BY <1>1 DEF Calls
  <1>3. req' = [req EXCEPT ![s] = c] BY DEF GoTo, TypeInv, CallsKept
  <1> HIDE DEF c
  <1>4. req'[s] = c /\ \A r \in Sessions \ {s} : req'[r] = req[r]
    BY <1>3 DEF TypeInv, CallsKept
  <1> QED BY <1>2, <1>4 DEF Drawn

LEMMA DrawnBegin ==
  ASSUME TypeInv, NEW s \in Sessions, NEW c, Begin(s, c), c.op # "createRoom" \/ c.at = "belongs"
  PROVE  \A r \in Sessions : Drawn(r)
  BY OneBegins DEF Drawn

LEMMA RoomRequests == ASSUME TypeInv, [Next]_vars PROVE \A r \in Sessions : Drawn(r)
  <1> DEFINE Goal == \A r \in Sessions : Drawn(r)
  <1>1. CASE UNCHANGED req BY <1>1 DEF Drawn
  <1>2. ASSUME NEW s \in Sessions, CreateRoom(s) PROVE Goal
    <2>1. CASE Belong(s) BY <2>1, DrawnReply, DrawnGoTo DEF Belong
    <2>2. CASE FindDm(s) BY <2>2, DrawnReply, DrawnGoTo DEF FindDm, Running
    <2>3. ASSUME NEW u \in Users, NEW v \in Users, BeginDm(s, u, v) PROVE Goal
      BY <2>3, DrawnBegin DEF BeginDm, NoCall
    <2>4. ASSUME NEW u \in Users, NEW M \in SUBSET Users, BeginGroup(s, u, M) PROVE Goal
      BY <2>4, DrawnBegin DEF BeginGroup, NoCall
    <2>5. ASSUME NEW r \in RoomIds, InsertRoom(s, r) PROVE Goal
      BY <2>5, DrawnReply DEF InsertRoom
    <2> QED BY <1>2, <2>1, <2>2, <2>3, <2>4, <2>5 DEF CreateRoom
  <1>3. ASSUME NEW s \in Sessions, SendMessage(s) PROVE Goal
    <2>1. CASE Push(s) BY <2>1, DrawnReply DEF Push
    <2>2. ASSUME NEW u \in Users, NEW r \in RoomIds, BeginSend(s, u, r) PROVE Goal
      BY <2>2, DrawnBegin DEF BeginSend, NoCall
    <2>3. ASSUME NEW t \in 0..LastTick, InsertMessage(s, t) PROVE Goal
      BY <2>3, InsertingRequest DEF Drawn
    <2> QED BY <1>3, <2>1, <2>2, <2>3 DEF SendMessage
  <1>4. ASSUME NEW s \in Sessions, GetMessages(s) PROVE Goal
    <2>1. ASSUME NEW u \in Users, NEW k \in SocketIds, NEW r \in RoomIds, BeginPage(s, u, k, r)
          PROVE  Goal
      <3> DEFINE c == [NoCall EXCEPT !.op = "page", !.at = "read", !.user = u, !.room = r]
      <3>1. Begin(s, c) /\ c.op = "page" BY <2>1 DEF BeginPage, NoCall
      <3> HIDE DEF c
      <3> QED BY <3>1, DrawnBegin
    <2>2. ASSUME NEW rows \in SUBSET (DOMAIN messages), ReadPage(s, rows) PROVE Goal
      BY <2>2, DrawnReply DEF ReadPage
    <2> QED BY <1>4, <2>1, <2>2 DEF GetMessages
  <1>5. ASSUME NEW s \in Sessions, MarkRead(s) PROVE Goal
    <2>1. ASSUME NEW u \in Users, NEW r \in RoomIds, BeginMark(s, u, r) PROVE Goal
      BY <2>1, DrawnBegin DEF BeginMark, NoCall
    <2>2. ASSUME NEW t \in 0..LastTick, Mark(s, t) PROVE Goal BY <2>2, DrawnReply DEF Mark
    <2> QED BY <1>5, <2>1, <2>2 DEF MarkRead
  <1>6. ASSUME NEW s \in Sessions, Voice(s) PROVE Goal
    <2>1. CASE ReadExisting(s) \/ Reread(s)
      <3>1. req[s].op # "createRoom" BY <2>1 DEF ReadExisting, Reread, TypeInv, CallsKept, Keeps
      <3>2. Reply(s) \/ GoTo(s, "rotate") \/ GoTo(s, "insert")
        BY <2>1 DEF ReadExisting, Reread, Ensured
      <3> QED BY <3>1, <3>2, DrawnReply, DrawnGoTo
    <2>2. CASE InsertKey(s)
      <3>1. req[s].op # "createRoom" /\ GoTo(s, "reread") BY <2>2 DEF InsertKey
      <3> QED BY <3>1, DrawnGoTo
    <2>3. CASE Rotate(s) BY <2>3, DrawnReply DEF Rotate
    <2>4. ASSUME NEW op \in {"profile", "rotate"}, NEW g \in Groups, BeginEnsure(s, op, g)
          PROVE  Goal
      BY <2>4, DrawnBegin DEF BeginEnsure, NoCall
    <2> QED BY <1>6, <2>1, <2>2, <2>3, <2>4 DEF Voice
  <1>7. CASE Restart BY <1>7 DEF Restart, Drawn, NoCall
  <1>8. ASSUME NEW k \in SocketIds, Socket(k) PROVE UNCHANGED req
    BY <1>8 DEF Socket, LinkDrops, HandleDisconnect, Connect
  <1>9. ASSUME NEW u \in Users, Client(u) PROVE UNCHANGED req
    BY <1>9 DEF Client, CloseView, RemoveColleague, MoreNotes, OpenNotes, ListNotes
  <1>10. ASSUME NEW n \in notices, Notify(n) PROVE UNCHANGED req BY <1>10 DEF Notify
  <1>11. ASSUME NEW g \in Groups, CreateGroup(g) \/ DeleteGroup(g) PROVE UNCHANGED req
    BY <1>11 DEF CreateGroup, DeleteGroup
  <1>12. CASE Tick \/ UNCHANGED vars BY <1>1, <1>12 DEF Tick, vars
  <1> QED BY <1>1, <1>2, <1>3, <1>4, <1>5, <1>6, <1>7, <1>8, <1>9, <1>10, <1>11, <1>12
          DEF Next, Serve

LEMMA LeftStep ==
  ASSUME TypeInv, [Next]_vars, NEW u \in Users, Left(u)
  PROVE  /\ Left(u)'
         /\ \A r \in RoomIds : rooms[r] = NoRoom /\ u \in rooms'[r].members => rooms'[r].by = u
  <1>1. former \subseteq former'
    <2>1. CASE Next BY <2>1, StepsWrite DEF Frames, RemoveColleague
    <2>2. CASE UNCHANGED vars BY <2>2 DEF vars, chatVars
    <2> QED BY <2>1, <2>2
  <1>2. Left(u)'
    <2>1. ASSUME NEW s \in Sessions, req'[s].op = "createRoom", req'[s].at # "belongs"
          PROVE  u \notin req'[s].with
      BY <2>1, RoomRequests DEF Drawn, Left
    <2> QED BY <1>1, <2>1 DEF Left
  <1>3. ASSUME NEW r \in RoomIds, rooms[r] = NoRoom, u \in rooms'[r].members
        PROVE  rooms'[r].by = u
    <2>1. rooms' # rooms BY <1>3 DEF NoRoom
    <2>2. Next BY <2>1 DEF vars, chatVars
    <2>3. PICK s \in Sessions, q \in RoomIds : InsertRoom(s, q)
      BY <2>1, <2>2, StepsWrite DEF Frames
    <2>4. rooms' = [rooms EXCEPT ![q] = [type |-> req[s].type, by |-> req[s].user,
                                         members |-> Members(s)]]
      BY <2>3 DEF InsertRoom
    <2>5. rooms \in [RoomIds -> Rooms \cup {NoRoom}] BY DEF TypeInv, MessagingTypeOK
    <2>6. q = r BY <1>3, <2>4, <2>5 DEF NoRoom
    <2>7. rooms'[r].by = req[s].user /\ rooms'[r].members = Members(s) BY <2>4, <2>5, <2>6
    <2>8. u \notin req[s].with BY <2>3 DEF InsertRoom, Running, Left
    <2> QED BY <1>3, <2>7, <2>8 DEF Members
  <1> QED BY <1>2, <1>3

\* Once the requests that took a removed colleague for one have ended, nobody else makes a room
\* with the colleague.
THEOREM FormerAreLeftAlone == Spec => FormerLeftAlone
  <1>1. ASSUME TypeInv, [Next]_vars
        PROVE  \A u \in Users : Left(u) =>
                 /\ Left(u)'
                 /\ \A r \in RoomIds : rooms[r] = NoRoom /\ u \in rooms'[r].members
                                       => rooms'[r].by = u
    BY <1>1, LeftStep
  <1> QED BY <1>1, AlwaysTyped, PTL DEF Spec, FormerLeftAlone

-----------------------------------------------------------------------------
(* Unread counts *)

LEMMA CountsStay ==
  ASSUME TypeInv, Next, NEW m \in Messages, NEW u,
         lastRead'[messages[m].room] = lastRead[messages[m].room]
         \/ lastRead'[messages[m].room][u] = lastRead[messages[m].room][u]
  PROVE  Counts(m, u)' <=> Counts(m, u)
  <1>1. Frames BY StepsWrite
  <1>2. /\ messages'[m].room = messages[m].room /\ messages'[m].sender = messages[m].sender
        /\ messages'[m].at = messages[m].at
    BY <1>1, MessagesStep DEF Grows
  <1>3. rooms'[messages[m].room] = rooms[messages[m].room] BY <1>1, MessageType, RoomsStep
  <1> QED BY <1>2, <1>3 DEF Counts, Recipients

LEMMA UnreadStep ==
  ASSUME TypeInv, Next, NEW m \in Messages', NEW u \in Recipients(m)', NEW r, r = messages'[m].room
  PROVE  /\ m \notin Messages /\ ~Counts(m, u)' =>
              \E s \in Sessions : Running(s, "send", "insert") /\ lastRead[r][u] \in Nat
                                  /\ req[s].since <= lastRead[r][u]
         /\ m \in Messages /\ Counts(m, u) /\ ~Counts(m, u)' => \E s \in Sessions : Marks(s, u, r)
         /\ m \in Messages /\ ~Counts(m, u) /\ Counts(m, u)' =>
              \E s \in Sessions : Marks(s, u, r) /\ req[s].since < lastRead[r][u]
  <1>1. Frames BY StepsWrite
  <1>2. lastRead \in [RoomIds -> [Users -> 0..LastTick \cup {None}]]
    BY DEF TypeInv, MessagingTypeOK
  <1>3. ASSUME m \notin Messages, ~Counts(m, u)'
        PROVE  \E s \in Sessions : Running(s, "send", "insert") /\ lastRead[r][u] \in Nat
                                   /\ req[s].since <= lastRead[r][u]
    <2>1. PICK s \in Sessions, t \in 0..LastTick : InsertMessage(s, t)
      <3>1. ASSUME NEW s \in Sessions, Push(s) PROVE FALSE BY <1>3, <3>1, PushedMessage
      <3>2. messages' # messages BY <1>3 DEF Messages
      <3> QED BY <1>1, <3>1, <3>2 DEF Frames
    <2>2. m = Len(messages) + 1 /\ messages'[m] = Message(s, t, FALSE)
      BY <1>3, <2>1, InsertedMessage
    <2>3. r = req[s].room /\ messages'[m].at = t BY <2>2 DEF Message
    <2>4. r \in RoomIds /\ t \in Nat /\ lastRead' = lastRead /\ req[s].since <= t
          /\ req[s].since \in Nat
      <3>1. /\ Running(s, "send", "insert") /\ t \in req[s].since .. clock
            /\ lastRead' = lastRead
        BY <2>1 DEF InsertMessage
      <3>2. req[s] \in Calls /\ Keeps(req[s], rooms, Len(messages)) BY DEF TypeInv, CallsKept
      <3>3. req[s].since \in Nat BY <3>2, MessagingAssumption DEF Calls
      <3>4. r \in RoomIds BY <2>3, <3>1, <3>2 DEF Keeps, Running
      <3>5. clock \in Nat BY MessagingAssumption DEF TypeInv, MessagingTypeOK
      <3>6. t \in Nat /\ req[s].since <= t BY <3>1, <3>3, <3>5
      <3> QED BY <3>1, <3>3, <3>4, <3>6
    <2>5. u \in Users
      <3>1. /\ r \in RoomIds /\ rooms' = rooms /\ u \in rooms'[r].members
        BY <2>1, <2>4 DEF Recipients, InsertMessage
      <3> QED BY <3>1, MembersMeanUse
    <2>6. lastRead[r][u] # None /\ ~(t > lastRead[r][u]) BY <1>3, <2>3, <2>4 DEF Counts
    <2>7. lastRead[r][u] \in Nat BY <1>2, <2>4, <2>5, <2>6, MessagingAssumption
    <2>8. req[s].since <= lastRead[r][u] BY <2>4, <2>6, <2>7
    <2> QED BY <2>1, <2>7, <2>8 DEF InsertMessage
  <1>4. ASSUME m \in Messages, Counts(m, u) # Counts(m, u)'
        PROVE  \E s \in Sessions : /\ Marks(s, u, r)
                                   /\ ~Counts(m, u) => req[s].since < lastRead[r][u]
    <2>1. /\ r = messages[m].room /\ messages'[m].at = messages[m].at
          /\ messages'[m].sender = messages[m].sender
      BY <1>1, <1>4, MessagesStep DEF Grows
    <2>2. r \in InUse /\ r \in RoomIds /\ rooms'[r] = rooms[r]
      BY <1>1, <1>4, <2>1, MessageType, RoomsStep DEF InUse
    <2>3. u \in Recipients(m) BY <2>1, <2>2 DEF Recipients
    <2>4. u \in Users BY <2>1, <2>2, <2>3, MembersMeanUse DEF Recipients
    <2>5. lastRead'[r][u] # lastRead[r][u]
      <3>1. Counts(m, u) \in BOOLEAN /\ Counts(m, u)' \in BOOLEAN BY DEF Counts
      <3> QED BY <1>4, <2>1, <3>1, CountsStay
    <2>6. PICK s \in Sessions, t \in 0..LastTick : Mark(s, t) BY <1>1, <2>5 DEF Frames
    <2>7. /\ Running(s, "mark", "mark") /\ t \in req[s].since .. clock
          /\ lastRead' = [lastRead EXCEPT ![req[s].room][req[s].user] = t]
      BY <2>6 DEF Mark
    <2>8. req[s].room = r /\ req[s].user = u BY <1>2, <2>2, <2>4, <2>5, <2>7
    <2>9. Marks(s, u, r) BY <2>7, <2>8 DEF Marks
    <2>10. ASSUME ~Counts(m, u) PROVE req[s].since < lastRead[r][u]
      <3>1. lastRead[r][u] # None /\ ~(messages[m].at > lastRead[r][u])
        BY <2>1, <2>3, <2>10 DEF Counts
      <3>2. lastRead[r][u] \in Nat /\ messages[m].at \in Nat /\ t \in Nat /\ req[s].since \in Nat
        BY <1>2, <1>4, <2>2, <2>4, <3>1, MessageType, MessagingAssumption
           DEF TypeInv, CallsKept, Calls
      <3>3. lastRead'[r][u] = t BY <1>2, <2>2, <2>4, <2>7, <2>8
      <3>4. Counts(m, u)' BY <1>4, <2>10 DEF Counts
      <3>5. t > 0 - 1 /\ messages[m].at > t
        BY <2>1, <3>2, <3>3, <3>4, MessagingAssumption DEF Counts
      <3>6. req[s].since <= t BY <2>7, <3>2
      <3> QED BY <3>1, <3>2, <3>5, <3>6
    <2> QED BY <2>9, <2>10
  <1> QED BY <1>3, <1>4

\* A message is born unread and stops or starts to count only by the member's own marks, but for
\* marks not older than its insert and marks that overlap.
THEOREM UnreadIsExplained == Spec => UnreadExplained
  <1>1. ASSUME TypeInv, Next
        PROVE  \A m \in 1..Len(messages') : \A u \in Recipients(m)' :
          LET r == messages'[m].room IN
            /\ m \notin Messages /\ ~Counts(m, u)' =>
                 \E s \in Sessions : Running(s, "send", "insert") /\ lastRead[r][u] \in Nat
                                     /\ req[s].since <= lastRead[r][u]
            /\ m \in Messages /\ Counts(m, u) /\ ~Counts(m, u)' =>
                 \E s \in Sessions : Marks(s, u, r)
            /\ m \in Messages /\ ~Counts(m, u) /\ Counts(m, u)' =>
                 \E s \in Sessions : Marks(s, u, r) /\ req[s].since < lastRead[r][u]
    BY <1>1, UnreadStep DEF Messages
  <1> QED BY <1>1, AlwaysTyped, PTL DEF Spec, UnreadExplained

=============================================================================
