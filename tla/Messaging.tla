----------------------------- MODULE Messaging ------------------------------
(***************************************************************************)
(* What the server sends on its own: chat messages, notifications and the  *)
(* sockets they go through, and the voice keys of groups, all served by    *)
(* one process that may stop at any time.                                  *)
(***************************************************************************)
EXTENDS Chat, VoiceKeys

Init ==
  /\ clock = 0 /\ former = {}
  /\ rooms = [r \in RoomIds |-> NoRoom]
  /\ lastRead = [r \in RoomIds |-> [u \in Users |-> None]]
  /\ messages = <<>>
  /\ sockets = [k \in SocketIds |-> NoSocket]
  /\ views = [u \in Users |-> NoView]
  /\ notices = {} /\ notes = {}
  /\ bells = [u \in Users |-> NoBell]
  \* groups older than the table of keys have none
  /\ live \in SUBSET Groups
  /\ voice = [g \in Groups |-> NoKey]
  /\ minted = 0 /\ handed = {}
  /\ req = [s \in Sessions |-> NoCall]

\* The process stops: it is restarted, or a notify that nobody awaits was rejected, which ends
\* it.  Requests and notices are lost, sockets close.
Restart ==
  /\ req' = [s \in Sessions |-> NoCall]
  /\ notices' = {}
  /\ sockets' = [k \in SocketIds |-> [sockets[k] EXCEPT !.up = FALSE, !.registered = FALSE]]
  /\ UNCHANGED <<chatVars, views, notes, bells, voiceVars>>

Serve(s) == CreateRoom(s) \/ SendMessage(s) \/ GetMessages(s) \/ MarkRead(s) \/ Voice(s)

Socket(k) == LinkDrops(k) \/ HandleDisconnect(k) \/ \E u \in Users : Connect(k, u)

Client(u) == \/ CloseView(u) \/ RemoveColleague(u) \/ MoreNotes(u)
             \/ \E k \in SocketIds : OpenNotes(u, k)

Next == \/ \E s \in Sessions : Serve(s)
        \/ \E k \in SocketIds : Socket(k)
        \/ \E u \in Users : Client(u)
        \/ \E n \in notices : Notify(n)
        \/ \E g \in Groups : CreateGroup(g) \/ DeleteGroup(g)
        \/ Tick \/ Restart

Spec == Init /\ [][Next]_vars

-----------------------------------------------------------------------------
(* Types *)

Messages == 1..Len(messages)
MessageRows == [room : RoomIds, sender : Users, at : 0..LastTick, after : SUBSET (1..MaxMessages),
                answered : BOOLEAN]
Rooms == [type : {"dm", "group"}, by : Users, members : SUBSET Users]
SocketStates == [user : Users \cup {None}, up : BOOLEAN, registered : BOOLEAN,
                 got : Seq(1..MaxMessages)]
Views == [room : RoomIds \cup {None}, socket : SocketIds \cup {None}, got : SUBSET (1..MaxMessages),
          before : Nat \cup {None}, cuts : SUBSET Nat]

\* Rows and the registry have the shape of their columns, and a request, an event and a
\* notification name messages that are stored, of rooms in use: migration 052.
MessagingTypeOK ==
  /\ clock \in 0..LastTick /\ former \subseteq Users /\ minted \in 0..MaxKeys
  /\ rooms \in [RoomIds -> Rooms \cup {NoRoom}]
  /\ lastRead \in [RoomIds -> [Users -> 0..LastTick \cup {None}]]
  /\ messages \in Seq(MessageRows) /\ Len(messages) <= MaxMessages
  /\ \A m \in Messages : messages[m].room \in InUse
                         /\ messages[m].sender \in rooms[messages[m].room].members
  /\ sockets \in [SocketIds -> SocketStates]
  /\ \A k \in SocketIds : \A i \in DOMAIN sockets[k].got : sockets[k].got[i] \in Messages
  /\ views \in [Users -> Views]
  /\ notices \subseteq Messages \X Users \X {"insert", "push"}
  /\ notes \subseteq Messages \X Users \X (0..LastTick)
  /\ voice \in [Groups -> [key : 0..MaxKeys, version : 0..MaxKeys]]
  /\ \A s \in Sessions : req[s].at = "push" => req[s].message \in Messages

-----------------------------------------------------------------------------
(* Safety *)

\* Two first messages may each make a dm room for one pair, but no more rooms than requests
\* served at once: ChatDao.findOrCreateDmRoom ("or creates one") has no unique key.
DmRoomsBounded == \A u, v \in Users :
  u # v => Cardinality(DmRooms({u, v})) <= Cardinality(Sessions)

\* A socket never gets a message before one whose sender had been answered when it was sent,
\* whatever order the two are stored and stamped in: ChatService.sendMessage.
PushOrder == \A k \in SocketIds : \A i, j \in DOMAIN sockets[k].got :
  i < j => sockets[k].got[j] \notin messages[sockets[k].got[i]].after

Pushing(m) == \E s \in Sessions : Running(s, "send", "push") /\ req[s].message = m

\* m is older than what the view has paged to, or stamped in the same millisecond as the end
\* of one of its pages.
Unpaged(view, m) == \/ view.before = None
                    \/ messages[m].at < view.before * Grain
                    \/ Millisecond(messages[m].at) \in view.cuts

\* While its socket is up a client that has opened a room has every message others sent, down to
\* where it has paged, or the message is about to be pushed to it; paging by a created_at cut
\* to milliseconds loses only twins of a page's end.  getMessages, sendMessage, registerClient.
ViewIsComplete == \A u \in Users :
  views[u].room # None /\ Listens(u, views[u].socket) =>
    \A m \in Of(views[u].room) : \/ m \in views[u].got \/ Pushing(m)
                                 \/ messages[m].sender = u \/ Unpaged(views[u], m)

\* n is older than what the list of the bell has been read down to, or of the same instant as
\* the end of one of its pages.
Unlisted(bell, n) == n[3] < bell.down \/ n[3] \in bell.cuts

\* While its socket is up a client that has opened its notifications has every row down to where
\* it has paged, however many were stored between the pages, or the event is about to follow;
\* paging by offset loses only twins of a page's end: "Persist + push in one call"
\* (NotificationsService.notify, list).
BellIsComplete == \A u \in Users :
  bells[u].socket # None /\ Listens(u, bells[u].socket) =>
    \A n \in NotesOf(u) : \/ n \in bells[u].rows \/ <<n[1], n[2], "push">> \in notices
                          \/ Unlisted(bells[u], n)

\* A voice key is "never regenerated on read": a group's version has one key and a key one
\* version, whoever reads, creates or rotates it meanwhile (GroupVoiceKeysDao).
VoiceKeysAgree == \A x, y \in handed : x[1] = y[1] => (x[2] = y[2] <=> x[3] = y[3])

-----------------------------------------------------------------------------
(* Steps *)

\* The user's removal is seen by every request that is to make a room with it.
Left(u) == /\ u \in former
           /\ \A s \in Sessions : req[s].op = "createRoom" /\ req[s].at # "belongs"
                                  => u \notin req[s].with

\* Once the requests that took a removed colleague for one have ended, nobody else draws it
\* into a new room: ChatService.createRoom, userBelongsToAgency.
FormerLeftAlone == [][\A u \in Users : Left(u) =>
  /\ Left(u)'
  /\ \A r \in RoomIds : rooms[r] = NoRoom /\ u \in rooms'[r].members => rooms'[r].by = u]_vars

Marks(s, u, r) == Running(s, "mark", "mark") /\ req[s].user = u /\ req[s].room = r

\* A stored message counts as unread for each other member until the member marks the room; it
\* is born read only for one whose mark is not older than its insert, and counts again only when
\* marks of the member overlap: sendMessage, getUnreadCounts, markRead.
UnreadExplained == [][\A m \in 1..Len(messages') : \A u \in Recipients(m)' :
  LET r == messages'[m].room IN
    /\ m \notin Messages /\ ~Counts(m, u)' =>
         \E s \in Sessions : Running(s, "send", "insert") /\ lastRead[r][u] \in Nat
                             /\ req[s].since <= lastRead[r][u]
    /\ m \in Messages /\ Counts(m, u) /\ ~Counts(m, u)' =>
         \E s \in Sessions : Marks(s, u, r)
    /\ m \in Messages /\ ~Counts(m, u) /\ Counts(m, u)' =>
         \E s \in Sessions : Marks(s, u, r) /\ req[s].since < lastRead[r][u]]_vars

=============================================================================
