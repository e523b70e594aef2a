---------------------------- MODULE MCMessaging -----------------------------
(***************************************************************************)
(* A small instance of Messaging.                                          *)
(***************************************************************************)
EXTENDS Messaging, TLC

CONSTANTS u1, u2, u3, r1, r2, r3, k1, k2

Symmetric == Permutations(Sessions)

Calling(ops) == \A s \in Sessions : req[s].op \in ops \cup {"idle"}

Alone == \E s \in Sessions : \A t \in Sessions \ {s} : req[t] = NoCall

\* The bound: a behaviour makes rooms and removes colleagues, or watches one room, or follows
\* one user's notifications, or reads and rotates voice keys.
NoSockets == \A k \in SocketIds : sockets[k] = NoSocket
NoVoice == live = {} /\ minted = 0
OneRoom(r) == /\ \A q \in RoomIds \ {r} : rooms[q] = NoRoom
              /\ former = {} /\ NoVoice
              /\ rooms[r] \in {NoRoom, [type |-> "dm", by |-> u1, members |-> {u1, u2}]}
              /\ (rooms[r] # NoRoom => Calling({"send", "page", "mark"}))
              /\ \A s \in Sessions : /\ req[s].with \subseteq {u2}
                                     /\ req[s].op = "createRoom" => req[s].user = u1 /\ req[s].type = "dm"
                                     /\ req[s].op = "send" => req[s].user = u1
Unmarked == \A r \in RoomIds, u \in Users : lastRead[r][u] = None
Listening == /\ sockets[k2] # NoSocket => sockets[k1] # NoSocket
             /\ \A k \in SocketIds : sockets[k].user \in {None, u2}

Grouping == /\ clock = 0 /\ messages = <<>> /\ Unmarked /\ Calling({"createRoom"}) /\ NoSockets /\ NoVoice
            /\ rooms[r2] # NoRoom => rooms[r1] # NoRoom
            /\ rooms[r3] # NoRoom => rooms[r2] # NoRoom
            /\ former \subseteq {u2}
            /\ \A s \in Sessions : /\ req[s].type = "dm" => Members(s) = {u1, u2}
                                   /\ req[s].type = "group" => req[s].with = {u2, u3}
Watching == /\ Len(messages) <= 2 /\ OneRoom(r1) /\ Listening /\ Unmarked /\ Calling({"createRoom", "send", "page"})
            /\ sockets[k2] # NoSocket => clock = 0 /\ sockets[k1].got = <<>>
            /\ \A n \in notices : n[3] = "insert"
            /\ notes = {} /\ \A u \in Users : bells[u] = NoBell
Leafing ==  /\ Alone /\ sockets[k2] = NoSocket
            /\ \A s \in Sessions : req[s].op = "send" => req[s].since = clock
            /\ rooms[r2] # NoRoom => sockets[k1].up
            /\ Cardinality(notices) <= IF clock <= 1 /\ Len(messages) <= 2 THEN 2 ELSE 1
Ringing ==  /\ OneRoom(r2) /\ Listening /\ Unmarked /\ Calling({"createRoom", "send"})
            /\ \A u \in Users : views[u] = NoView
            /\ \/ Len(messages) <= 1 /\ clock = 0
               \/ Leafing
Marking ==  /\ OneRoom(r1) /\ NoSockets /\ Calling({"createRoom", "send", "mark"})
            /\ Len(messages) <= 1 /\ notes = {}
Speaking == /\ clock = 0 /\ former = {} /\ Calling({"profile", "rotate"})
            /\ NoSockets /\ \A r \in RoomIds : rooms[r] = NoRoom
OneFifth == Grouping \/ Watching \/ Ringing \/ Marking \/ Speaking

=============================================================================
