----------------------------- MODULE ChatTables -----------------------------
(***************************************************************************)
(* The tables of an agency's chat, its notifications and its groups' voice *)
(* keys, the sockets of its staff and the HTTP requests in flight.  A step *)
(* is one SQL statement with what the handler does of its result before it *)
(* awaits again, at READ COMMITTED.                                        *)
(***************************************************************************)
EXTENDS Naturals, Sequences, FiniteSets

CONSTANTS
  Users,            \* the staff of one agency: users.id
  RoomIds, SocketIds, Groups,
  Sessions,         \* requests served at a time
  Grain,            \* clock ticks (microseconds) in what a JavaScript Date tells apart
  PageSize,         \* limit of a page of messages
  NotesPage,        \* limit of a page of notifications
  MaxMessages, LastTick, MaxKeys,   \* bounds: rows, the clock, voice keys made
  None              \* SQL null

ASSUME MessagingAssumption ==
  /\ Grain \in Nat \ {0} /\ PageSize \in Nat \ {0} /\ NotesPage \in Nat \ {0}
  /\ MaxMessages \in Nat /\ LastTick \in Nat /\ MaxKeys \in Nat
  /\ IsFiniteSet(Sessions)
  /\ None \notin Users \cup RoomIds \cup SocketIds \cup Groups \cup Nat \cup {"dm", "group"}

VARIABLES
  clock,       \* the database's now()
  former,      \* users whose agency_users row is soft-deleted
  rooms,       \* chat_rooms with their chat_room_members
  lastRead,    \* chat_room_members.last_read_at
  messages,    \* chat_messages in the order of their commits
  sockets,     \* connectedClients, the other end of each, and the messages it got
  views,       \* the room each user's client has open
  notices,     \* calls of notify in flight: nobody awaits them
  notes,       \* notifications, by message, user and created_at
  bells,       \* the notifications each user's client shows
  live,        \* groups that are not deleted
  voice,       \* group_voice_keys
  minted,      \* voice keys made so far
  handed,      \* what ensure() answered: group, version and key
  req          \* the requests in flight

chatVars == <<clock, former, rooms, lastRead, messages>>
deliveryVars == <<sockets, views, notices, notes, bells>>
voiceVars == <<live, voice, minted, handed>>
vars == <<chatVars, deliveryVars, voiceVars, req>>

-----------------------------------------------------------------------------
(* Requests *)

\* since is the clock when the running statement may have begun; after, the messages whose
\* request had been answered when this one began.
NoCall == [op |-> "idle", at |-> "idle", user |-> None, type |-> None, with |-> {},
           room |-> None, since |-> 0, message |-> 0, after |-> {}, group |-> None]

Running(s, op, at) == req[s].op = op /\ req[s].at = at
Begin(s, call) == /\ req[s] = NoCall
                  /\ req' = [req EXCEPT ![s] = call]
GoTo(s, at) == req' = [req EXCEPT ![s].at = at]
Reply(s) == req' = [req EXCEPT ![s] = NoCall]

-----------------------------------------------------------------------------
(* Rows *)

NoRoom == [type |-> None, by |-> None, members |-> {}]
InUse == {r \in RoomIds : rooms[r].type # None}
IsMember(u, r) == u \in rooms[r].members

Of(r) == {m \in DOMAIN messages : messages[m].room = r}
Answered == {m \in DOMAIN messages : messages[m].answered}
Recipients(m) == rooms[messages[m].room].members \ {messages[m].sender}

\* What getUnreadCounts counts for u.
Counts(m, u) == /\ u \in Recipients(m)
                /\ \/ lastRead[messages[m].room][u] = None
                   \/ messages[m].at > lastRead[messages[m].room][u]

Millisecond(t) == t \div Grain

Tick == /\ clock < LastTick
        /\ clock' = clock + 1
        /\ UNCHANGED <<former, rooms, lastRead, messages, deliveryVars, voiceVars, req>>

=============================================================================
