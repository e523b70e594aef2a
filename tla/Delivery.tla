------------------------------ MODULE Delivery ------------------------------
(***************************************************************************)
(* How events reach the staff: the registry of sockets                     *)
(* (websocket.service.ts, websocket.gateway.ts), the notifications         *)
(* (notifications.service.ts), and, of the clients, only what they have    *)
(* been given.  A socket id is used for one connection.                    *)
(***************************************************************************)
EXTENDS ChatTables

NoSocket == [user |-> None, up |-> FALSE, registered |-> FALSE, got |-> <<>>]

\* The sockets an event to u is emitted to, and those of them it reaches.
ClientsOf(u) == {k \in SocketIds : sockets[k].registered /\ sockets[k].user = u}
Reached(u) == {k \in ClientsOf(u) : sockets[k].up}

\* handleConnection runs without an await.
Connect(k, u) ==
  /\ sockets[k] = NoSocket
  /\ sockets' = [sockets EXCEPT ![k] = [user |-> u, up |-> TRUE, registered |-> TRUE, got |-> <<>>]]
  /\ UNCHANGED <<chatVars, views, notices, notes, bells, voiceVars, req>>

\* The link goes down; the server learns of it later.
LinkDrops(k) ==
  /\ sockets[k].up
  /\ sockets' = [sockets EXCEPT ![k].up = FALSE]
  /\ UNCHANGED <<chatVars, views, notices, notes, bells, voiceVars, req>>

\* Forgets every socket of the user.  \* mutant
UnregisterUser(k) == [j \in SocketIds |-> IF sockets[j].user = sockets[k].user
                                          THEN [sockets[j] EXCEPT !.registered = FALSE]
                                          ELSE sockets[j]]

UnregisterClient(k) == [sockets EXCEPT ![k].registered = FALSE]

HandleDisconnect(k) ==
  /\ sockets[k].registered /\ ~sockets[k].up
  /\ sockets' = UnregisterClient(k)
  /\ UNCHANGED <<chatVars, views, notices, notes, bells, voiceVars, req>>

\* A message to the clients of its recipients.
MessageNew(m) == [k \in SocketIds |-> IF \E u \in Recipients(m) : k \in Reached(u)
                                      THEN [sockets[k] EXCEPT !.got = Append(@, m)]
                                      ELSE sockets[k]]

-----------------------------------------------------------------------------
(* Clients.  A view is a room a client has open: the socket it listens on,  *)
(* what it has got over it or by pages, the created_at its next page ends   *)
(* before (None: the newest page) and every one its pages ended before.     *)
(* A bell is the list of notifications: what it has got by pages or events, *)
(* the page to ask for next (0: there is none), the created_at its last     *)
(* page ended at (0: the list's end) and every one its pages ended at.      *)

NoView == [room |-> None, socket |-> None, got |-> {}, before |-> None, cuts |-> {}]
NoBell == [socket |-> None, rows |-> {}, next |-> 1, down |-> 0, cuts |-> {}]

Listens(u, k) == sockets[k].user = u /\ sockets[k].up

\* The views and the bells after an event on the sockets K.
ViewsWith(m, K) == [u \in Users |-> IF views[u].room = messages[m].room /\ views[u].socket \in K
                                    THEN [views[u] EXCEPT !.got = @ \cup {m}] ELSE views[u]]
BellWith(u, rows, K) ==
  [bells EXCEPT ![u].rows = IF bells[u].socket \in K THEN @ \cup rows ELSE @]

CloseView(u) ==
  /\ views[u] # NoView
  /\ \A s \in Sessions : ~(req[s].op = "page" /\ req[s].user = u)
  /\ views' = [views EXCEPT ![u] = NoView]
  /\ UNCHANGED <<chatVars, sockets, notices, notes, bells, voiceVars, req>>

-----------------------------------------------------------------------------
(* Notifications.  A notice is a call of notify for a message and a user; a *)
(* row is a message, a user and the created_at: the instant its INSERT      *)
(* began, which is after the message's.                                     *)

RowsOf(n) == {x \in notes : x[1] = n[1] /\ x[2] = n[2]}

\* Broadcasts, then stores.  \* mutant
NotifyEarly(n) ==
  /\ n \in notices
  /\ LET row == <<n[1], n[2], messages[n[1]].at>>
     IN \/ /\ n[3] = "insert"
           /\ notices' = (notices \ {n}) \cup {<<n[1], n[2], "push">>}
           /\ bells' = BellWith(n[2], {row}, Reached(n[2])) /\ notes' = notes
        \/ /\ n[3] = "push"
           /\ notices' = notices \ {n}
           /\ notes' = notes \cup {row} /\ bells' = bells
  /\ UNCHANGED <<chatVars, sockets, views, voiceVars, req>>

Notify(n) ==
  /\ n \in notices
  /\ \/ /\ n[3] = "insert"
        /\ notices' = (notices \ {n}) \cup {<<n[1], n[2], "push">>}
        /\ \E t \in messages[n[1]].at .. clock : notes' = notes \cup {<<n[1], n[2], t>>}
        /\ bells' = bells
     \/ /\ n[3] = "push"
        /\ notices' = notices \ {n}
        /\ bells' = BellWith(n[2], RowsOf(n), Reached(n[2])) /\ notes' = notes
  /\ UNCHANGED <<chatVars, sockets, views, voiceVars, req>>

NotesOf(u) == {x \in notes : x[2] = u}
AtMost(n, S) == IF Cardinality(S) < n THEN Cardinality(S) ELSE n

\* order by created_at desc limit NotesPage offset (page - 1) * NotesPage, ties in any order:
\* what comes before the page, the page, and the rest.
IsNotesPage(rows, all, page) == \E before \in SUBSET all :
  /\ rows \subseteq all \ before
  /\ Cardinality(before) = AtMost((page - 1) * NotesPage, all)
  /\ Cardinality(rows) = AtMost(NotesPage, all \ before)
  /\ \A x \in before, y \in all \ before : x[3] >= y[3]
  /\ \A x \in rows, y \in all \ (before \cup rows) : x[3] >= y[3]

\* What a client has after a page: a full one ends at its oldest row.
FullPage(bell, rows, end) ==
  [socket |-> bell.socket, rows |-> bell.rows \cup rows, next |-> bell.next + 1,
   down |-> end, cuts |-> bell.cuts \cup {end}]
LastPage(bell, rows) == [bell EXCEPT !.rows = @ \cup rows, !.next = 0, !.down = 0]

\* list answers the page that the client of u, whose bell was this, has asked for.
ListNotes(u, bell, rows) ==
  /\ Listens(u, bell.socket) /\ bell.next > 0
  /\ IsNotesPage(rows, NotesOf(u), bell.next)
  /\ \/ /\ Cardinality(rows) < NotesPage
        /\ bells' = [bells EXCEPT ![u] = LastPage(bell, rows)]
     \/ /\ Cardinality(rows) = NotesPage
        /\ \E oldest \in rows : /\ \A x \in rows : oldest[3] <= x[3]
                                /\ bells' = [bells EXCEPT ![u] = FullPage(bell, rows, oldest[3])]
  /\ UNCHANGED <<chatVars, sockets, views, notices, notes, voiceVars, req>>

\* A client that listens on k opens the list, or asks for its next page.
OpenNotes(u, k) == \E rows \in SUBSET NotesOf(u) :
  ListNotes(u, [NoBell EXCEPT !.socket = k], rows)
MoreNotes(u) == /\ bells[u].next > 1 /\ bells[u].socket # None
                /\ \E rows \in SUBSET NotesOf(u) : ListNotes(u, bells[u], rows)

=============================================================================
