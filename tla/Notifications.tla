--------------------------- MODULE Notifications ---------------------------
(***************************************************************************)
(* Notifications and the sockets they are pushed to:                       *)
(* src/shared/notification/notification.service.ts and src/shared/websocket *)
(* with the handlers of the pickup service that notify.  The rows of a     *)
(* notification are committed first, then it is emitted to every socket of *)
(* its recipients, then the rows are stamped.  A browser connects its      *)
(* socket and asks for the list when it likes; the process may end between *)
(* any two steps and takes the sockets with it.                            *)
(***************************************************************************)
EXTENDS Integers, Sequences, FiniteSets

CONSTANTS
  Users,
  Sockets,
  Requests,        \* slots for handlers in flight
  Letters,         \* what a handler sends: a sequence of sets of recipients
  Take,            \* length of the list of a user
  MaxNotes,        \* bound: notifications
  MaxConnects,     \* bound: handshakes begun
  MaxCrashes,      \* bound: failures of a handler, ends of the process
  None             \* no user

ASSUME NotificationsAssumption ==
  /\ Letters \subseteq Seq(SUBSET Users)
  /\ Take \in Nat \ {0}
  /\ {MaxNotes, MaxConnects, MaxCrashes} \subseteq Nat
  /\ None \notin Users

VARIABLES
  sessions,        \* users with a session in Redis
  handshake,       \* where the middleware of a socket is suspended
  user,            \* client.data.user
  clients,         \* registered sockets
  userClients,     \* registered sockets by user, {} for no entry
  recipients,      \* the notifications: the users of their recipient rows
  delivered,       \* users whose row has deliveredAt
  read,            \* users whose row has readAt
  emitted,         \* notifications that were emitted
  todo,            \* sets of recipients a handler still has to notify
  step,            \* where the handler is suspended
  note,            \* the notification it is delivering
  known,           \* notifications the browser of a socket has got since it
                   \* connected
  listed,          \* sockets whose browser has asked for the list since then
  connects,
  crashes

sockets == <<sessions, handshake, user, clients, userClients>>
rows == <<recipients, delivered, read>>
handlers == <<todo, step, note>>
browsers == <<known, listed>>
vars == <<sockets, rows, emitted, handlers, browsers, connects, crashes>>

Notes == DOMAIN recipients

Init ==
  /\ sessions = Users
  /\ handshake = [s \in Sockets |-> "closed"]
  /\ user = [s \in Sockets |-> None]
  /\ clients = {}
  /\ userClients = [u \in Users |-> {}]
  /\ recipients = <<>>
  /\ delivered = <<>>
  /\ read = <<>>
  /\ emitted = {}
  /\ todo = [r \in Requests |-> <<>>]
  /\ step = [r \in Requests |-> "idle"]
  /\ note = [r \in Requests |-> 0]
  /\ known = [s \in Sockets |-> {}]
  /\ listed = {}
  /\ connects = 0
  /\ crashes = 0

-----------------------------------------------------------------------------
(* Sockets.                                                                *)

\* The middleware has read the session.
ReadSession(s, u) ==
  /\ handshake[s] = "closed"
  /\ u \in sessions
  /\ connects < MaxConnects
  /\ connects' = connects + 1
  /\ handshake' = [handshake EXCEPT ![s] = "session"]
  /\ user' = [user EXCEPT ![s] = u]
  /\ UNCHANGED <<sessions, clients, userClients, rows, emitted, handlers,
                 browsers, crashes>>

\* client.data.user, and registerClient, which handleConnection calls.
registerClient(s) ==
  /\ clients' = clients \cup {s}
  /\ userClients' = [userClients EXCEPT ![user[s]] = @ \cup {s}]

\* The user was found; expire() does nothing to a session that is gone.
Connect(s) ==
  /\ handshake[s] = "session"
  /\ handshake' = [handshake EXCEPT ![s] = "open"]
  /\ registerClient(s)
  /\ UNCHANGED <<sessions, user, rows, emitted, handlers, browsers, connects,
                 crashes>>

\* The socket stays in the set of its user.
RemoveFromClients(s) ==
  /\ clients' = clients \ {s}
  /\ UNCHANGED userClients

removeClient(s) ==
  /\ clients' = clients \ {s}
  /\ userClients' = [userClients EXCEPT ![user[s]] = @ \ {s}]

\* Also in the middle of the handshake; then nothing was registered.
Disconnect(s) ==
  /\ handshake[s] # "closed"
  /\ removeClient(s)
  /\ handshake' = [handshake EXCEPT ![s] = "closed"]
  /\ user' = [user EXCEPT ![s] = None]
  /\ known' = [known EXCEPT ![s] = {}]
  /\ listed' = listed \ {s}
  /\ UNCHANGED <<sessions, rows, emitted, handlers, connects, crashes>>

\* logout ends the session; the sockets of the user stay.
Logout(u) ==
  /\ u \in sessions
  /\ sessions' = sessions \ {u}
  /\ UNCHANGED <<handshake, user, clients, userClients, rows, emitted, handlers,
                 browsers, connects, crashes>>

-----------------------------------------------------------------------------
(* Handlers.                                                               *)

\* updatePickupStatusAndOrders has written and read the operations users;
\* opsRespondOnPickupRequest has written and listed the orders; broadcast has
\* listed the users.
Begin(r, letters) ==
  /\ step[r] = "idle"
  /\ todo' = [todo EXCEPT ![r] = letters]
  /\ step' = [step EXCEPT ![r] = "create"]
  /\ UNCHANGED <<sockets, rows, emitted, note, browsers, connects, crashes>>

\* Nothing left to notify: the answer.
Answer(r) ==
  /\ step[r] = "create"
  /\ todo[r] = <<>>
  /\ step' = [step EXCEPT ![r] = "idle"]
  /\ UNCHANGED <<sockets, rows, emitted, todo, note, browsers, connects, crashes>>

\* notifyUsers of nobody.
SkipEmpty(r) ==
  /\ step[r] = "create"
  /\ todo[r] # <<>> /\ Head(todo[r]) = {}
  /\ todo' = [todo EXCEPT ![r] = Tail(@)]
  /\ UNCHANGED <<sockets, rows, emitted, step, note, browsers, connects, crashes>>

\* emitToUser of every recipient, in one go.
Emit(n, to) ==
  /\ emitted' = emitted \cup {n}
  /\ known' = [s \in Sockets |->
       IF s \in clients /\ user[s] \in to /\ s \in userClients[user[s]]
       THEN known[s] \cup {n} ELSE known[s]]

\* It is emitted before the transaction, and committed after.
EmitFirst(r) ==
  /\ \/ /\ step[r] = "create"
        /\ todo[r] # <<>> /\ Head(todo[r]) # {}
        /\ Len(recipients) < MaxNotes
        /\ step' = [step EXCEPT ![r] = "emit"]
        /\ Emit(Len(recipients) + 1, Head(todo[r]))
        /\ UNCHANGED <<recipients, delivered, read, todo, note>>
     \/ /\ step[r] = "emit"
        /\ Len(recipients) < MaxNotes
        /\ recipients' = Append(recipients, Head(todo[r]))
        /\ delivered' = Append(delivered, {})
        /\ read' = Append(read, {})
        /\ todo' = [todo EXCEPT ![r] = Tail(@)]
        /\ step' = [step EXCEPT ![r] = "stamp"]
        /\ note' = [note EXCEPT ![r] = Len(recipients) + 1]
        /\ UNCHANGED <<emitted, known>>
  /\ UNCHANGED <<sockets, listed, connects, crashes>>

\* create: the transaction with the notification and its rows.
Create(r) ==
  /\ step[r] = "create"
  /\ todo[r] # <<>> /\ Head(todo[r]) # {}
  /\ Len(recipients) < MaxNotes
  /\ recipients' = Append(recipients, Head(todo[r]))
  /\ delivered' = Append(delivered, {})
  /\ read' = Append(read, {})
  /\ todo' = [todo EXCEPT ![r] = Tail(@)]
  /\ step' = [step EXCEPT ![r] = "deliver"]
  /\ note' = [note EXCEPT ![r] = Len(recipients) + 1]
  /\ UNCHANGED <<sockets, emitted, browsers, connects, crashes>>

\* deliver, up to its await.
Deliver(r) ==
  /\ step[r] = "deliver"
  /\ Emit(note[r], recipients[note[r]])
  /\ step' = [step EXCEPT ![r] = "stamp"]
  /\ UNCHANGED <<sockets, rows, todo, note, listed, connects, crashes>>

\* Only the rows of those who have a socket.
StampOnline(n) == {u \in recipients[n] : userClients[u] # {}}
\* The rows of the recipients, connected or not.
StampAll(n) == recipients[n]

Stamp(r) ==
  /\ step[r] = "stamp"
  /\ delivered' = [delivered EXCEPT ![note[r]] = StampAll(note[r])]
  /\ step' = [step EXCEPT ![r] = "create"]
  /\ note' = [note EXCEPT ![r] = 0]
  /\ UNCHANGED <<sockets, recipients, read, emitted, todo, browsers, connects,
                 crashes>>

\* A statement fails: the rest of the letters is not sent.
Fail(r) ==
  /\ step[r] # "idle"
  /\ crashes < MaxCrashes
  /\ crashes' = crashes + 1
  /\ step' = [step EXCEPT ![r] = "idle"]
  /\ todo' = [todo EXCEPT ![r] = <<>>]
  /\ note' = [note EXCEPT ![r] = 0]
  /\ UNCHANGED <<sockets, rows, emitted, browsers, connects>>

\* The process ends and is started again: tables and sessions are left.
Crash ==
  /\ crashes < MaxCrashes
  /\ crashes' = crashes + 1
  /\ handshake' = [s \in Sockets |-> "closed"]
  /\ user' = [s \in Sockets |-> None]
  /\ clients' = {}
  /\ userClients' = [u \in Users |-> {}]
  /\ todo' = [r \in Requests |-> <<>>]
  /\ step' = [r \in Requests |-> "idle"]
  /\ note' = [r \in Requests |-> 0]
  /\ known' = [s \in Sockets |-> {}]
  /\ listed' = {}
  /\ UNCHANGED <<sessions, rows, emitted, connects>>

-----------------------------------------------------------------------------
(* Browsers.                                                               *)

\* orderBy createdAt desc, take: the newest Take of the notifications of u.
Newest(u) ==
  LET own == {n \in Notes : u \in recipients[n]}
  IN {n \in own : Cardinality({k \in own : k > n}) < Take}

\* listForUser, for the browser of a socket that is connected.
ListForUser(s) ==
  /\ s \in clients
  /\ user[s] \in sessions
  /\ known' = [known EXCEPT ![s] = @ \cup Newest(user[s])]
  /\ listed' = listed \cup {s}
  /\ UNCHANGED <<sockets, rows, emitted, handlers, connects, crashes>>

MarkRead(n, u) ==
  /\ u \in recipients[n] \cap sessions
  /\ read' = [read EXCEPT ![n] = @ \cup {u}]
  /\ UNCHANGED <<sockets, recipients, delivered, emitted, handlers, browsers,
                 connects, crashes>>

-----------------------------------------------------------------------------
Next ==
  \/ Crash
  \/ \E s \in Sockets :
       \/ Connect(s) \/ Disconnect(s) \/ ListForUser(s)
       \/ \E u \in Users : ReadSession(s, u)
  \/ \E u \in Users : Logout(u) \/ \E n \in Notes : MarkRead(n, u)
  \/ \E r \in Requests :
       \/ \E letters \in Letters : Begin(r, letters)
       \/ Answer(r) \/ SkipEmpty(r) \/ Create(r) \/ Deliver(r) \/ Stamp(r)
       \/ Fail(r)

Spec == Init /\ [][Next]_vars

\* A handler that was called goes on; clients owe nothing.
FairSpec ==
  /\ Spec
  /\ \A r \in Requests : WF_vars(SkipEmpty(r) \/ Create(r) \/ Deliver(r) \/ Stamp(r))

-----------------------------------------------------------------------------
(* Properties.                                                             *)

TypeOK ==
  /\ sessions \subseteq Users
  /\ handshake \in [Sockets -> {"closed", "session", "open"}]
  /\ user \in [Sockets -> Users \cup {None}]
  /\ clients = {s \in Sockets : handshake[s] = "open"}
  /\ userClients \in [Users -> SUBSET Sockets]
  /\ recipients \in Seq(SUBSET Users)
  /\ delivered \in [Notes -> SUBSET Users]
  /\ read \in [Notes -> SUBSET Users]
  /\ emitted \subseteq Notes
  /\ todo \in [Requests -> Seq(SUBSET Users)]
  /\ step \in [Requests -> {"idle", "create", "deliver", "stamp"}]
  /\ \A r \in Requests : step[r] \in {"deliver", "stamp"} => note[r] \in Notes
  /\ known \in [Sockets -> SUBSET Notes]
  /\ listed \subseteq clients
  /\ connects \in 0..MaxConnects
  /\ crashes \in 0..MaxCrashes

\* The two maps of sockets agree through connections, disconnections in the
\* middle of a handshake, logouts and restarts: a socket is in the set of its
\* user exactly when it is a client, and in no other set.
SocketMapsAgree ==
  TypeOK /\ \A u \in Users : userClients[u] = {s \in clients : user[s] = u}

\* A browser that connects and then lists misses nothing: of the newest Take
\* notifications of its user, it has every one that was emitted, pushed or
\* listed, because the rows are committed before the push.  The same browser
\* listing first and connecting then would have a gap.  And a row that says
\* delivered belongs to a notification that was emitted, also when its handler
\* failed or the process ended.
NothingMissed ==
  /\ \A s \in listed : Newest(user[s]) \cap emitted \subseteq known[s]
  /\ \A n \in Notes : delivered[n] # {} => n \in emitted

\* Every notification is delivered to all of its recipients in the end, those
\* without a socket too, unless a failure ended its handler; nothing takes it
\* up again then.
DeliveredInTheEnd ==
  \A r \in Requests, n \in 1..MaxNotes :
    note[r] = n ~> (n \in Notes /\ delivered[n] = recipients[n]) \/ crashes > 0
=============================================================================
