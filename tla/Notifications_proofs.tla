------------------------ MODULE Notifications_proofs ------------------------
(***************************************************************************)
(* Theorems about Notifications, for any users, sockets, handlers and      *)
(* letters, and any number of notifications, connections and crashes: the  *)
(* maps of the gateway agree, and a browser that connects and then lists   *)
(* misses nothing.                                                         *)
(***************************************************************************)
EXTENDS Notifications, SequenceTheorems, FiniteSetTheorems, TLAPS

-----------------------------------------------------------------------------
(* The inductive invariant, by what an action can touch.                   *)

\* The gateway: a socket past the start of its handshake has a user.
Gateway ==
  /\ sessions \subseteq Users
  /\ handshake \in [Sockets -> {"closed", "session", "open"}]
  /\ user \in [Sockets -> Users \cup {None}]
  /\ \A s \in Sockets : handshake[s] # "closed" => user[s] \in Users
  /\ clients = {s \in Sockets : handshake[s] = "open"}
  /\ userClients \in [Users -> SUBSET Sockets]
  /\ \A u \in Users : userClients[u] = {s \in clients : user[s] = u}
  /\ connects \in 0..MaxConnects

\* The tables.
Rows ==
  /\ recipients \in Seq(SUBSET Users)
  /\ delivered \in Seq(SUBSET Users) /\ Len(delivered) = Len(recipients)
  /\ read \in Seq(SUBSET Users) /\ Len(read) = Len(recipients)

\* The handlers: what is to be stamped was emitted.
Handling ==
  /\ todo \in [Requests -> Seq(SUBSET Users)]
  /\ step \in [Requests -> {"idle", "create", "deliver", "stamp"}]
  /\ note \in [Requests -> Nat]
  /\ \A r \in Requests : step[r] \in {"deliver", "stamp"} => note[r] \in Notes
  /\ \A r \in Requests : step[r] = "stamp" => note[r] \in emitted
  /\ crashes \in 0..MaxCrashes

\* The browsers, and what was emitted.
Browsing ==
  /\ emitted \subseteq Notes
  /\ known \in [Sockets -> SUBSET Notes]
  /\ listed \subseteq clients

Inv == Gateway /\ Rows /\ Handling /\ Browsing /\ NothingMissed

LEMMA Bounds ==
  /\ Letters \subseteq Seq(SUBSET Users) /\ Take \in Nat \ {0}
  /\ MaxNotes \in Nat /\ MaxConnects \in Nat /\ MaxCrashes \in Nat
  /\ None \notin Users
BY NotificationsAssumption DEF NotificationsAssumption

LEMMA NotesAre ==
  ASSUME Rows
  PROVE  /\ Notes = 1..Len(recipients) /\ Len(recipients) \in Nat
         /\ delivered \in [Notes -> SUBSET Users] /\ read \in [Notes -> SUBSET Users]
         /\ \A n \in Notes : recipients[n] \subseteq Users
<1>1. Notes = 1..Len(recipients) /\ Len(recipients) \in Nat
  BY LenProperties DEF Rows, Notes
<1>2. delivered \in [Notes -> SUBSET Users] /\ read \in [Notes -> SUBSET Users]
  BY <1>1, LenProperties DEF Rows
<1>3. \A n \in Notes : recipients[n] \subseteq Users
  BY <1>1, ElementOfSeq DEF Rows
<1>4. QED
  BY <1>1, <1>2, <1>3

LEMMA InitHolds == ASSUME Init PROVE Inv
<1>1. Gateway
  <2>1. connects \in 0..MaxConnects
    BY Bounds, SMT DEF Init
  <2>2. clients = {s \in Sockets : handshake[s] = "open"}
    BY SMT DEF Init
  <2>3. QED
    BY <2>1, <2>2 DEF Init, Gateway
<1>2. Rows
  BY EmptySeq DEF Init, Rows
<1>3. Notes = {}
  BY <1>2, NotesAre, EmptySeq, SMT DEF Init
<1>4. Handling
  <2>1. crashes \in 0..MaxCrashes
    BY Bounds, SMT DEF Init
  <2>2. <<>> \in Seq(SUBSET Users)
    BY EmptySeq
  <2>3. QED
    BY <2>1, <2>2 DEF Init, Handling
<1>5. Browsing /\ NothingMissed
  BY <1>3 DEF Init, Browsing, NothingMissed
<1>6. QED
  BY <1>1, <1>2, <1>4, <1>5 DEF Inv

-----------------------------------------------------------------------------
(* What an action leaves alone.                                            *)

LEMMA SameGateway ==
  ASSUME Gateway, UNCHANGED <<sockets, connects>>
  PROVE  Gateway'
BY DEF Gateway, sockets

LEMMA SameRows == ASSUME Rows, UNCHANGED rows PROVE Rows'
BY DEF Rows, rows

LEMMA SameHandling ==
  ASSUME Handling, UNCHANGED <<handlers, crashes, recipients>>, emitted \subseteq emitted'
  PROVE  Handling'
BY DEF Handling, handlers, Notes

\* Notifications are the same, and browsers that have asked know more.
LEMMA KnowsMore ==
  ASSUME Browsing, NothingMissed, UNCHANGED <<recipients, delivered, emitted>>,
         known' \in [Sockets -> SUBSET Notes],
         listed' \subseteq clients',
         \A s \in listed' : \/ s \in listed /\ user'[s] = user[s] /\ known[s] \subseteq known'[s]
                            \/ Newest(user'[s]) \subseteq known'[s]
  PROVE  Browsing' /\ NothingMissed'
<1>1. \A u : Newest(u)' = Newest(u)
  BY DEF Newest, Notes
<1>2. Browsing'
  BY DEF Browsing, Notes
<1>3. QED
  BY <1>1, <1>2 DEF NothingMissed, Notes

LEMMA SameBrowsing ==
  ASSUME Browsing, NothingMissed,
         UNCHANGED <<recipients, delivered, emitted, browsers, clients, user>>
  PROVE  Browsing' /\ NothingMissed'
<1>1. known' \in [Sockets -> SUBSET Notes] /\ listed' \subseteq clients'
  BY DEF Browsing, browsers
<1>2. QED
  BY <1>1, KnowsMore DEF browsers

-----------------------------------------------------------------------------
(* Sockets.                                                                *)

LEMMA ReadSessionHolds ==
  ASSUME Inv, NEW s \in Sockets, NEW u \in Users, ReadSession(s, u)
  PROVE  Inv'
<1> USE DEF ReadSession
<1>0. s \notin clients
  BY SMT DEF Inv, Gateway
<1>1. Gateway'
  <2>1. connects' \in 0..MaxConnects
    BY Bounds, SMT DEF Inv, Gateway
  <2>2. /\ handshake' \in [Sockets -> {"closed", "session", "open"}]
        /\ user' \in [Sockets -> Users \cup {None}]
    BY DEF Inv, Gateway
  <2>3. \A v \in Sockets : handshake'[v] # "closed" => user'[v] \in Users
    BY SMT DEF Inv, Gateway
  <2>4. clients' = {v \in Sockets : handshake'[v] = "open"}
    BY <1>0, SMT DEF Inv, Gateway
  <2>5. \A w \in Users : userClients'[w] = {v \in clients' : user'[v] = w}
    BY <1>0, SMT DEF Inv, Gateway
  <2>6. QED
    BY <2>1, <2>2, <2>3, <2>4, <2>5 DEF Inv, Gateway
<1>2. Rows' /\ Handling'
  BY SameRows, SameHandling DEF Inv, rows
<1>3. \A v \in listed : user'[v] = user[v]
  BY <1>0, SMT DEF Inv, Browsing, Gateway
<1>4. Browsing' /\ NothingMissed'
  BY <1>3, KnowsMore DEF Inv, Browsing, browsers, rows
<1>5. QED
  BY <1>1, <1>2, <1>4 DEF Inv

LEMMA ConnectHolds ==
  ASSUME Inv, NEW s \in Sockets, Connect(s)
  PROVE  Inv'
<1> USE DEF Connect, registerClient
<1>0. s \notin clients /\ user[s] \in Users
  BY SMT DEF Inv, Gateway
<1>1. Gateway'
  <2>1. handshake' \in [Sockets -> {"closed", "session", "open"}]
    BY DEF Inv, Gateway
  <2>2. clients' = {v \in Sockets : handshake'[v] = "open"}
    BY SMT DEF Inv, Gateway
  <2>3. userClients' \in [Users -> SUBSET Sockets]
    BY <1>0 DEF Inv, Gateway
  <2>4. \A w \in Users : userClients'[w] = {v \in clients' : user'[v] = w}
    BY <1>0, SMT DEF Inv, Gateway
  <2>5. \A v \in Sockets : handshake'[v] # "closed" => user'[v] \in Users
    BY <1>0, SMT DEF Inv, Gateway
  <2>6. QED
    BY <2>1, <2>2, <2>3, <2>4, <2>5 DEF Inv, Gateway
<1>2. Rows' /\ Handling'
  BY SameRows, SameHandling DEF Inv, rows
<1>3. Browsing' /\ NothingMissed'
  BY KnowsMore DEF Inv, Browsing, browsers, rows
<1>4. QED
  BY <1>1, <1>2, <1>3 DEF Inv

\* Also in the middle of the handshake, when the socket is in no map.
LEMMA DisconnectHolds ==
  ASSUME Inv, NEW s \in Sockets, Disconnect(s)
  PROVE  Inv'
<1> USE DEF Disconnect, removeClient
<1>0. user[s] \in Users
  BY DEF Inv, Gateway
<1>1. Gateway'
  <2>1. /\ handshake' \in [Sockets -> {"closed", "session", "open"}]
        /\ user' \in [Sockets -> Users \cup {None}]
    BY DEF Inv, Gateway
  <2>2. clients' = {v \in Sockets : handshake'[v] = "open"}
    BY SMT DEF Inv, Gateway
  <2>3. userClients' \in [Users -> SUBSET Sockets]
    BY <1>0 DEF Inv, Gateway
  <2>4. \A w \in Users : userClients'[w] = {v \in clients' : user'[v] = w}
    BY <1>0, SMT DEF Inv, Gateway
  <2>5. \A v \in Sockets : handshake'[v] # "closed" => user'[v] \in Users
    BY SMT DEF Inv, Gateway
  <2>6. QED
    BY <2>1, <2>2, <2>3, <2>4, <2>5 DEF Inv, Gateway
<1>2. Rows' /\ Handling'
  BY SameRows, SameHandling DEF Inv, rows
<1>3. known' \in [Sockets -> SUBSET Notes]
  BY DEF Inv, Browsing
<1>4. \A v \in listed' : v \in listed /\ user'[v] = user[v] /\ known[v] \subseteq known'[v]
  BY SMT DEF Inv, Browsing, Gateway
<1>5. listed' \subseteq clients'
  BY DEF Inv, Browsing
<1>6. Browsing' /\ NothingMissed'
  BY <1>3, <1>4, <1>5, KnowsMore DEF Inv, rows
<1>7. QED
  BY <1>1, <1>2, <1>6 DEF Inv

LEMMA LogoutHolds ==
  ASSUME Inv, NEW u \in Users, Logout(u)
  PROVE  Inv'
<1>1. Gateway'
  BY DEF Logout, Inv, Gateway
<1>2. Rows' /\ Handling' /\ Browsing' /\ NothingMissed'
  BY SameRows, SameHandling, SameBrowsing DEF Logout, Inv, rows
<1>3. QED
  BY <1>1, <1>2 DEF Inv

-----------------------------------------------------------------------------
(* Handlers.                                                               *)

\* Only the letters of a handler and where it stands change.
LEMMA HandlerMoves ==
  ASSUME Inv, UNCHANGED <<sockets, rows, emitted, browsers, connects>>, Handling'
  PROVE  Inv'
<1>1. Gateway' /\ Rows'
  BY SameGateway, SameRows DEF Inv
<1>2. Browsing' /\ NothingMissed'
  BY SameBrowsing DEF Inv, rows, sockets
<1>3. QED
  BY <1>1, <1>2 DEF Inv

LEMMA BeginHolds ==
  ASSUME Inv, NEW r \in Requests, NEW letters \in Letters, Begin(r, letters)
  PROVE  Inv'
<1> USE DEF Begin
<1>1. letters \in Seq(SUBSET Users)
  BY Bounds
<1>2. /\ todo' \in [Requests -> Seq(SUBSET Users)]
      /\ step' \in [Requests -> {"idle", "create", "deliver", "stamp"}]
  BY <1>1 DEF Inv, Handling
<1>3. \A q \in Requests : step'[q] \in {"deliver", "stamp"} => step'[q] = step[q]
  BY SMT DEF Inv, Handling
<1>4. Handling'
  BY <1>2, <1>3 DEF Inv, Handling, Notes, rows
<1>5. QED
  BY <1>4, HandlerMoves

LEMMA AnswerHolds ==
  ASSUME Inv, NEW r \in Requests, Answer(r) \/ SkipEmpty(r)
  PROVE  Inv'
<1> USE DEF Answer, SkipEmpty
<1>1. step' \in [Requests -> {"idle", "create", "deliver", "stamp"}]
  BY DEF Inv, Handling
<1>2. todo' \in [Requests -> Seq(SUBSET Users)]
  <2>1. CASE Answer(r)
    BY <2>1 DEF Inv, Handling
  <2>2. CASE SkipEmpty(r)
    <3>1. Tail(todo[r]) \in Seq(SUBSET Users)
      BY <2>2, HeadTailProperties DEF Inv, Handling
    <3>2. QED
      BY <2>2, <3>1 DEF Inv, Handling
  <2>3. QED
    BY <2>1, <2>2
<1>3. \A q \in Requests : step'[q] \in {"deliver", "stamp"} => step'[q] = step[q]
  BY SMT DEF Inv, Handling
<1>4. Handling'
  BY <1>1, <1>2, <1>3 DEF Inv, Handling, Notes, rows
<1>5. QED
  BY <1>4, HandlerMoves

\* The new notification is not emitted yet, and the older ones only get further
\* from the top of the list.
LEMMA CreateHolds ==
  ASSUME Inv, NEW r \in Requests, Create(r)
  PROVE  Inv'
<1> USE DEF Create
<1> DEFINE new == Len(recipients) + 1
<1>1. Head(todo[r]) \subseteq Users /\ Tail(todo[r]) \in Seq(SUBSET Users)
  BY HeadTailProperties DEF Inv, Handling
<1>2. /\ recipients' \in Seq(SUBSET Users) /\ Len(recipients') = new
      /\ \A n \in 1..Len(recipients) : recipients'[n] = recipients[n]
  BY <1>1, AppendProperties DEF Inv, Rows
<1>3. /\ delivered' \in Seq(SUBSET Users) /\ Len(delivered') = new
      /\ \A n \in 1..Len(recipients) : delivered'[n] = delivered[n]
      /\ delivered'[new] = {}
  BY AppendProperties DEF Inv, Rows
<1>4. read' \in Seq(SUBSET Users) /\ Len(read') = new
  BY AppendProperties DEF Inv, Rows
<1>5. Rows'
  BY <1>2, <1>3, <1>4 DEF Rows
<1>6. Notes' = 1..new /\ Notes = 1..Len(recipients) /\ Len(recipients) \in Nat
  <2>1. Notes' = 1..Len(recipients')
    BY <1>5, LenProperties DEF Rows, Notes
  <2>2. QED
    BY <1>2, <2>1, NotesAre DEF Inv
<1>7. Notes' = Notes \cup {new} /\ new \notin Notes /\ new \in Nat /\ \A n \in Notes : new > n
  BY <1>6, SMT
<1> HIDE DEF new
<1>8. Gateway'
  BY SameGateway DEF Inv
<1>9. Handling'
  <2>1. /\ todo' \in [Requests -> Seq(SUBSET Users)]
        /\ step' \in [Requests -> {"idle", "create", "deliver", "stamp"}]
    BY <1>1 DEF Inv, Handling
  <2>2. note' = [note EXCEPT ![r] = new]
    BY DEF new
  <2>3. note' \in [Requests -> Nat]
    BY <1>7, <2>2 DEF Inv, Handling
  <2>4. \A q \in Requests : step'[q] \in {"deliver", "stamp"} => note'[q] \in Notes'
    BY <1>7, <2>2, SMT DEF Inv, Handling
  <2>5. \A q \in Requests : step'[q] = "stamp" => note'[q] \in emitted
    BY <2>2, SMT DEF Inv, Handling
  <2>6. QED
    BY <2>1, <2>3, <2>4, <2>5 DEF Inv, Handling
<1>10. \A u \in Users : Newest(u)' \cap Notes \subseteq Newest(u)
  <2> SUFFICES ASSUME NEW u \in Users, NEW n \in Newest(u)', n \in Notes
               PROVE  n \in Newest(u)
    OBVIOUS
  <2> DEFINE before == {k \in {m \in Notes : u \in recipients[m]} : k > n}
             after == {k \in {m \in Notes' : u \in recipients'[m]} : k > n}
  <2>1. before \subseteq after /\ after \subseteq 1..new
    BY <1>2, <1>6, <1>7
  <2>2. IsFiniteSet(after)
    <3>1. new \in Int /\ 1 \in Int
      BY <1>7, SMT
    <3>2. IsFiniteSet(1..new)
      BY <3>1, FS_Interval
    <3>3. QED
      BY <2>1, <3>2, FS_Subset
  <2>3. /\ Cardinality(before) <= Cardinality(after)
        /\ IsFiniteSet(before)
    BY <2>1, <2>2, FS_Subset
  <2>4. Cardinality(before) \in Nat /\ Cardinality(after) \in Nat
    BY <2>2, <2>3, FS_CardinalityType
  <2>5. Cardinality(after) < Take /\ u \in recipients[n]
    BY <1>2, <1>6 DEF Newest
  <2> HIDE DEF before, after
  <2>6. Cardinality(before) < Take
    BY <2>3, <2>4, <2>5, Bounds, SMT
  <2> USE DEF before, after
  <2>7. QED
    BY <2>5, <2>6 DEF Newest
<1>11. Browsing'
  <2>1. emitted' = emitted /\ known' = known /\ listed' = listed /\ clients' = clients
    BY DEF browsers, sockets
  <2>2. known \in [Sockets -> SUBSET (Notes')]
    BY <1>7 DEF Inv, Browsing
  <2>3. QED
    BY <1>7, <2>1, <2>2 DEF Inv, Browsing
<1>12. NothingMissed'
  <2>1. \A s \in listed : user[s] \in Users
    BY DEF Inv, Browsing, Gateway
  <2>2. ASSUME NEW s \in listed' PROVE (Newest(user[s]) \cap emitted \subseteq known[s])'
    BY <1>10, <2>1 DEF Inv, NothingMissed, Browsing, browsers, sockets
  <2>3. ASSUME NEW n \in Notes', delivered'[n] # {} PROVE n \in emitted'
    BY <1>3, <1>6, <1>7, <2>3 DEF Inv, NothingMissed
  <2>4. QED
    BY <2>2, <2>3 DEF NothingMissed
<1>13. QED
  BY <1>5, <1>8, <1>9, <1>11, <1>12 DEF Inv

\* The push reaches every registered socket of the recipients.
LEMMA DeliverHolds ==
  ASSUME Inv, NEW r \in Requests, Deliver(r)
  PROVE  Inv'
<1> USE DEF Deliver, Emit
<1> DEFINE n == note[r]
<1>1. n \in Notes
  BY DEF Inv, Handling
<1>2. Gateway' /\ Rows'
  BY SameGateway, SameRows DEF Inv
<1>3. Notes' = Notes /\ \A u : Newest(u)' = Newest(u)
  BY DEF Notes, Newest, rows
<1>4. Handling'
  <2>1. step' \in [Requests -> {"idle", "create", "deliver", "stamp"}]
    BY DEF Inv, Handling
  <2>2. \A q \in Requests : step'[q] \in {"deliver", "stamp"} => note[q] \in Notes
    BY SMT DEF Inv, Handling
  <2>3. \A q \in Requests : step'[q] = "stamp" => note[q] \in emitted'
    BY SMT DEF Inv, Handling
  <2>4. QED
    BY <1>3, <2>1, <2>2, <2>3 DEF Inv, Handling
<1>5. Browsing'
  <2>1. known' \in [Sockets -> SUBSET Notes]
    BY <1>1 DEF Inv, Browsing
  <2>2. emitted' \subseteq Notes
    BY <1>1 DEF Inv, Browsing
  <2>3. QED
    BY <1>3, <2>1, <2>2 DEF Inv, Browsing, sockets
<1>6. ASSUME NEW s \in listed PROVE Newest(user[s]) \cap emitted' \subseteq known'[s]
  <2>1. s \in clients /\ s \in Sockets /\ user[s] \in Users
    BY <1>6 DEF Inv, Browsing, Gateway
  <2>2. s \in userClients[user[s]]
    BY <2>1 DEF Inv, Gateway
  <2>3. n \in Newest(user[s]) => user[s] \in recipients[n]
    BY DEF Newest
  <2>4. known[s] \subseteq known'[s] /\ (n \in Newest(user[s]) => n \in known'[s])
    BY <2>1, <2>2, <2>3
  <2>5. Newest(user[s]) \cap emitted \subseteq known[s]
    BY <1>6 DEF Inv, NothingMissed
  <2>6. QED
    BY <2>4, <2>5
<1>7. NothingMissed'
  BY <1>3, <1>6 DEF Inv, NothingMissed, rows, sockets
<1>8. QED
  BY <1>2, <1>4, <1>5, <1>7 DEF Inv

LEMMA StampHolds ==
  ASSUME Inv, NEW r \in Requests, Stamp(r)
  PROVE  Inv'
<1> USE DEF Stamp, StampAll
<1> DEFINE n == note[r]
<1>1. n \in Notes /\ n \in emitted
  BY DEF Inv, Handling
<1>2. recipients[n] \subseteq Users /\ Notes = 1..Len(recipients)
  BY <1>1, NotesAre DEF Inv
<1>3. /\ delivered' \in Seq(SUBSET Users) /\ Len(delivered') = Len(delivered)
      /\ \A m \in Notes : delivered'[m] = IF m = n THEN recipients[n] ELSE delivered[m]
  BY <1>1, <1>2, ExceptSeq DEF Inv, Rows
<1>4. Rows'
  BY <1>3 DEF Inv, Rows
<1>5. Gateway'
  BY SameGateway DEF Inv
<1>6. Handling'
  <2>1. /\ step' \in [Requests -> {"idle", "create", "deliver", "stamp"}]
        /\ note' \in [Requests -> Nat]
    BY DEF Inv, Handling
  <2>2. \A q \in Requests : step'[q] \in {"deliver", "stamp"} =>
          step'[q] = step[q] /\ note'[q] = note[q]
    BY SMT DEF Inv, Handling
  <2>3. QED
    BY <2>1, <2>2 DEF Inv, Handling, Notes
<1>7. Browsing'
  BY DEF Inv, Browsing, browsers, sockets, Notes
<1>8. NothingMissed'
  <2>1. Notes' = Notes /\ \A u : Newest(u)' = Newest(u)
    BY DEF Notes, Newest
  <2>2. \A m \in Notes : delivered'[m] # {} => m \in emitted
    BY <1>1, <1>3 DEF Inv, NothingMissed
  <2>3. QED
    BY <2>1, <2>2 DEF Inv, NothingMissed, browsers, sockets
<1>9. QED
  BY <1>4, <1>5, <1>6, <1>7, <1>8 DEF Inv

LEMMA FailHolds ==
  ASSUME Inv, NEW r \in Requests, Fail(r)
  PROVE  Inv'
<1> USE DEF Fail
<1>1. crashes' \in 0..MaxCrashes
  BY Bounds, SMT DEF Inv, Handling
<1>2. <<>> \in Seq(SUBSET Users)
  BY EmptySeq
<1>3. /\ todo' \in [Requests -> Seq(SUBSET Users)]
      /\ step' \in [Requests -> {"idle", "create", "deliver", "stamp"}]
      /\ note' \in [Requests -> Nat]
  BY <1>2 DEF Inv, Handling
<1>4. \A q \in Requests : step'[q] \in {"deliver", "stamp"} =>
        step'[q] = step[q] /\ note'[q] = note[q]
  BY SMT DEF Inv, Handling
<1>5. Handling'
  BY <1>1, <1>3, <1>4 DEF Inv, Handling, Notes, rows
<1>6. QED
  BY <1>5, HandlerMoves

\* The process takes every socket and handler with it, and leaves the rows.
LEMMA CrashHolds == ASSUME Inv, Crash PROVE Inv'
<1> USE DEF Crash
<1>1. crashes' \in 0..MaxCrashes
  BY Bounds, SMT DEF Inv, Handling
<1>2. <<>> \in Seq(SUBSET Users)
  BY EmptySeq
<1>3. Gateway'
  BY DEF Inv, Gateway
<1>4. Rows'
  BY SameRows DEF Inv
<1>5. Handling'
  BY <1>1, <1>2 DEF Inv, Handling
<1>6. Browsing' /\ NothingMissed'
  BY KnowsMore DEF Inv, Browsing, rows
<1>7. QED
  BY <1>3, <1>4, <1>5, <1>6 DEF Inv

-----------------------------------------------------------------------------
(* Browsers.                                                               *)

LEMMA ListHolds ==
  ASSUME Inv, NEW s \in Sockets, ListForUser(s)
  PROVE  Inv'
<1> USE DEF ListForUser
<1>1. Gateway' /\ Rows' /\ Handling'
  BY SameGateway, SameRows, SameHandling DEF Inv, rows
<1>2. Newest(user[s]) \subseteq Notes
  BY DEF Newest
<1>3. known' \in [Sockets -> SUBSET Notes]
  BY <1>2 DEF Inv, Browsing
<1>4. known[s] \subseteq known'[s] /\ Newest(user[s]) \subseteq known'[s]
  BY DEF Inv, Browsing
<1>5. \A v \in Sockets : v # s => known'[v] = known[v]
  BY DEF Inv, Browsing
<1>6. listed' \subseteq clients' /\ user' = user /\ listed \subseteq Sockets
  BY DEF Inv, Browsing, Gateway, sockets
<1>7. Browsing' /\ NothingMissed'
  BY <1>3, <1>4, <1>5, <1>6, KnowsMore DEF Inv, rows
<1>8. QED
  BY <1>1, <1>7 DEF Inv

LEMMA MarkReadHolds ==
  ASSUME Inv, NEW n \in Notes, NEW u \in Users, MarkRead(n, u)
  PROVE  Inv'
<1> USE DEF MarkRead
<1>1. Notes = 1..Len(recipients) /\ read[n] \cup {u} \in SUBSET Users
  BY NotesAre DEF Inv
<1>2. read' \in Seq(SUBSET Users) /\ Len(read') = Len(read)
  BY <1>1, ExceptSeq DEF Inv, Rows
<1>3. Rows'
  BY <1>2 DEF Inv, Rows
<1>4. Gateway' /\ Handling' /\ Browsing' /\ NothingMissed'
  BY SameGateway, SameHandling, SameBrowsing DEF Inv, sockets
<1>5. QED
  BY <1>3, <1>4 DEF Inv

-----------------------------------------------------------------------------
(* The theorems.                                                           *)

LEMMA StutterHolds == ASSUME Inv, UNCHANGED vars PROVE Inv'
BY SameGateway, SameRows, SameHandling, SameBrowsing DEF vars, Inv, rows, sockets

LEMMA StepHolds == ASSUME Inv, Next PROVE Inv'
<1>1. ASSUME NEW s \in Sockets, Connect(s) \/ Disconnect(s) \/ ListForUser(s)
      PROVE  Inv'
  BY <1>1, ConnectHolds, DisconnectHolds, ListHolds
<1>2. ASSUME NEW s \in Sockets, NEW u \in Users, ReadSession(s, u)
      PROVE  Inv'
  BY <1>2, ReadSessionHolds
<1>3. ASSUME NEW u \in Users, Logout(u) \/ \E n \in Notes : MarkRead(n, u)
      PROVE  Inv'
  BY <1>3, LogoutHolds, MarkReadHolds
<1>4. ASSUME NEW r \in Requests, NEW letters \in Letters, Begin(r, letters)
      PROVE  Inv'
  BY <1>4, BeginHolds
<1>5. ASSUME NEW r \in Requests,
             Answer(r) \/ SkipEmpty(r) \/ Create(r) \/ Deliver(r) \/ Stamp(r) \/ Fail(r)
      PROVE  Inv'
  BY <1>5, AnswerHolds, CreateHolds, DeliverHolds, StampHolds, FailHolds
<1>6. QED
  BY <1>1, <1>2, <1>3, <1>4, <1>5, CrashHolds DEF Next

LEMMA InvAlways == Spec => []Inv
<1>1. Init => Inv
  BY InitHolds
<1>2. Inv /\ [Next]_vars => Inv'
  BY StepHolds, StutterHolds
<1>3. QED
  BY <1>1, <1>2, PTL DEF Spec

\* The two maps of the gateway agree, however connections, disconnections in
\* the middle of a handshake, logouts and restarts come.
THEOREM SocketMapsAgreeAlways == Spec => []SocketMapsAgree
<1>1. Inv => SocketMapsAgree
  <2> SUFFICES ASSUME Inv PROVE SocketMapsAgree
    OBVIOUS
  <2>1. TypeOK
    BY NotesAre DEF Inv, Gateway, Rows, Handling, Browsing, TypeOK
  <2>2. QED
    BY <2>1 DEF Inv, Gateway, SocketMapsAgree
<1>2. QED
  BY <1>1, InvAlways, PTL

\* A browser that connects and then lists has every newest notification that was
\* emitted, for any number of users, sockets, handlers and restarts, and a row
\* that says delivered was emitted.
THEOREM NothingMissedAlways == Spec => []NothingMissed
<1>1. Inv => NothingMissed
  BY DEF Inv
<1>2. QED
  BY <1>1, InvAlways, PTL
=============================================================================
