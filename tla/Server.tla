------------------------------- MODULE Server -------------------------------
(***************************************************************************)
(* The process and its two databases (src/main.ts, src/db): the start, in  *)
(* which Postgres has to answer and Redis is waited for, and the requests, *)
(* which wait in the client of Redis while it reconnects, through outages  *)
(* of either server.  The shutdown hooks of src/db never run: main.ts does *)
(* not enable them.                                                        *)
(*                                                                         *)
(* A request here is the stores it needs, in their order: the session, the *)
(* throttler, the cached user, the handler's rows, the session again.  The *)
(* handler of a scan also starts the check of the scanning device, which   *)
(* it does not await.                                                      *)
(***************************************************************************)
EXTENDS Integers, Sequences

CONSTANTS
  Slots,          \* requests in flight
  MaxStarts,      \* bound: starts of the process
  MaxOutages,     \* bound: outages of a server
  MaxRetries      \* bound: attempts to reconnect that are told apart

ASSUME ServerAssumption == MaxRetries \in Nat

VARIABLES
  pg, redis,      \* the servers are up
  proc,           \* "down", "starting", "up"
  todo,           \* modules whose onModuleInit is to come or under way
  connected,      \* PrismaService.connected
  client,         \* of RedisService: "closed", "connecting", "ready", "broken"
  retries,
  cmd,            \* the command an actor waits for, if any
  req,
  checking,       \* requests that left the check of a device running
  starts, outages,
  signals         \* that ended the process, kept to state OutagesSurvived

serverVars == <<pg, redis, proc, todo, connected, client, retries, cmd, req,
                checking, starts, outages, signals>>
servers == <<pg, redis, outages>>
process == <<proc, todo, connected, checking, starts, signals>>
link == <<client, retries>>

Boot == "boot"
Actors == Slots \cup {Boot}

NoRequest == [pc |-> "idle", lost |-> {}, error |-> FALSE]
RedisSteps == {"session", "throttle", "guard", "fill", "touch"}
Queries == {"find", "handler"}

ServerInit ==
  /\ pg = TRUE
  /\ redis = TRUE
  /\ proc = "down"
  /\ todo = <<>>
  /\ connected = FALSE
  /\ client = "closed"
  /\ retries = 0
  /\ cmd = [a \in Actors |-> "none"]
  /\ req = [r \in Slots |-> NoRequest]
  /\ checking = {}
  /\ starts = 0
  /\ outages = 0
  /\ signals = 0

ProcessEnds ==
  /\ proc' = "down"
  /\ todo' = <<>>
  /\ connected' = FALSE
  /\ client' = "closed"
  /\ retries' = 0
  /\ cmd' = [a \in Actors |-> "none"]
  /\ req' = [r \in Slots |-> NoRequest]
  /\ checking' = {}
  /\ UNCHANGED <<servers, starts>>

-----------------------------------------------------------------------------
(* The servers.                                                            *)

Outage ==
  /\ outages < MaxOutages
  /\ outages' = outages + 1
  /\ \/ /\ pg
        /\ pg' = FALSE
        /\ UNCHANGED <<redis, client>>
     \/ /\ redis
        /\ redis' = FALSE
        /\ client' = IF client = "ready" THEN "broken" ELSE client
        /\ UNCHANGED pg
  /\ UNCHANGED <<process, retries, cmd, req>>

PostgresBack ==
  /\ ~pg
  /\ pg' = TRUE
  /\ UNCHANGED <<redis, outages, process, link, cmd, req>>

RedisBack ==
  /\ ~redis
  /\ redis' = TRUE
  /\ UNCHANGED <<pg, outages, process, link, cmd, req>>

-----------------------------------------------------------------------------
(* The client of Redis.                                                    *)

\* The delay before the next attempt; the client closes without one.
NoDelay == -1
GivesUp(n) == IF n < MaxRetries THEN n * 100 ELSE NoDelay
reconnectStrategy(n) == IF n * 100 < 3000 THEN n * 100 ELSE 3000

\* The client emits 'error', which ends a process that does not listen.
errorUnheard == ProcessEnds /\ UNCHANGED signals

\* What was sent is rejected, what is queued stays, the client reconnects.
errorHeard ==
  /\ client' = "connecting"
  /\ retries' = 0
  /\ cmd' = [a \in Actors |-> IF cmd[a] = "sent" THEN "rejected" ELSE cmd[a]]
  /\ UNCHANGED <<servers, process, req>>

SocketError == client = "broken" /\ errorHeard

\* A client that has no next attempt: a start that waits for it fails.
Closes ==
  IF proc = "starting" THEN ProcessEnds /\ UNCHANGED signals
  ELSE /\ client' = "closed"
       /\ cmd' = [a \in Actors |-> IF cmd[a] = "none" THEN "none" ELSE "rejected"]
       /\ UNCHANGED <<servers, process, retries, req>>

AttemptFails ==
  /\ client = "connecting" /\ ~redis
  /\ IF reconnectStrategy(retries) # NoDelay
     THEN /\ retries' = IF retries < MaxRetries THEN retries + 1 ELSE retries
          /\ UNCHANGED <<servers, process, client, cmd, req>>
     ELSE Closes

\* Redis takes what was queued; a start that waits for it goes on.
Ready ==
  /\ client = "connecting" /\ redis
  /\ client' = "ready"
  /\ cmd' = [a \in Actors |-> IF cmd[a] = "queued" THEN "sent" ELSE cmd[a]]
  /\ todo' = IF todo # <<>> /\ Head(todo) = "redis" THEN Tail(todo) ELSE todo
  /\ UNCHANGED <<servers, proc, connected, checking, starts, signals, retries, req>>

Sent ==
  CASE client \in {"ready", "broken"} -> "sent"
    [] client = "connecting" -> "queued"
    [] client = "closed" -> "rejected"

Replied(a) == cmd[a] = "sent" /\ client = "ready"

-----------------------------------------------------------------------------
(* The start: the hooks of the two connections, in either order, then that *)
(* of DbModule.                                                            *)

Begin ==
  /\ proc = "down" /\ starts < MaxStarts
  /\ proc' = "starting"
  /\ starts' = starts + 1
  /\ todo' \in {<<"prisma", "redis", "db">>, <<"redis", "prisma", "db">>}
  /\ UNCHANGED <<servers, connected, checking, signals, link, cmd, req>>

Turn(m) == proc = "starting" /\ todo # <<>> /\ Head(todo) = m

\* Thrown, it rejects bootstrap(), which nobody awaits.
connect ==
  \/ /\ pg
     /\ connected' = TRUE
     /\ todo' = Tail(todo)
     /\ UNCHANGED <<servers, proc, checking, starts, signals, link, cmd, req>>
  \/ /\ ~pg
     /\ ProcessEnds
     /\ UNCHANGED signals

ConnectPrisma == Turn("prisma") /\ connect

ConnectRedis ==
  /\ Turn("redis") /\ client = "closed"
  /\ client' = "connecting"
  /\ retries' = 0
  /\ UNCHANGED <<servers, process, cmd, req>>

\* connectAll finds both connections open and asks for their health; that of
\* Redis is a command like any other.
isHealthy ==
  /\ Turn("db") /\ cmd[Boot] = "none"
  /\ cmd' = [cmd EXCEPT ![Boot] = Sent]
  /\ UNCHANGED <<servers, process, link, req>>

\* What is missing is only logged.
ConnectAll ==
  /\ Turn("db") /\ (Replied(Boot) \/ cmd[Boot] = "rejected")
  /\ cmd' = [cmd EXCEPT ![Boot] = "none"]
  /\ todo' = Tail(todo)
  /\ UNCHANGED <<servers, proc, connected, checking, starts, signals, link, req>>

Listen ==
  /\ proc = "starting" /\ todo = <<>>
  /\ proc' = "up"
  /\ UNCHANGED <<servers, todo, connected, checking, starts, signals, link, cmd, req>>

Boots == ConnectPrisma \/ ConnectRedis \/ isHealthy \/ ConnectAll \/ Listen

\* A signal, with nothing disconnected or awaited.
Stop ==
  /\ proc # "down"
  /\ ProcessEnds
  /\ signals' = signals + 1

-----------------------------------------------------------------------------
(* Requests.                                                               *)

Arrive(r) ==
  /\ proc = "up" /\ req[r].pc = "idle" /\ r \notin checking
  /\ req' = [req EXCEPT ![r].pc = "session"]
  /\ UNCHANGED <<servers, process, link, cmd>>

Send(r) ==
  /\ req[r].pc \in RedisSteps /\ cmd[r] = "none"
  /\ cmd' = [cmd EXCEPT ![r] = Sent]
  /\ UNCHANGED <<servers, process, link, req>>

\* A handler of a scan starts the check before its first query.
Handlers == {"scan", "handler"}

\* After an answer: the cached user is there or not.
After(step) ==
  CASE step = "session" -> {"throttle"}
    [] step = "throttle" -> {"guard"}
    [] step = "guard" -> {"find"} \cup Handlers
    [] step = "find" -> {"fill"}
    [] step = "fill" -> Handlers
    [] step = "handler" -> {"touch"}
    [] step = "touch" -> {"end"}

Fails(r, next) ==
  [req[r] EXCEPT !.pc = next, !.error = TRUE, !.lost = @ \cup {req[r].pc}]
GoesOn(r, next) == [req[r] EXCEPT !.pc = next, !.lost = @ \cup {req[r].pc}]

\* redis.get and redis.set that throw.
Rethrown(r, next) ==
  CASE req[r].pc = "session" -> Fails(r, "end")
    [] req[r].pc \in {"throttle", "guard", "fill"} -> Fails(r, "touch")
    [] req[r].pc = "touch" -> GoesOn(r, "end")

\* An error of the session store or of the throttler is the answer; redis.get
\* gives null for it and redis.set goes on; the touch holds up the end of the
\* answer but cannot change it.
Rejected(r, next) ==
  CASE req[r].pc = "session" -> Fails(r, "end")
    [] req[r].pc = "throttle" -> Fails(r, "touch")
    [] req[r].pc = "guard" -> GoesOn(r, "find")
    [] req[r].pc = "fill" -> GoesOn(r, next)
    [] req[r].pc = "touch" -> GoesOn(r, "end")

Reply(r) ==
  /\ req[r].pc \in RedisSteps
  /\ \/ /\ Replied(r)
        /\ \E next \in After(req[r].pc) : req' = [req EXCEPT ![r].pc = next]
     \/ /\ cmd[r] = "rejected"
        /\ \E next \in Handlers : req' = [req EXCEPT ![r] = Rejected(r, next)]
  /\ cmd' = [cmd EXCEPT ![r] = "none"]
  /\ UNCHANGED <<servers, process, link>>

\* Prisma connects anew when it has to; without a server the query throws.
Query(r) ==
  /\ req[r].pc \in Queries
  /\ \/ /\ pg
        /\ \E next \in After(req[r].pc) : req' = [req EXCEPT ![r].pc = next]
     \/ /\ ~pg
        /\ req' = [req EXCEPT ![r] = Fails(r, "touch")]
  /\ UNCHANGED <<servers, process, link, cmd>>

\* verifyWebhook(...) without await.
Verify(r) ==
  /\ req[r].pc = "scan"
  /\ req' = [req EXCEPT ![r].pc = "handler"]
  /\ checking' = checking \cup {r}
  /\ UNCHANGED <<servers, proc, todo, connected, starts, signals, link, cmd>>

\* The check needs Postgres, and a device that is registered.  Nobody handles
\* its rejection, and that ends the process.
CheckEnds(r) ==
  /\ r \in checking
  /\ \/ /\ pg
        /\ checking' = checking \ {r}
        /\ UNCHANGED <<servers, proc, todo, connected, starts, signals, link, cmd, req>>
     \/ /\ ProcessEnds
        /\ UNCHANGED signals

Answer(r) ==
  /\ req[r].pc = "end"
  /\ req' = [req EXCEPT ![r] = NoRequest]
  /\ UNCHANGED <<servers, process, link, cmd>>

Serve(r) == Send(r) \/ Reply(r) \/ Verify(r) \/ Query(r) \/ Answer(r)

-----------------------------------------------------------------------------
ServerNext ==
  \/ Outage \/ PostgresBack \/ RedisBack
  \/ SocketError \/ AttemptFails \/ Ready
  \/ Begin \/ Boots \/ Stop
  \/ \E r \in Slots : Arrive(r) \/ Serve(r) \/ CheckEnds(r)

\* Outages end, the client's timers fire and the event loop goes on.
ServerFairness ==
  /\ WF_serverVars(PostgresBack)
  /\ WF_serverVars(RedisBack)
  /\ WF_serverVars(SocketError)
  /\ WF_serverVars(Ready)
  /\ WF_serverVars(Boots)
  /\ \A r \in Slots : WF_serverVars(Serve(r))

ServerSpec == ServerInit /\ [][ServerNext]_serverVars /\ ServerFairness

-----------------------------------------------------------------------------
(* Properties.                                                             *)

ServerTypeOK ==
  /\ pg \in BOOLEAN /\ redis \in BOOLEAN /\ connected \in BOOLEAN
  /\ proc \in {"down", "starting", "up"}
  /\ todo # <<>> => proc = "starting"
  /\ client \in {"closed", "connecting", "ready", "broken"}
  /\ client \in {"connecting", "ready", "broken"} => proc # "down"
  /\ proc = "up" => client # "closed"
  /\ retries \in 0..MaxRetries
  /\ \A a \in Actors :
       /\ cmd[a] = "queued" => client = "connecting"
       /\ cmd[a] = "sent" => client \in {"ready", "broken"}
  /\ \A r \in Slots : req[r].pc # "idle" \/ r \in checking => proc = "up"

\* A process that listens has reached both databases in its start: one that
\* lacks Postgres ends instead, and one that lacks Redis goes on waiting,
\* whichever hook comes first and whatever fails in between.
ListensConnected == proc = "up" => connected

\* Nothing but a signal, Postgres missing in the start, or the check of a device
\* that a scan left running ends the process: an outage of Redis delays the start
\* and the requests, however long it is, and one of Postgres fails requests.
OutagesSurvived ==
  [][proc # "down" /\ proc' = "down" =>
       \/ signals' > signals
       \/ proc = "starting" /\ ~pg
       \/ proc = "up" /\ checking # {}]_serverVars

\* The cache is optional: a request whose answer is an error has lost its
\* session, its place in the throttler or its rows, never only a cached user.
CacheIsOptional ==
  \A r \in Slots : req[r].error => req[r].lost \cap {"session", "throttle", "find", "handler"} # {}

\* What listens is connected, and only what the request needs can fail it.
ServerHolds == ServerTypeOK /\ ListensConnected /\ CacheIsOptional

\* Once the outages are over, every request is answered, and from some moment
\* on none with an error: nothing an outage leaves behind (a closed client, a
\* rejected or queued command) fails later requests.
ServesAgain ==
  /\ <>[](\A r \in Slots : ~req[r].error)
  /\ \A r \in Slots : req[r].pc # "idle" ~> req[r].pc = "idle"
=============================================================================
