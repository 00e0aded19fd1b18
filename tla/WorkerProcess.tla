---------------------------- MODULE WorkerProcess ----------------------------
(***************************************************************************)
(* One worker of src/common/services/cluster.service.ts, seen from inside: *)
(* the middleware that counts what it serves, what it does when the        *)
(* primary tells it to drain or to shut down, and the calls of getStats it *)
(* makes to the primary.  The primary is the environment: it sends these   *)
(* two messages in any order, and answers late or never.                   *)
(*                                                                         *)
(* A connection is none, fresh (nothing came on it yet), idle (kept after  *)
(* a response) or has one request: arrived while the parsers, the session  *)
(* store and CORS, which come before the counter, work on it, busy once it *)
(* is counted, lost when its client closes it before that.                 *)
(***************************************************************************)
EXTENDS Integers, FiniteSets

CONSTANTS
  Connections,
  Calls,           \* message ids; generateMessageId makes none twice
  MaxMessages      \* bound: messages, signals, exceptions and counts of lost requests

ASSUME WorkerProcessAssumption == IsFiniteSet(Connections) /\ MaxMessages \in Nat

VARIABLES
  conn,
  activeConnections,
  listening,       \* the HTTP server accepts connections
  drains,          \* checkDrained intervals, by the count they look at
  reported,        \* a report said drained
  unseen,          \* connections no count included when a drain began
  graceful,        \* gracefulExit is polling
  forced,          \* the timer that ends the process is set
  promise,         \* of requestStatsFromPrimary
  pendingMessages,
  armed,           \* ids whose timeout is set
  asked,           \* get-stats messages on their way
  answers,         \* stats-response messages on their way
  exit,            \* how the process ended
  cut,             \* connections with a request then
  messages

http == <<conn, activeConnections, listening, unseen>>
draining == <<drains, reported>>
exiting == <<graceful, forced>>
channel == <<asked, answers>>
stats == <<promise, pendingMessages, armed, channel>>
ended == <<exit, cut>>
workerVars == <<http, draining, exiting, stats, ended, messages>>

Alive == exit = "no"
Busy == {c \in Connections : conn[c] = "busy"}
Uncounted == {c \in Connections : conn[c] = "arrived"}
Unused == {c \in Connections : conn[c] = "fresh"}

WorkerInit ==
  /\ conn = [c \in Connections |-> "none"]
  /\ activeConnections = 0
  /\ listening = TRUE
  /\ drains = {}
  /\ reported = FALSE
  /\ unseen = {}
  /\ graceful = FALSE
  /\ forced = FALSE
  /\ promise = [i \in Calls |-> "none"]
  /\ pendingMessages = {}
  /\ armed = {}
  /\ asked = {}
  /\ answers = {}
  /\ exit = "no"
  /\ cut = {}
  /\ messages = 0

-----------------------------------------------------------------------------
(* Connections and the request counter.                                    *)

Message == messages < MaxMessages /\ messages' = messages + 1

Connect(c) ==
  /\ Alive /\ listening /\ conn[c] = "none"
  /\ conn' = [conn EXCEPT ![c] = "fresh"]
  /\ UNCHANGED <<activeConnections, listening, unseen, draining, exiting, stats,
                 ended, messages>>

\* The end of a connection that carries no request, by either side.
Hangup(c) ==
  /\ Alive /\ conn[c] \in {"fresh", "idle"}
  /\ conn' = [conn EXCEPT ![c] = "none"]
  /\ UNCHANGED <<activeConnections, listening, unseen, draining, exiting, stats,
                 ended, messages>>

Request(c) ==
  /\ Alive /\ conn[c] \in {"fresh", "idle"}
  /\ conn' = [conn EXCEPT ![c] = "arrived"]
  /\ UNCHANGED <<activeConnections, listening, unseen, draining, exiting, stats,
                 ended, messages>>

\* The middleware of setupRequestCounter, behind that of main.ts.
Count(c) ==
  /\ Alive /\ conn[c] = "arrived"
  /\ conn' = [conn EXCEPT ![c] = "busy"]
  /\ activeConnections' = activeConnections + 1
  /\ UNCHANGED <<listening, unseen, draining, exiting, stats, ended, messages>>

\* What comes before the counter answers by itself (a preflight, a body that
\* does not parse), or the client closes the connection meanwhile.
FinishUncounted(c) ==
  /\ Alive /\ conn[c] = "arrived"
  /\ \E next \in {"idle", "none", "lost"} : conn' = [conn EXCEPT ![c] = next]
  /\ UNCHANGED <<activeConnections, listening, unseen, draining, exiting, stats,
                 ended, messages>>

\* The counter may still be called for a response that has closed: its events
\* are over, and nothing will count it down.
CountLost(c) ==
  /\ Alive /\ conn[c] = "lost"
  /\ conn' = [conn EXCEPT ![c] = "none"]
  /\ \/ Message /\ activeConnections' = activeConnections + 1
     \/ UNCHANGED <<activeConnections, messages>>
  /\ UNCHANGED <<listening, unseen, draining, exiting, stats, ended>>

\* The first event of finish and close removes the listener of both.
onFinish(n) == n - 1

\* The response is sent, and the connection kept or closed; or it is closed
\* before.
Finish(c) ==
  /\ Alive /\ conn[c] = "busy"
  /\ \E next \in {"idle", "none"} : conn' = [conn EXCEPT ![c] = next]
  /\ activeConnections' = onFinish(activeConnections)
  /\ UNCHANGED <<listening, unseen, draining, exiting, stats, ended, messages>>

-----------------------------------------------------------------------------
(* The message drain.                                                      *)

\* server.close(): no new connections; idle ones end, but not those that have
\* not sent anything yet.
closeServer ==
  /\ listening' = FALSE
  /\ conn' = [c \in Connections |-> IF conn[c] = "idle" THEN "none" ELSE conn[c]]
  /\ unseen' = Uncounted \cup (IF listening THEN Unused ELSE unseen)
  /\ UNCHANGED activeConnections

\* workerState is made when the message comes: its count never changes.
initiateDraining ==
  /\ Alive /\ Message
  /\ closeServer
  /\ drains' = drains \cup {activeConnections}
  /\ UNCHANGED <<reported, exiting, stats, ended>>

\* checkDrained.
CheckDrained ==
  /\ Alive
  /\ \E n \in drains : n <= 0 /\ drains' = drains \ {n}
  /\ reported' = TRUE
  /\ UNCHANGED <<http, exiting, stats, ended, messages>>

\* drainTimeout only ends the interval.
DrainTimeout ==
  /\ Alive
  /\ \E n \in drains : drains' = drains \ {n}
  /\ UNCHANGED <<reported, http, exiting, stats, ended, messages>>

-----------------------------------------------------------------------------
(* Shutdown.                                                               *)

\* Rejects what is pending.
cleanup ==
  /\ promise' = [i \in Calls |-> IF i \in pendingMessages THEN "rejected" ELSE promise[i]]
  /\ pendingMessages' = {}
  /\ armed' = {}
  /\ UNCHANGED channel

Exits(how) ==
  /\ exit' = how
  /\ cut' = Busy \cup Uncounted

\* gracefulExit, when nothing is counted.
ExitsAtOnce == Exits("graceful") /\ UNCHANGED exiting
\* Otherwise it looks again every second at the count of the message, so that
\* only the timer of 8 s ends the process.
ExitsIfIdle ==
  \/ activeConnections <= 0 /\ Exits("graceful") /\ UNCHANGED exiting
  \/ activeConnections > 0 /\ graceful' = TRUE /\ forced' = TRUE /\ UNCHANGED ended

initiateWorkerShutdown ==
  /\ Alive /\ Message
  /\ cleanup
  /\ ExitsIfIdle
  /\ UNCHANGED <<http, draining>>

\* Only once the requests have ended.
ForceExitWhenIdle ==
  /\ Alive /\ forced /\ activeConnections <= 0
  /\ Exits("forced")
  /\ UNCHANGED <<http, draining, exiting, stats, messages>>

ForceExit ==
  /\ Alive /\ forced
  /\ Exits("forced")
  /\ UNCHANGED <<http, draining, exiting, stats, messages>>

\* SIGTERM cleans up and sets a timer, as an uncaught exception does.
Terminate ==
  /\ Alive /\ Message
  /\ cleanup \/ UNCHANGED stats
  /\ forced' = TRUE
  /\ UNCHANGED <<graceful, http, draining, ended>>

-----------------------------------------------------------------------------
(* getStats in a worker.                                                   *)

\* The entry that settles the promise, and its timer.
pends(i) ==
  /\ pendingMessages' = pendingMessages \cup {i}
  /\ armed' = armed \cup {i}

requestStatsFromPrimary(i) ==
  /\ Alive /\ promise[i] = "none"
  /\ promise' = [promise EXCEPT ![i] = "waiting"]
  /\ pends(i)
  /\ asked' = asked \cup {i}
  /\ UNCHANGED <<answers, http, draining, exiting, ended, messages>>

\* Of the primary: it answers, or the answer cannot be sent.
handleStatsRequest(i) ==
  /\ Alive /\ i \in asked
  /\ asked' = asked \ {i}
  /\ answers' \in {answers, answers \cup {i}}
  /\ UNCHANGED <<promise, pendingMessages, armed, http, draining, exiting, ended,
                 messages>>

handleStatsResponse(i) ==
  IF i \in pendingMessages
  THEN /\ promise' = [promise EXCEPT ![i] = "resolved"]
       /\ pendingMessages' = pendingMessages \ {i}
       /\ armed' = armed \ {i}
  ELSE UNCHANGED <<promise, pendingMessages, armed>>

StatsResponse(i) ==
  /\ Alive /\ i \in answers
  /\ handleStatsResponse(i)
  /\ answers' = answers \ {i}
  /\ UNCHANGED <<asked, http, draining, exiting, ended, messages>>

rejectOnTimeout(i) ==
  /\ promise' = [promise EXCEPT ![i] = "rejected"]
  /\ pendingMessages' = pendingMessages \ {i}
  /\ armed' = armed \ {i}

StatsTimeout(i) ==
  /\ Alive /\ i \in armed
  /\ rejectOnTimeout(i)
  /\ UNCHANGED <<channel, http, draining, exiting, ended, messages>>

-----------------------------------------------------------------------------
handlePrimaryMessage ==
  \/ initiateDraining
  \/ initiateWorkerShutdown
  \/ \E i \in Calls : StatsResponse(i)

WorkerNext ==
  \/ handlePrimaryMessage
  \/ CheckDrained \/ DrainTimeout \/ ForceExit \/ Terminate
  \/ \E c \in Connections :
       \/ Connect(c) \/ Hangup(c) \/ Request(c) \/ Count(c) \/ Finish(c)
       \/ FinishUncounted(c) \/ CountLost(c)
  \/ \E i \in Calls :
       requestStatsFromPrimary(i) \/ handleStatsRequest(i) \/ StatsTimeout(i)

WorkerSpec == WorkerInit /\ [][WorkerNext]_workerVars

\* Timers fire.
WorkerFairness ==
  /\ WF_workerVars(ForceExit)
  /\ \A i \in Calls : WF_workerVars(StatsTimeout(i))

-----------------------------------------------------------------------------
(* Properties.                                                             *)

WorkerTypeOK ==
  /\ conn \in [Connections -> {"none", "fresh", "idle", "arrived", "busy", "lost"}]
  /\ activeConnections \in Nat
  /\ listening \in BOOLEAN
  /\ drains \subseteq Nat
  /\ reported \in BOOLEAN
  /\ unseen \subseteq Connections
  /\ graceful \in BOOLEAN /\ forced \in BOOLEAN
  /\ promise \in [Calls -> {"none", "waiting", "resolved", "rejected"}]
  /\ pendingMessages \subseteq Calls
  /\ armed \subseteq pendingMessages
  /\ asked \subseteq Calls /\ answers \subseteq Calls
  /\ exit \in {"no", "graceful", "forced"}
  /\ cut \subseteq Connections
  /\ messages \in 0..MaxMessages

\* A worker that has reported that it drained still serves, but only on
\* connections a drain could not count when it began: they had not sent anything
\* yet, or their request had not come through the middleware before the counter.
\* Of the counted ones none is left, although the count looked at is an old one.
DrainedServesUnseen == reported => Busy \cup Uncounted \subseteq unseen

\* A worker that leaves of itself cuts no counted request short, only those that
\* have not reached the counter; a counted one ends with the timers.
GracefulExitCutsUncounted == exit = "graceful" => cut \subseteq Uncounted

\* A call of getStats is settled once, by the answer, the timeout or the
\* shutdown, whichever is first: as long as its promise waits it can still be
\* settled, and afterwards nothing of it is left for a late answer.
EntryWhileWaiting ==
  Alive => \A i \in Calls :
    /\ i \in pendingMessages <=> promise[i] = "waiting"
    /\ i \in armed <=> promise[i] = "waiting"

\* What a worker reports, answers and settles is so when it does it, although
\* the counts it looks at were copied earlier.
WorkerHolds ==
  WorkerTypeOK /\ DrainedServesUnseen /\ GracefulExitCutsUncounted /\ EntryWhileWaiting

\* Every call of getStats settles, unless the process ends first.
StatsCallsSettle ==
  \A i \in Calls : promise[i] = "waiting" ~> (promise[i] # "waiting" \/ ~Alive)

\* A worker told to shut down ends, however long its requests take.
ShutdownObeyed == graceful ~> ~Alive

\* Neither a call nor the end of the process waits for ever on a count or an
\* answer that will not come any more.
WorkerSettles == StatsCallsSettle /\ ShutdownObeyed
=============================================================================
