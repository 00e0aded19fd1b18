--------------------------- MODULE OrderLifecycle ---------------------------
(***************************************************************************)
(* What the order service promises about statuses, without items, rows,    *)
(* marks or requests: scanners look at an order, and later move it.  The   *)
(* table is consulted with the status that was looked at, so a move is     *)
(* along VALID_STATUS_TRANSITIONS unless somebody wrote the status of the  *)
(* order in between, or unless it belongs to a batch, which does not ask.  *)
(* Anybody may override a status.  A move is entered in the trail, unless  *)
(* its scanner dies first.                                                 *)
(***************************************************************************)
EXTENDS OrderStatus, Sequences

CONSTANTS
  Orders,
  Scanners

VARIABLES
  opened,    \* the orders that exist
  status,    \* status[o]
  trail,     \* trail[o], the moves that were entered for order o, oldest first
  job,       \* job[w], what scanner w looked at and means to do
  moved,     \* scanners that have moved their order and not entered the move yet
  overtaken  \* scanners that mean to move an order whose status somebody else
             \* wrote since they looked at it

vars == <<opened, status, trail, job, moved, overtaken>>

Move == [from : Status, to : Status]

Job == [kind : {"scan", "batch"}, order : Orders, from : Status, to : Status]
NoJob == [kind |-> "none"]

TypeOK ==
  /\ opened \subseteq Orders
  /\ status \in [Orders -> Status]
  /\ trail \in [Orders -> Seq(Move)]
  /\ job \in [Scanners -> Job \cup {NoJob}]
  /\ moved \subseteq Scanners
  /\ overtaken \subseteq Scanners

Init ==
  /\ opened = {}
  /\ status \in [Orders -> Status]
  /\ trail = [o \in Orders |-> <<>>]
  /\ job = [w \in Scanners |-> NoJob]
  /\ moved = {}
  /\ overtaken = {}

\* The scanners that have looked at an order and not moved it yet.
Deciding(o) == {w \in Scanners : job[w] # NoJob /\ job[w].order = o /\ w \notin moved}

Open(o, s) ==
  /\ o \notin opened
  /\ opened' = opened \cup {o}
  /\ status' = [status EXCEPT ![o] = s]
  /\ UNCHANGED <<trail, job, moved, overtaken>>

\* An edit of the order, or of the pickup it belongs to.
Override(o, s) ==
  /\ o \in opened
  /\ status' = [status EXCEPT ![o] = s]
  /\ overtaken' = overtaken \cup Deciding(o)
  /\ UNCHANGED <<opened, trail, job, moved>>

Look(w, o) ==
  /\ o \in opened
  /\ job[w] = NoJob
  /\ \E kind \in {"scan", "batch"}, s \in Status :
       job' = [job EXCEPT ![w] = [kind |-> kind, order |-> o, from |-> status[o],
                                  to |-> s]]
  /\ UNCHANGED <<opened, status, trail, moved, overtaken>>

\* The move is an edge of the table from the status the scanner looked at, and
\* that is the status the order has, unless the scanner was overtaken.
AlongTable(w) ==
  /\ job[w].to \in VALID_STATUS_TRANSITIONS[job[w].from]
  /\ w \notin overtaken => status[job[w].order] = job[w].from

MoveOrder(w) ==
  /\ job[w] # NoJob
  /\ w \notin moved
  /\ job[w].kind = "batch" \/ AlongTable(w)
  /\ status' = [status EXCEPT ![job[w].order] = job[w].to]
  /\ overtaken' = (overtaken \cup Deciding(job[w].order)) \ {w}
  /\ UNCHANGED opened

EnterMove(w) ==
  /\ trail' = [trail EXCEPT ![job[w].order] =
                 Append(@, [from |-> job[w].from, to |-> job[w].to])]
  /\ job' = [job EXCEPT ![w] = NoJob]

\* A move whose entry is another statement.
Advance(w) ==
  /\ MoveOrder(w)
  /\ moved' = moved \cup {w}
  /\ UNCHANGED <<trail, job>>

Enter(w) ==
  /\ job[w] # NoJob
  /\ w \in moved
  /\ EnterMove(w)
  /\ moved' = moved \ {w}
  /\ UNCHANGED <<opened, status, overtaken>>

\* A move and its entry in one transaction.
AdvanceAndEnter(w) == MoveOrder(w) /\ EnterMove(w) /\ UNCHANGED moved

\* A scanner has nothing to move, or dies: a move it did not enter stays without.
Leave(w) ==
  /\ job[w] # NoJob
  /\ job' = [job EXCEPT ![w] = NoJob]
  /\ moved' = moved \ {w}
  /\ overtaken' = overtaken \ {w}
  /\ UNCHANGED <<opened, status, trail>>

Scan(w) == Advance(w) \/ Enter(w) \/ AdvanceAndEnter(w) \/ Leave(w)

Next ==
  \/ \E w \in Scanners : Scan(w)
  \/ \E w \in Scanners, o \in Orders : Look(w, o)
  \/ \E o \in Orders, s \in Status : Open(o, s) \/ Override(o, s)

Spec == Init /\ [][Next]_vars

\* A delivered, cancelled or returned order leaves that status in three ways
\* only: somebody overrides it, a batch moves it, or a scanner moves it that
\* was overtaken after it had looked at another status.
LeavesTerminal(o) ==
  \/ \E s \in Status : Override(o, s)
  \/ \E w \in Scanners :
       /\ MoveOrder(w)
       /\ job[w].order = o
       /\ job[w].kind = "batch" \/ (w \in overtaken /\ job[w].from # status[o])

TerminalIsSticky ==
  [][\A o \in opened :
       status[o] \in Terminal /\ status'[o] # status[o] => LeavesTerminal(o)]_vars
=============================================================================
