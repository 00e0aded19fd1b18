------------------------ MODULE RequestPipeline_proofs ------------------------
(***************************************************************************)
(* Theorems about RequestPipeline, for any users, sessions, requests in    *)
(* flight and workloads, and any number of writes and faults: what a       *)
(* destroyed session is worth, what the audit log encloses, and which      *)
(* cached answers may be stale.                                            *)
(***************************************************************************)
EXTENDS RequestPipeline, SequenceTheorems, TLAPS

-----------------------------------------------------------------------------
(* The inductive invariant.                                                *)

PCs == {"idle", "guard", "find", "fill", "handler", "read", "set", "evict", "edit",
        "after", "log", "answer"}

Slot == [op : Ops \cup {"none"}, pc : PCs, session : Sessions \cup {None},
         user : Users \cup {None}, target : Keys \cup {None}, seen : Nat, late : BOOLEAN,
         todo : Seq(SUBSET Keys), before : Nat, mine : Nat, after : Nat]

\* A request knows its session, user and key.  What it has read of the table is
\* what the table said then; a reader that is not late knows what it says now.
\* What it knows of the order it has read in the order of its steps.
SlotOK(q) ==
  /\ q.pc # "idle" => /\ q.session \in Sessions \ fresh
                      /\ q.user \in Users /\ q.target \in Keys
                      /\ q.op \in {"put", "delete"} => q.target \in Users
  /\ q.pc = "fill" => q.seen <= table[q.user]
  /\ q.pc = "set" => q.seen <= table[q.target] /\ (~q.late => q.seen = table[q.target])
  /\ q.pc = "edit" => q.before <= row
  /\ q.pc = "after" => q.before < q.mine /\ q.mine <= row
  /\ q.pc = "log" => q.before < q.mine /\ q.mine <= row /\ q.mine <= q.after

SlotsOK ==
  /\ req \in [Requests -> Slot]
  /\ \A r \in Requests : SlotOK(req[r])

SessionsOK ==
  /\ store \in [Sessions -> Users \cup {None}]
  /\ fresh \subseteq {s \in Sessions : store[s] = None}
  /\ refreshed \subseteq ended
  /\ ended \subseteq Sessions \ fresh
  /\ LogoutHolds

\* Every write is one of what the page shows, so the bound on writes is one on
\* what every key counts.  No cache is ahead of the tables.
UsersOK ==
  /\ authCache \in [Users -> Nat]
  /\ \A u \in Users : authCache[u] <= table[u]
  /\ respCache \in [Keys -> [data : Nat, late : BOOLEAN]]
  /\ table \in [Keys -> 1..MaxWrites + 1]
  /\ \A k \in Keys : table[k] <= table[Page]
  /\ silent \in [Keys -> Nat]
  /\ \A k \in Keys : silent[k] <= table[k] /\ respCache[k].data <= table[k]
  /\ gone \cup inactive \subseteq Users

AuditOK ==
  /\ row \in 0..MaxWrites
  /\ workload \in Workloads
  /\ \A e \in log : e.mine \in 1..row /\ e.before < e.mine /\ e.mine <= e.after

\* A key that an invalidation under way has yet to drop.
Due(k) ==
  \E r \in Requests : req[r].pc = "evict" /\ \E i \in DOMAIN req[r].todo : k \in req[r].todo[i]

\* Until something fails, a cached answer that is stale is late, was read before a
\* write of a tenant, or will be dropped: an invalidation names every key that its
\* write has changed.
StaleIsDue ==
  faults = 0 =>
    \A k \in Keys : \/ respCache[k] = NoEntry \/ respCache[k].late
                    \/ respCache[k].data = table[k] \/ respCache[k].data < silent[k]
                    \/ Due(k)

Inv ==
  /\ SlotsOK /\ SessionsOK /\ UsersOK /\ AuditOK /\ StaleIsDue
  /\ faults \in 0..MaxFaults

LEMMA IdleIsSlot == Idle \in Slot
BY DEF Idle, Slot, PCs

LEMMA InitHolds == ASSUME Init PROVE Inv
<1> USE DEF Init
<1>1. SlotsOK
  BY IdleIsSlot DEF SlotsOK, SlotOK, Idle
<1>2. SessionsOK
  BY DEF SessionsOK, LogoutHolds
<1>3. UsersOK
  BY PipelineAssumption DEF PipelineAssumption, UsersOK, NoEntry, Keys
<1>4. AuditOK /\ faults \in 0..MaxFaults
  BY PipelineAssumption DEF PipelineAssumption, AuditOK
<1>5. StaleIsDue
  BY DEF StaleIsDue
<1>6. QED
  BY <1>1, <1>2, <1>3, <1>4, <1>5 DEF Inv

-----------------------------------------------------------------------------
(* What a step leaves alone.                                               *)

LEMMA SameSessions == ASSUME SessionsOK, UNCHANGED sessions PROVE SessionsOK'
BY DEF SessionsOK, sessions, LogoutHolds

LEMMA SameAudit == ASSUME AuditOK, UNCHANGED audit PROVE AuditOK'
BY DEF AuditOK, audit

LEMMA SameUsers == ASSUME UsersOK, UNCHANGED <<authCache, respCache, users>> PROVE UsersOK'
BY DEF UsersOK, users

\* A request that takes a step alone.
LEMMA SlotMoves ==
  ASSUME SlotsOK, NEW r \in Requests, NEW q \in Slot, req' = [req EXCEPT ![r] = q], SlotOK(q),
         UNCHANGED <<fresh, table, row>>
  PROVE  SlotsOK'
<1>1. req' \in [Requests -> Slot]
  BY DEF SlotsOK
<1>2. \A x \in Requests : SlotOK(req'[x])
  BY DEF SlotsOK
<1>3. QED
  BY <1>1, <1>2 DEF SlotsOK, SlotOK

LEMMA Moves ==
  ASSUME req \in [Requests -> Slot], NEW r \in Requests, NEW pc \in PCs, Goto(r, pc)
  PROVE  /\ [req[r] EXCEPT !.pc = pc, !.seen = 0, !.late = FALSE] \in Slot
         /\ req' = [req EXCEPT ![r] = [req[r] EXCEPT !.pc = pc, !.seen = 0, !.late = FALSE]]
BY DEF Goto, Slot

\* No cached answer becomes stale, and no invalidation loses a key.
LEMMA StillDue ==
  ASSUME StaleIsDue, SlotsOK, UNCHANGED <<respCache, table, silent>>, faults' = 0 => faults = 0,
         NEW r \in Requests, req[r].pc # "evict" \/ req[r].todo = <<>>,
         \A x \in Requests \ {r} : req'[x] = req[x]
  PROVE  StaleIsDue'
<1>1. \A k : Due(k) => Due(k)'
  <2> SUFFICES ASSUME NEW k, NEW x \in Requests, req[x].pc = "evict",
                      NEW i \in DOMAIN req[x].todo, k \in req[x].todo[i]
               PROVE  Due(k)'
    BY DEF Due
  <2>1. x # r
    OBVIOUS
  <2>2. QED
    BY <2>1 DEF Due
<1>2. QED
  BY <1>1 DEF StaleIsDue

LEMMA Faults ==
  ASSUME faults \in 0..MaxFaults
  PROVE  /\ Fault => faults' \in 0..MaxFaults /\ faults' # 0
         /\ UNCHANGED faults => faults' \in 0..MaxFaults
BY PipelineAssumption DEF PipelineAssumption, Fault

\* A request goes on to a place where nothing is required of it but what holds
\* of every request in flight, and no table is written.
LEMMA GoesOn ==
  ASSUME Inv, NEW r \in Requests, NEW pc \in {"handler", "find", "read", "answer"},
         Goto(r, pc), req[r].pc # "idle", req[r].pc # "evict" \/ req[r].todo = <<>>,
         UNCHANGED <<fresh, table, row>>
  PROVE  /\ SlotsOK'
         /\ UNCHANGED <<respCache, silent>> /\ (faults' = 0 => faults = 0) => StaleIsDue'
<1> DEFINE q == [req[r] EXCEPT !.pc = pc, !.seen = 0, !.late = FALSE]
<1>1. q \in Slot /\ req' = [req EXCEPT ![r] = q]
  <2>1. pc \in PCs /\ req \in [Requests -> Slot]
    BY DEF Inv, SlotsOK, PCs
  <2>2. QED
    BY <2>1, Moves
<1>2. SlotOK(q)
  BY DEF Inv, SlotsOK, SlotOK, Slot
<1>3. SlotsOK'
  BY <1>1, <1>2, SlotMoves DEF Inv
<1>4. ASSUME UNCHANGED <<respCache, silent>>, faults' = 0 => faults = 0
      PROVE  StaleIsDue'
  BY <1>1, <1>4, StillDue DEF Inv, SlotsOK
<1>5. QED
  BY <1>3, <1>4

-----------------------------------------------------------------------------
(* The steps.                                                              *)

LEMMA LoginHolds ==
  ASSUME Inv, NEW s \in Sessions, NEW u \in Users, NEW old \in Sessions \cup {None},
         Login(s, u, old)
  PROVE  Inv'
<1> USE DEF Login
<1>1. SlotsOK'
  <2>1. \A q \in Slot : SlotOK(q) /\ UNCHANGED <<users, audit>> /\ q.session # s => SlotOK(q)'
    BY DEF SlotOK, users, audit
  <2>2. \A r \in Requests : SlotOK(req[r])'
    <3> SUFFICES ASSUME NEW r \in Requests PROVE SlotOK(req[r])'
      OBVIOUS
    <3>1. SlotOK(req[r])
      BY DEF Inv, SlotsOK
    <3>2. QED
      BY <3>1 DEF SlotOK, users, audit
  <2>3. QED
    BY <2>2 DEF Inv, SlotsOK
<1>2. SessionsOK'
  <2>1. None \notin Sessions /\ s \in fresh
    BY PipelineAssumption DEF PipelineAssumption
  <2>2. QED
    BY <2>1 DEF Inv, SessionsOK, LogoutHolds
<1>3. StaleIsDue'
  BY DEF Inv, StaleIsDue, Due, users
<1>4. QED
  BY <1>1, <1>2, <1>3, SameAudit, SameUsers DEF Inv

LEMMA ArriveHolds ==
  ASSUME Inv, NEW r \in Requests, NEW s \in Sessions, NEW op \in workload.ops, NEW k \in Keys,
         Arrive(r, s, op, k)
  PROVE  Inv'
<1> USE DEF Arrive
<1> DEFINE q == [Idle EXCEPT !.op = op, !.pc = "guard", !.session = s, !.user = store[s],
                             !.target = k]
<1>1. op \in Ops
  BY WorkloadsAssumption DEF Inv, AuditOK
<1>2. s \in Sessions \ fresh /\ store[s] \in Users
  BY DEF Inv, SessionsOK
<1>3. q \in Slot /\ SlotOK(q)
  <2>1. ASSUME NEW z \in Slot
        PROVE  [z EXCEPT !.op = op, !.pc = "guard", !.session = s, !.user = store[s],
                         !.target = k] \in Slot
    BY <1>1, <1>2 DEF Slot, PCs
  <2>2. q \in Slot
    BY <2>1, IdleIsSlot
  <2>3. q.pc = "guard" /\ q.session = s /\ q.user = store[s] /\ q.target = k
    BY IdleIsSlot DEF Slot
  <2>4. QED
    BY <1>2, <2>2, <2>3 DEF SlotOK
<1>4. SlotsOK' /\ StaleIsDue'
  BY <1>3, SlotMoves, StillDue DEF Inv, SlotsOK, sessions, users, audit
<1>5. QED
  BY <1>4, SameSessions, SameUsers, SameAudit DEF Inv

LEMMA GuardHolds ==
  ASSUME Inv, NEW r \in Requests, GuardHit(r) \/ GuardMiss(r)
  PROVE  Inv'
<1>1. CASE GuardHit(r)
  <2> USE <1>1 DEF GuardHit
  <2>1. SlotsOK' /\ StaleIsDue'
    BY GoesOn DEF sessions, users, audit
  <2>2. QED
    BY <2>1, SameSessions, SameUsers, SameAudit DEF Inv
<1>2. CASE GuardMiss(r)
  <2> USE <1>2 DEF GuardMiss
  <2>1. faults' \in 0..MaxFaults /\ (faults' = 0 => faults = 0)
    BY Faults DEF Inv
  <2>2. SlotsOK' /\ StaleIsDue'
    BY <2>1, GoesOn DEF sessions, users, audit
  <2>3. QED
    BY <2>1, <2>2, SameSessions, SameUsers, SameAudit DEF Inv
<1>3. QED
  BY <1>1, <1>2

LEMMA FindUserHolds == ASSUME Inv, NEW r \in Requests, FindUser(r) PROVE Inv'
<1> USE DEF FindUser
<1>1. CASE req[r].user \in gone \cup inactive
  <2>1. SlotsOK' /\ StaleIsDue'
    BY <1>1, GoesOn DEF sessions, users, audit
  <2>2. QED
    BY <2>1, SameSessions, SameUsers, SameAudit DEF Inv
<1>2. CASE req[r].user \notin gone \cup inactive
  <2> DEFINE n == table[req[r].user]
             q == [req[r] EXCEPT !.pc = "fill", !.seen = n]
  <2>1. req[r] \in Slot /\ SlotOK(req[r])
    BY DEF Inv, SlotsOK
  <2>2. n \in Nat
    BY <2>1, PipelineAssumption DEF PipelineAssumption, Inv, UsersOK, SlotOK, Keys
  <2>3. req' = [req EXCEPT ![r] = q]
    BY <1>2 DEF Inv, SlotsOK
  <2>4. q \in Slot /\ SlotOK(q)
    <3>1. q \in Slot
      BY <2>1, <2>2 DEF Slot, PCs
    <3>2. /\ req[r].user \in Users /\ req[r].session \in Sessions \ fresh
          /\ req[r].target \in Keys
          /\ req[r].op \in {"put", "delete"} => req[r].target \in Users
      BY <2>1 DEF SlotOK
    <3>3. /\ q.op = req[r].op
          /\ q.pc = "fill" /\ q.seen = n /\ q.user = req[r].user
          /\ q.session = req[r].session /\ q.target = req[r].target
      BY <2>1 DEF Slot
    <3> HIDE DEF q
    <3>4. QED
      BY <2>2, <3>1, <3>2, <3>3 DEF SlotOK
  <2>5. SlotsOK' /\ StaleIsDue'
    BY <2>3, <2>4, SlotMoves, StillDue DEF Inv, SlotsOK, sessions, users, audit
  <2>6. QED
    BY <2>5, SameSessions, SameUsers, SameAudit DEF Inv
<1>3. QED
  BY <1>1, <1>2

LEMMA FillHolds == ASSUME Inv, NEW r \in Requests, Fill(r) PROVE Inv'
<1> USE DEF Fill
<1>1. faults' \in 0..MaxFaults /\ (faults' = 0 => faults = 0)
  BY Faults DEF Inv
<1>2. SlotsOK' /\ StaleIsDue'
  BY <1>1, GoesOn DEF sessions, users, audit
<1>3. req[r] \in Slot /\ req[r].user \in Users /\ req[r].seen <= table[req[r].user]
  BY DEF Inv, SlotsOK, SlotOK
<1>4. UsersOK'
  <2>1. CASE UNCHANGED authCache
    BY <2>1, SameUsers DEF Inv
  <2>2. CASE authCache' = [authCache EXCEPT ![req[r].user] = req[r].seen]
    BY <1>3, <2>2 DEF Slot, Inv, UsersOK, users
  <2>3. QED
    BY <2>1, <2>2
<1>5. QED
  BY <1>1, <1>2, <1>4, SameSessions, SameAudit DEF Inv

LEMMA RefreshHolds == ASSUME Inv, NEW r \in Requests, Refresh(r) PROVE Inv'
<1> USE DEF Refresh, At
<1>1. SlotsOK' /\ StaleIsDue'
  BY GoesOn DEF users, audit
<1>2. req[r].session \in Sessions \ fresh /\ req[r].user \in Users
  BY DEF Inv, SlotsOK, SlotOK
<1>3. SessionsOK'
  BY <1>2 DEF Inv, SessionsOK, LogoutHolds
<1>4. QED
  BY <1>1, <1>3, SameUsers, SameAudit DEF Inv

LEMMA LogoutSteps == ASSUME Inv, NEW r \in Requests, Logout(r) PROVE Inv'
<1> USE DEF Logout, At
<1>1. SlotsOK' /\ StaleIsDue'
  BY GoesOn DEF users, audit
<1>2. req[r].session \in Sessions \ fresh
  BY DEF Inv, SlotsOK, SlotOK
<1>3. SessionsOK'
  BY <1>2 DEF Inv, SessionsOK, LogoutHolds
<1>4. QED
  BY <1>1, <1>3, SameUsers, SameAudit DEF Inv

LEMMA AnswerHolds == ASSUME Inv, NEW r \in Requests, Answer(r) PROVE Inv'
<1> USE DEF Answer, SaveAtEnd
<1>1. SlotOK(Idle)
  BY DEF SlotOK, Idle
<1>2. SlotsOK' /\ StaleIsDue'
  BY <1>1, IdleIsSlot, SlotMoves, StillDue DEF Inv, SlotsOK, users, audit
<1>3. QED
  BY <1>2, SameSessions, SameUsers, SameAudit DEF Inv, sessions

LEMMA CacheHitHolds ==
  ASSUME Inv, NEW r \in Requests, CacheHit(r) \/ CacheMiss(r)
  PROVE  Inv'
<1> USE DEF At
<1>1. CASE CacheHit(r)
  <2> USE <1>1 DEF CacheHit
  <2>1. SlotsOK' /\ StaleIsDue'
    BY GoesOn DEF sessions, users, audit
  <2>2. QED
    BY <2>1, SameSessions, SameUsers, SameAudit DEF Inv
<1>2. CASE CacheMiss(r)
  <2> USE <1>2 DEF CacheMiss
  <2>1. faults' \in 0..MaxFaults /\ (faults' = 0 => faults = 0)
    BY Faults DEF Inv
  <2>2. SlotsOK' /\ StaleIsDue'
    BY <2>1, GoesOn DEF sessions, users, audit
  <2>3. QED
    BY <2>1, <2>2, SameSessions, SameUsers, SameAudit DEF Inv
<1>3. QED
  BY <1>1, <1>2

LEMMA ReadHolds == ASSUME Inv, NEW r \in Requests, Read(r) PROVE Inv'
<1> USE DEF Read, At
<1> DEFINE n == table[req[r].target]
           q == [req[r] EXCEPT !.pc = "set", !.seen = n, !.late = FALSE]
<1>1. req[r] \in Slot /\ SlotOK(req[r])
  BY DEF Inv, SlotsOK
<1>2. n \in Nat
  BY <1>1, PipelineAssumption DEF PipelineAssumption, Inv, UsersOK, SlotOK
<1>3. req' = [req EXCEPT ![r] = q]
  BY DEF Inv, SlotsOK
<1>4. q \in Slot /\ SlotOK(q)
  <2>1. q \in Slot
    BY <1>1, <1>2 DEF Slot, PCs
  <2>2. /\ q.pc = "set" /\ q.seen = n /\ q.op = req[r].op /\ q.session = req[r].session
        /\ q.user = req[r].user /\ q.target = req[r].target
    BY <1>1 DEF Slot
  <2>3. /\ req[r].user \in Users /\ req[r].session \in Sessions \ fresh
        /\ req[r].target \in Keys
        /\ req[r].op \in {"put", "delete"} => req[r].target \in Users
    BY <1>1 DEF SlotOK
  <2> HIDE DEF q
  <2>4. QED
    BY <1>2, <2>1, <2>2, <2>3 DEF SlotOK
<1>5. SlotsOK' /\ StaleIsDue'
  BY <1>3, <1>4, SlotMoves, StillDue DEF Inv, SlotsOK, sessions, users, audit
<1>6. QED
  BY <1>5, SameSessions, SameUsers, SameAudit DEF Inv

LEMMA CacheSetHolds == ASSUME Inv, NEW r \in Requests, CacheSet(r) PROVE Inv'
<1> USE DEF CacheSet, At
<1> DEFINE q == req[r]
           k == q.target
           e == [data |-> q.seen, late |-> q.late]
<1>1. faults' \in 0..MaxFaults /\ (faults' = 0 => faults = 0)
  BY Faults DEF Inv
<1>2. q \in Slot /\ k \in Keys /\ q.seen <= table[k] /\ (~q.late => q.seen = table[k])
  BY DEF Inv, SlotsOK, SlotOK
<1>3. SlotsOK'
  BY GoesOn DEF sessions, users, audit
<1>4. UsersOK'
  <2>1. CASE UNCHANGED respCache
    BY <2>1, SameUsers DEF Inv
  <2>2. CASE respCache' = [respCache EXCEPT ![k] = e]
    <3>1. respCache' \in [Keys -> [data : Nat, late : BOOLEAN]]
      <4>1. e \in [data : Nat, late : BOOLEAN]
        BY <1>2 DEF Slot
      <4>2. QED
        BY <2>2, <4>1 DEF Inv, UsersOK
    <3>2. \A x \in Keys : respCache'[x].data <= table[x]
      BY <1>2, <2>2 DEF Inv, UsersOK
    <3>3. QED
      BY <3>1, <3>2 DEF Inv, UsersOK, users
  <2>3. QED
    BY <2>1, <2>2
<1>5. StaleIsDue'
  <2>1. CASE UNCHANGED respCache
    BY <1>1, <2>1, GoesOn DEF sessions, users, audit
  <2>2. CASE respCache' = [respCache EXCEPT ![k] = e] /\ UNCHANGED faults
    <3>1. \A x : Due(x) => Due(x)'
      <4> SUFFICES ASSUME NEW x, NEW y \in Requests, req[y].pc = "evict",
                          NEW i \in DOMAIN req[y].todo, x \in req[y].todo[i]
                   PROVE  Due(x)'
        BY DEF Due
      <4>1. y # r /\ req'[y] = req[y]
        BY DEF Goto, Inv, SlotsOK
      <4>2. QED
        BY <4>1 DEF Due
    <3>2. respCache'[k].late \/ respCache'[k].data = table[k]
      BY <1>2, <2>2 DEF Inv, UsersOK
    <3>3. \A x \in Keys : x # k => respCache'[x] = respCache[x]
      BY <2>2 DEF Inv, UsersOK
    <3>4. QED
      BY <2>2, <3>1, <3>2, <3>3 DEF Inv, StaleIsDue, users
  <2>3. QED
    BY <2>1, <2>2
<1>6. QED
  BY <1>1, <1>3, <1>4, <1>5, SameSessions, SameAudit DEF Inv
-----------------------------------------------------------------------------
(* Writes and invalidations.                                               *)

\* Every invalidation names the keys its write has changed.
LEMMA PatternsCover ==
  ASSUME NEW op \in {"post", "put", "delete"}, NEW u \in Keys
  PROVE  /\ Patterns(op, u) \in Seq(SUBSET Keys)
         /\ \A k \in Keys : \E i \in DOMAIN Patterns(op, u) : k \in Patterns(op, u)[i]
<1>1. CASE op = "post"
  BY <1>1 DEF Patterns
<1>2. CASE op = "put"
  BY <1>2 DEF Patterns
<1>3. CASE op = "delete"
  BY <1>3 DEF Patterns
<1>4. QED
  BY <1>1, <1>2, <1>3

LEMMA LateIsSlot ==
  ASSUME NEW y \in Slot, (y.pc = "set" \/ y.late) \in BOOLEAN
  PROVE  [y EXCEPT !.late = y.pc = "set" \/ @] \in Slot
BY Zenon DEF Slot

\* A write of what some keys and the page show: what is read and not yet stored is
\* late, and no table goes back.
LEMMA WritesKeep ==
  ASSUME Inv, NEW r \in Requests, NEW K \in SUBSET Keys, Page \in K, NEW q, Writes(r, K, q),
         req[r].pc = "handler", q \in Slot, q.pc \in {"answer", "evict"},
         q.session = req[r].session, q.user = req[r].user, q.target = req[r].target, q.op = req[r].op,
         \A k \in Keys : silent'[k] \in Nat /\ silent'[k] <= table'[k],
         silent' \in [Keys -> Nat],
         UNCHANGED <<sessions, authCache, respCache, inactive, audit>>
  PROVE  /\ SlotsOK' /\ UsersOK' /\ req'[r] = q
<1> USE PipelineAssumption DEF PipelineAssumption, Writes
<1>1. req \in [Requests -> Slot] /\ \A x \in Requests : SlotOK(req[x])
  BY DEF Inv, SlotsOK
<1>2. Page \in Keys
  BY DEF Keys
<1>3. table \in [Keys -> 1..MaxWrites + 1] /\ \A k \in Keys : table[k] <= table[Page]
  BY DEF Inv, UsersOK
<1>4. \A k \in Keys : table'[k] \in 1..MaxWrites + 1 /\ table[k] <= table'[k]
                      /\ table'[k] <= table'[Page]
  BY <1>2, <1>3
<1>5. UsersOK'
  <2>1. table' \in [Keys -> 1..MaxWrites + 1]
    BY <1>4
  <2>2. \A k \in Keys : table'[k] <= table'[Page]
    BY <1>4
  <2>3. \A u \in Users : authCache[u] <= table'[u]
    BY <1>3, <1>4 DEF Inv, UsersOK, Keys
  <2>4. gone' \cup inactive' \subseteq Users
    BY <1>1 DEF SlotOK, Inv, UsersOK
  <2>5. \A k \in Keys : respCache[k].data \in Nat /\ respCache[k].data <= table[k]
    BY DEF Inv, UsersOK
  <2>6. \A k \in Keys : respCache[k].data <= table'[k]
    BY <1>3, <1>4, <2>5
  <2>7. QED
    BY <2>1, <2>2, <2>3, <2>4, <2>6 DEF Inv, UsersOK
<1>6. SlotsOK'
  <2>1. ASSUME NEW x \in Requests, x # r
        PROVE  req'[x] \in Slot /\ SlotOK(req[x])'
    <3> DEFINE y == req[x]
               z == [y EXCEPT !.late = y.pc = "set" \/ @]
    <3>1. req'[x] = z
      BY <2>1
    <3>2. y \in Slot /\ SlotOK(y)
      BY <1>1
    <3>3. (y.pc = "set" \/ y.late) \in BOOLEAN
      BY <3>2 DEF Slot
    <3>4. z \in Slot
      BY <3>2, <3>3, LateIsSlot
    <3>5. LET w == req'[x] IN
          /\ w.pc = y.pc /\ w.op = y.op /\ w.session = y.session /\ w.user = y.user
          /\ w.target = y.target /\ w.seen = y.seen /\ w.before = y.before
          /\ w.mine = y.mine /\ w.after = y.after
          /\ y.pc = "set" => w.late
      BY <3>1, <3>2 DEF Slot
    <3>6. y.pc = "fill" => y.seen <= table'[y.user]
      <4>1. SUFFICES ASSUME y.pc = "fill" PROVE y.seen <= table'[y.user]
        OBVIOUS
      <4>2. y.user \in Keys /\ y.seen <= table[y.user] /\ y.seen \in Nat
        BY <3>2, <4>1 DEF SlotOK, Slot, Keys
      <4>3. table[y.user] \in Nat /\ table'[y.user] \in Nat /\ table[y.user] <= table'[y.user]
        BY <1>3, <1>4, <4>2
      <4>4. QED
        BY <4>2, <4>3
    <3>7. y.pc = "set" => y.seen <= table'[y.target]
      <4>1. SUFFICES ASSUME y.pc = "set" PROVE y.seen <= table'[y.target]
        OBVIOUS
      <4>2. y.target \in Keys /\ y.seen <= table[y.target] /\ y.seen \in Nat
        BY <3>2, <4>1 DEF SlotOK, Slot
      <4>3. /\ table[y.target] \in Nat /\ table'[y.target] \in Nat
            /\ table[y.target] <= table'[y.target]
        BY <1>3, <1>4, <4>2
      <4>4. QED
        BY <4>2, <4>3
    <3>9. SlotOK(req[x])'
      BY <3>2, <3>5, <3>6, <3>7 DEF SlotOK, sessions, audit
    <3>8. QED
      BY <3>1, <3>4, <3>9
  <2>2. req'[r] \in Slot /\ SlotOK(req[r])'
    <3>1. SlotOK(q)'
      BY <1>1 DEF SlotOK, sessions
    <3>2. req'[r] = q
      OBVIOUS
    <3>3. QED
      BY <3>1, <3>2 DEF SlotOK
  <2>3. req' \in [Requests -> Slot]
    BY <2>1, <2>2
  <2>4. QED
    BY <2>1, <2>2, <2>3 DEF SlotsOK
<1>7. QED
  BY <1>5, <1>6

\* A write of a user leaves the last write of a tenant behind.
LEMMA SilentStays ==
  ASSUME Inv, NEW r \in Requests, NEW q, Writes(r, Shown(r), q), req[r].target \in Keys,
         UNCHANGED silent
  PROVE  /\ Shown(r) \in SUBSET Keys /\ Page \in Shown(r)
         /\ silent' \in [Keys -> Nat]
         /\ \A k \in Keys : silent'[k] \in Nat /\ silent'[k] <= table'[k]
<1>1. Page \in Keys
  BY DEF Keys
<1>2. \A k \in Keys : silent[k] \in Nat /\ table[k] \in Nat /\ silent[k] <= table[k]
  BY PipelineAssumption DEF PipelineAssumption, Inv, UsersOK
<1>3. \A k \in Keys : table'[k] \in {table[k], table[k] + 1}
  BY DEF Writes
<1>4. \A k \in Keys : silent'[k] <= table'[k]
  BY <1>2, <1>3
<1>5. QED
  BY <1>1, <1>2, <1>4 DEF Shown, Inv, UsersOK

LEMMA WriteThenEvictHolds ==
  ASSUME Inv, NEW r \in Requests, WriteThenEvict(r),
         UNCHANGED <<sessions, authCache, silent, inactive, audit>>
  PROVE  Inv'
<1> USE DEF WriteThenEvict
<1> DEFINE k == req[r].target
           p == Patterns(req[r].op, k)
           q == [req[r] EXCEPT !.pc = "evict", !.todo = p]
<1>1. req \in [Requests -> Slot] /\ req[r] \in Slot /\ SlotOK(req[r])
  BY DEF Inv, SlotsOK
<1>2. k \in Keys /\ req[r].op \in {"post", "put", "delete"}
  BY <1>1 DEF SlotOK
<1>3. /\ p \in Seq(SUBSET Keys)
      /\ \A x \in Keys : \E i \in DOMAIN p : x \in p[i]
  BY <1>2, PatternsCover
<1> HIDE DEF p
<1>4. q \in Slot
  BY <1>1, <1>3 DEF Slot, PCs
<1>5. /\ q.pc = "evict" /\ q.todo = p /\ q.session = req[r].session /\ q.user = req[r].user
      /\ q.target = req[r].target /\ q.op = req[r].op
  BY <1>1 DEF Slot
<1>6. Writes(r, Shown(r), q)
  BY DEF p
<1> HIDE DEF q
<1>7. SlotsOK' /\ UsersOK' /\ req'[r] = q
  BY <1>2, <1>4, <1>5, <1>6, WritesKeep, SilentStays
<1>8. \A x \in Keys : Due(x)'
  BY <1>3, <1>5, <1>7 DEF Due
<1>9. StaleIsDue'
  BY <1>8 DEF StaleIsDue
<1>10. QED
  BY <1>7, <1>9, SameSessions, SameAudit DEF Inv

LEMMA WriteFailsHolds ==
  ASSUME Inv, NEW r \in Requests, WriteFails(r),
         UNCHANGED <<sessions, authCache, silent, inactive, audit>>
  PROVE  Inv'
<1> USE DEF WriteFails
<1>1. CASE Goto(r, "answer") /\ UNCHANGED <<users, faults>>
  <2>1. SlotsOK' /\ StaleIsDue'
    BY <1>1, GoesOn DEF sessions, users, audit
  <2>2. QED
    BY <1>1, <2>1, SameSessions, SameUsers, SameAudit DEF Inv
<1>2. CASE Fault /\ Writes(r, Shown(r), [req[r] EXCEPT !.pc = "answer"])
  <2> DEFINE q == [req[r] EXCEPT !.pc = "answer"]
  <2>1. req[r] \in Slot
    BY DEF Inv, SlotsOK
  <2>2. /\ q \in Slot /\ q.pc = "answer" /\ q.session = req[r].session
        /\ q.user = req[r].user /\ q.target = req[r].target /\ q.op = req[r].op
    BY <2>1 DEF Slot, PCs
  <2>3. Writes(r, Shown(r), q) /\ req[r].target \in Keys
    BY <1>2 DEF Inv, SlotsOK, SlotOK
  <2> HIDE DEF q
  <2>4. SlotsOK' /\ UsersOK'
    BY <2>2, <2>3, WritesKeep, SilentStays
  <2>5. faults' \in 0..MaxFaults /\ faults' # 0
    BY <1>2, Faults DEF Inv
  <2>6. QED
    BY <2>4, <2>5, SameSessions, SameAudit DEF Inv, StaleIsDue
<1>3. QED
  BY <1>1, <1>2

\* What was cached before the write of a tenant is older than it.
LEMMA TenantWriteHolds == ASSUME Inv, NEW r \in Requests, TenantWrite(r) PROVE Inv'
<1> USE DEF TenantWrite, At
<1> DEFINE q == [req[r] EXCEPT !.pc = "answer"]
<1>1. req[r] \in Slot
  BY DEF Inv, SlotsOK
<1>2. /\ q \in Slot /\ q.pc = "answer" /\ q.session = req[r].session
      /\ q.user = req[r].user /\ q.target = req[r].target /\ q.op = req[r].op
  BY <1>1 DEF Slot, PCs
<1>3. PICK M \in SUBSET Users :
        /\ Writes(r, M \cup {Page}, q)
        /\ silent' = [k \in Keys |-> IF k \in M \cup {Page} THEN table[k] + 1 ELSE silent[k]]
  OBVIOUS
<1> DEFINE K == M \cup {Page}
<1> HIDE DEF q
<1>4. K \in SUBSET Keys /\ Page \in K
  BY DEF Keys
<1>5. \A k \in Keys : /\ silent[k] \in Nat /\ table[k] \in Nat /\ silent[k] <= table[k]
                      /\ respCache[k].data \in Nat /\ respCache[k].data <= table[k]
  BY PipelineAssumption DEF PipelineAssumption, Inv, UsersOK
<1>6. \A k \in Keys : /\ table'[k] = IF k \in K THEN table[k] + 1 ELSE table[k]
                      /\ silent'[k] = IF k \in K THEN table[k] + 1 ELSE silent[k]
  BY <1>3 DEF Writes
<1>7. \A k \in Keys : silent'[k] \in Nat /\ silent'[k] <= table'[k]
  BY <1>5, <1>6
<1>8. silent' \in [Keys -> Nat]
  BY <1>3, <1>7
<1>9. SlotsOK' /\ UsersOK' /\ req'[r] = q
  BY <1>2, <1>3, <1>4, <1>7, <1>8, WritesKeep
<1>10. \A k \in Keys : Due(k) => Due(k)'
  <2> SUFFICES ASSUME NEW k \in Keys, NEW x \in Requests, req[x].pc = "evict",
                      NEW i \in DOMAIN req[x].todo, k \in req[x].todo[i]
               PROVE  Due(k)'
    BY DEF Due
  <2>1. x # r /\ req[x] \in Slot
    BY DEF Inv, SlotsOK
  <2>2. req'[x] = [req[x] EXCEPT !.late = req[x].pc = "set" \/ @]
    BY <1>3, <2>1 DEF Writes
  <2>3. req'[x].pc = "evict" /\ req'[x].todo = req[x].todo
    BY <2>1, <2>2 DEF Slot
  <2>4. QED
    BY <2>3 DEF Due
<1>11. StaleIsDue'
  <2> SUFFICES ASSUME faults = 0, NEW k \in Keys
               PROVE  \/ respCache[k] = NoEntry \/ respCache[k].late
                      \/ respCache[k].data = table'[k] \/ respCache[k].data < silent'[k]
                      \/ Due(k)'
    BY DEF StaleIsDue
  <2>1. CASE k \in K
    <3>1. respCache[k].data < silent'[k]
      BY <1>5, <1>6, <2>1
    <3>2. QED
      BY <3>1
  <2>2. CASE k \notin K
    BY <1>6, <1>10, <2>2 DEF Inv, StaleIsDue
  <2>3. QED
    BY <2>1, <2>2
<1>12. QED
  BY <1>9, <1>11, SameSessions, SameAudit DEF Inv

LEMMA EvictHolds == ASSUME Inv, NEW r \in Requests, Evict(r) PROVE Inv'
<1> USE DEF Evict
<1> DEFINE t == req[r].todo
           q == [req[r] EXCEPT !.todo = Tail(t)]
<1>1. req \in [Requests -> Slot] /\ req[r] \in Slot /\ SlotOK(req[r])
  BY DEF Inv, SlotsOK
<1>2. t \in Seq(SUBSET Keys) /\ t # <<>>
  BY <1>1 DEF Slot
<1>3. /\ Tail(t) \in Seq(SUBSET Keys)
      /\ Head(t) = t[1]
      /\ \A i \in DOMAIN t : i = 1 \/ (i - 1 \in DOMAIN Tail(t) /\ Tail(t)[i - 1] = t[i])
  BY <1>2, HeadTailProperties, LenProperties
<1>4. req' = [req EXCEPT ![r] = q]
  BY <1>1
<1>5. q \in Slot
  BY <1>1, <1>3 DEF Slot
<1>6. q.pc = "evict" /\ q.todo = Tail(t) /\ q.session = req[r].session
      /\ q.user = req[r].user /\ q.target = req[r].target /\ q.op = req[r].op
  BY <1>1 DEF Slot
<1>7. SlotOK(q)
  <2> HIDE DEF q
  <2>1. QED
    BY <1>1, <1>6 DEF SlotOK
<1>8. SlotsOK'
  BY <1>4, <1>5, <1>7, SlotMoves DEF Inv, sessions, users, audit
<1>9. UsersOK'
  <2>1. NoEntry \in [data : Nat, late : BOOLEAN]
    BY DEF NoEntry
  <2>2. respCache' \in [Keys -> [data : Nat, late : BOOLEAN]]
    BY <2>1 DEF Inv, UsersOK
  <2>3. \A k \in Keys : respCache'[k].data <= table[k]
    <3>1. \A k \in Keys : table[k] \in Nat /\ 0 <= table[k] /\ respCache[k].data <= table[k]
      BY PipelineAssumption DEF PipelineAssumption, Inv, UsersOK
    <3>2. \A k \in Keys : respCache'[k] = respCache[k] \/ respCache'[k] = NoEntry
      BY DEF Inv, UsersOK
    <3>3. NoEntry.data = 0
      BY DEF NoEntry
    <3>4. QED
      BY <3>1, <3>2, <3>3
  <2>4. QED
    BY <2>2, <2>3 DEF Inv, UsersOK, users
<1>10. faults' \in 0..MaxFaults /\ (Fault => faults' # 0)
  BY Faults DEF Inv
<1>11. StaleIsDue'
  <2>1. CASE Fault
    BY <1>10, <2>1 DEF StaleIsDue
  <2>2. CASE UNCHANGED faults
             /\ respCache' = [k \in Keys |-> IF k \in Head(t) THEN NoEntry ELSE respCache[k]]
    <3>1. ASSUME NEW k \in Keys, k \notin Head(t), Due(k)
          PROVE  Due(k)'
      <4>1. PICK x \in Requests : req[x].pc = "evict"
                                  /\ \E i \in DOMAIN req[x].todo : k \in req[x].todo[i]
        BY <3>1 DEF Due
      <4>2. CASE x # r
        BY <1>1, <1>4, <4>1, <4>2 DEF Due
      <4>3. CASE x = r
        <5>1. \E i \in DOMAIN Tail(t) : k \in Tail(t)[i]
          BY <1>3, <3>1, <4>1, <4>3
        <5>2. req'[r].pc = "evict" /\ req'[r].todo = Tail(t)
          BY <1>1, <1>4, <1>6
        <5>3. QED
          BY <5>1, <5>2 DEF Due
      <4>4. QED
        BY <4>2, <4>3
    <3>2. QED
      BY <2>2, <3>1 DEF Inv, StaleIsDue, users
  <2>3. QED
    BY <2>1, <2>2
<1>12. QED
  BY <1>8, <1>9, <1>10, <1>11, SameSessions, SameAudit DEF Inv

LEMMA EvictedHolds == ASSUME Inv, NEW r \in Requests, Evicted(r) PROVE Inv'
<1> USE DEF Evicted
<1>1. SlotsOK' /\ StaleIsDue'
  BY GoesOn DEF sessions, users, audit
<1>2. QED
  BY <1>1, SameSessions, SameUsers, SameAudit DEF Inv

-----------------------------------------------------------------------------
(* The audit log, the end of the process, and keys that run out.           *)

LEMMA BeforeHolds == ASSUME Inv, NEW r \in Requests, Before(r) PROVE Inv'
<1> USE DEF Before, At
<1> DEFINE q == [req[r] EXCEPT !.pc = "edit", !.before = row]
<1>1. req \in [Requests -> Slot] /\ req[r] \in Slot /\ SlotOK(req[r]) /\ row \in Nat
  BY DEF Inv, SlotsOK, AuditOK
<1>2. req' = [req EXCEPT ![r] = q]
  BY <1>1
<1>3. q \in Slot
  BY <1>1 DEF Slot, PCs
<1>4. /\ q.pc = "edit" /\ q.before = row /\ q.session = req[r].session
      /\ q.user = req[r].user /\ q.target = req[r].target /\ q.op = req[r].op
  BY <1>1 DEF Slot
<1>5. SlotOK(q)
  <2> HIDE DEF q
  <2>1. QED
    BY <1>1, <1>4 DEF SlotOK
<1>6. SlotsOK' /\ StaleIsDue'
  BY <1>2, <1>3, <1>5, SlotMoves, StillDue DEF Inv, SlotsOK, sessions, users, audit
<1>7. QED
  BY <1>6, SameSessions, SameUsers, SameAudit DEF Inv

LEMMA EditHolds == ASSUME Inv, NEW r \in Requests, Edit(r) PROVE Inv'
<1> USE PipelineAssumption DEF PipelineAssumption, Edit, OnlyEdit, At
<1> DEFINE n == row + 1
           q == [req[r] EXCEPT !.pc = "after", !.mine = n]
<1>1. req \in [Requests -> Slot] /\ req[r] \in Slot /\ SlotOK(req[r])
  BY DEF Inv, SlotsOK
<1>2. row \in Nat /\ row < MaxWrites /\ n \in 0..MaxWrites
  BY DEF Inv, AuditOK
<1>3. req' = [req EXCEPT ![r] = q]
  BY <1>1
<1>4. q \in Slot
  <2>1. n \in Nat
    BY <1>2
  <2> HIDE DEF n
  <2>2. QED
    BY <1>1, <2>1 DEF Slot, PCs
<1>5. /\ q.pc = "after" /\ q.mine = n /\ q.before = req[r].before
      /\ q.session = req[r].session
      /\ q.user = req[r].user /\ q.target = req[r].target /\ q.op = req[r].op
  BY <1>1 DEF Slot
<1>6. SlotsOK'
  <2>1. ASSUME NEW x \in Requests, x # r PROVE SlotOK(req[x])'
    <3>1. SlotOK(req[x]) /\ req[x] \in Slot /\ req'[x] = req[x]
      BY <1>1, <1>3, <2>1 DEF Inv, SlotsOK
    <3>2. req[x].before \in Nat /\ req[x].mine \in Nat
      BY <3>1 DEF Slot
    <3>3. QED
      BY <1>2, <3>1, <3>2 DEF SlotOK, sessions, users
  <2>2. SlotOK(req[r])'
    <3>1. req'[r] = q
      BY <1>1, <1>3
    <3>2. req[r].before \in Nat /\ req[r].before <= row
      BY <1>1 DEF Slot, SlotOK
    <3> HIDE DEF q
    <3>3. QED
      BY <1>1, <1>2, <1>5, <3>1, <3>2 DEF SlotOK, sessions, users
  <2>3. QED
    BY <1>1, <1>3, <1>4, <2>1, <2>2 DEF SlotsOK
<1>7. AuditOK'
  BY <1>2 DEF Inv, AuditOK
<1>8. StaleIsDue'
  BY <1>3, StillDue DEF Inv, SlotsOK, users
<1>9. QED
  BY <1>6, <1>7, <1>8, SameSessions, SameUsers DEF Inv

LEMMA AfterHolds == ASSUME Inv, NEW r \in Requests, After(r) PROVE Inv'
<1> USE DEF After, At
<1> DEFINE q == [req[r] EXCEPT !.pc = "log", !.after = row]
<1>1. req \in [Requests -> Slot] /\ req[r] \in Slot /\ SlotOK(req[r]) /\ row \in Nat
  BY DEF Inv, SlotsOK, AuditOK
<1>2. req' = [req EXCEPT ![r] = q]
  BY <1>1
<1>3. q \in Slot
  BY <1>1 DEF Slot, PCs
<1>4. /\ q.pc = "log" /\ q.after = row /\ q.mine = req[r].mine /\ q.before = req[r].before
      /\ q.session = req[r].session
      /\ q.user = req[r].user /\ q.target = req[r].target /\ q.op = req[r].op
  BY <1>1 DEF Slot
<1>5. SlotOK(q)
  <2> HIDE DEF q
  <2>1. QED
    BY <1>1, <1>4 DEF SlotOK
<1>6. SlotsOK' /\ StaleIsDue'
  BY <1>2, <1>3, <1>5, SlotMoves, StillDue DEF Inv, SlotsOK, sessions, users, audit
<1>7. QED
  BY <1>6, SameSessions, SameUsers, SameAudit DEF Inv

LEMMA LogHolds == ASSUME Inv, NEW r \in Requests, Log(r) PROVE Inv'
<1> USE DEF Log, At
<1>1. req[r] \in Slot /\ SlotOK(req[r])
  BY DEF Inv, SlotsOK
<1>2. faults' \in 0..MaxFaults /\ (faults' = 0 => faults = 0)
  BY Faults DEF Inv
<1>3. SlotsOK' /\ StaleIsDue'
  BY <1>2, GoesOn DEF sessions, users
<1>4. AuditOK'
  <2>1. req[r].mine \in 1..row /\ req[r].before < req[r].mine /\ req[r].mine <= req[r].after
    BY <1>1 DEF Slot, SlotOK, Inv, AuditOK
  <2>2. QED
    BY <2>1 DEF Inv, AuditOK
<1>5. QED
  BY <1>2, <1>3, <1>4, SameSessions, SameUsers DEF Inv

LEMMA CrashHolds == ASSUME Inv, Crash PROVE Inv'
<1> USE DEF Crash
<1>1. SlotsOK'
  BY IdleIsSlot DEF SlotsOK, SlotOK, Idle
<1>2. faults' \in 0..MaxFaults /\ faults' # 0
  BY Faults DEF Inv
<1>3. QED
  BY <1>1, <1>2, SameSessions, SameUsers, SameAudit DEF Inv, StaleIsDue

LEMMA ExpireHolds ==
  ASSUME Inv,
         \/ \E s \in Sessions : ExpireSession(s)
         \/ \E u \in Users : ExpireUser(u)
         \/ \E k \in Keys : ExpireAnswer(k)
  PROVE  Inv'
<1>1. ASSUME NEW s \in Sessions, ExpireSession(s) PROVE Inv'
  <2> USE <1>1 DEF ExpireSession
  <2>1. SlotsOK' /\ StaleIsDue'
    BY DEF Inv, SlotsOK, SlotOK, StaleIsDue, Due, users, audit
  <2>2. SessionsOK'
    BY DEF Inv, SessionsOK, LogoutHolds
  <2>3. QED
    BY <2>1, <2>2, SameUsers, SameAudit DEF Inv
<1>2. ASSUME NEW u \in Users, ExpireUser(u) PROVE Inv'
  <2> USE <1>2 DEF ExpireUser
  <2>1. SlotsOK' /\ StaleIsDue'
    BY DEF Inv, SlotsOK, SlotOK, StaleIsDue, Due, sessions, users, audit
  <2>2. UsersOK'
    BY PipelineAssumption DEF PipelineAssumption, Inv, UsersOK, users, Keys
  <2>3. QED
    BY <2>1, <2>2, SameSessions, SameAudit DEF Inv
<1>3. ASSUME NEW k \in Keys, ExpireAnswer(k) PROVE Inv'
  <2> USE <1>3 DEF ExpireAnswer
  <2>1. SlotsOK' /\ StaleIsDue'
    BY DEF Inv, SlotsOK, SlotOK, StaleIsDue, Due, sessions, users, audit, UsersOK
  <2>2. UsersOK'
    BY DEF Inv, UsersOK, users, NoEntry
  <2>3. QED
    BY <2>1, <2>2, SameSessions, SameAudit DEF Inv
<1>4. QED
  BY <1>1, <1>2, <1>3

LEMMA StutterHolds == ASSUME Inv, UNCHANGED vars PROVE Inv'
<1>1. SlotsOK' /\ StaleIsDue'
  BY DEF Inv, vars, SlotsOK, SlotOK, StaleIsDue, Due
<1>2. SessionsOK' /\ UsersOK' /\ AuditOK' /\ faults' \in 0..MaxFaults
  BY SameSessions, SameUsers, SameAudit DEF Inv, vars, sessions, users, audit
<1>3. QED
  BY <1>1, <1>2 DEF Inv

LEMMA StepHolds == ASSUME Inv, NEW r \in Requests, Step(r) PROVE Inv'
<1>1. CASE Write(r)
  BY <1>1, WriteThenEvictHolds, WriteFailsHolds DEF Write
<1>2. CASE ~Write(r)
  BY <1>2, GuardHolds, FindUserHolds, FillHolds, RefreshHolds, LogoutSteps, AnswerHolds,
     CacheHitHolds, ReadHolds, CacheSetHolds, TenantWriteHolds, EvictHolds, EvictedHolds, BeforeHolds, EditHolds,
     AfterHolds, LogHolds
  DEF Step
<1>3. QED
  BY <1>1, <1>2

LEMMA InvAlways == Spec => []Inv
<1>1. Inv /\ [Next]_vars => Inv'
  <2> SUFFICES ASSUME Inv, [Next]_vars PROVE Inv'
    OBVIOUS
  <2>1. CASE Next
    BY <2>1, LoginHolds, ArriveHolds, StepHolds, CrashHolds, ExpireHolds DEF Next
  <2>2. QED
    BY <2>1, StutterHolds
<1>2. QED
  BY <1>1, InitHolds, PTL DEF Spec

-----------------------------------------------------------------------------
(* The theorems.                                                           *)

\* A session that was destroyed stays destroyed, however many requests of it are
\* in flight, unless a refresh stores it again: no other write of the store is
\* one of a session that exists.
THEOREM LogoutHoldsAlways == Spec => []LogoutHolds
<1>1. Inv => LogoutHolds
  BY DEF Inv, SessionsOK
<1>2. QED
  BY <1>1, InvAlways, PTL

\* However the edits of an order overlap, an entry of the audit log encloses the
\* edit it is about.
THEOREM AuditEnclosesAlways == Spec => []AuditEncloses
<1>1. Inv => AuditEncloses
  <2> SUFFICES ASSUME Inv PROVE AuditEncloses
    OBVIOUS
  <2>1. \A r \in Requests :
          req[r].pc # "idle" => req[r].session \in Sessions \ fresh /\ req[r].user \in Users
    BY DEF Inv, SlotsOK, SlotOK
  <2>2. TypeOK
    BY <2>1 DEF Inv, TypeOK, SessionsOK, UsersOK, AuditOK
  <2>3. QED
    BY <2>2 DEF AuditEncloses, Inv, AuditOK
<1>2. QED
  BY <1>1, InvAlways, PTL

\* As long as nothing fails, a cached answer is stale only by what the interceptors
\* leave: whatever the writes and readers in flight, once no invalidation is under
\* way every other answer that no write of a tenant has overtaken is what the
\* tables say.
THEOREM FreshUnlessExcusedAlways == Spec => []FreshUnlessExcused
<1>1. Inv => FreshUnlessExcused
  BY DEF Inv, StaleIsDue, Due, FreshUnlessExcused
<1>2. QED
  BY <1>1, InvAlways, PTL
=============================================================================
