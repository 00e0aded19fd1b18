-------------------------- MODULE RequestPipeline --------------------------
(***************************************************************************)
(* What stands between a request and its handler, and what runs after the  *)
(* answer: the session in Redis (src/main.ts, auth.controller.ts), the     *)
(* cached user of the SessionGuard, the two interceptors of the cached     *)
(* answers of /users, and the audit log of /orders.  None of the stores is *)
(* written in one step with another, and nothing waits for what an         *)
(* interceptor does after the answer.                                      *)
(*                                                                         *)
(* The tables behind the cached answers are a number per cache key, the    *)
(* count of the writes that change what that key shows: those of users,    *)
(* which have an interceptor, and those of the tenant a user is shown      *)
(* with, which have none.  The orders are one row.                         *)
(***************************************************************************)
EXTENDS Integers, Sequences

CONSTANTS
  Users,
  Page,            \* the key users:page:1
  Sessions,        \* session ids, each generated once
  Requests,        \* slots for requests in flight
  Workloads,       \* the kinds of requests that may come together, and on
                   \* which sessions
  MaxWrites,       \* bound: writes of users and tenants, and of the order
  MaxFaults,       \* bound: Redis errors, failed handlers, ends of the process
  None             \* no session, no user

ASSUME PipelineAssumption ==
  /\ Page \notin Users
  /\ None \notin Users \cup Sessions
  /\ {MaxWrites, MaxFaults} \subseteq Nat

Keys == Users \cup {Page}

VARIABLES
  store,           \* sess:<id>: the user of a session
  fresh,           \* ids no login has used
  authCache,       \* auth:user:<id>: what the key showed when it was read, or 0
  respCache,       \* users:<id>, users:page:1
  table,           \* users and their tenants, by what a key shows
  silent,          \* what table was at a key's last write of a tenant, kept to
                   \* state FreshUnlessExcused
  gone,            \* deleted users
  inactive,        \* users of another status than ACTIVE; no route writes it
  row,             \* the order, as the number of its last edit
  log,             \* AuditLog
  workload,        \* what comes, chosen once
  req,             \* the requests in flight
  ended,           \* sessions that were destroyed, kept to state LogoutHolds
  refreshed,       \* those that a refresh has saved again
  faults

vars == <<store, fresh, authCache, respCache, table, silent, gone, inactive, row, log,
          workload, req, ended, refreshed, faults>>
sessions == <<store, fresh, ended, refreshed>>
users == <<table, silent, gone, inactive>>
audit == <<row, log, workload>>

\* late is kept to state FreshUnlessExcused: the table was written between the
\* read and the set.
NoEntry == [data |-> 0, late |-> FALSE]

Idle == [op |-> "none", pc |-> "idle", session |-> None, user |-> None,
         target |-> None, seen |-> 0, late |-> FALSE, todo |-> <<>>,
         before |-> 0, mine |-> 0, after |-> 0]

Ops == {"get", "post", "put", "delete", "tenant", "edit", "refresh", "logout"}

ASSUME WorkloadsAssumption ==
  Workloads \subseteq [ops : SUBSET Ops, ids : SUBSET Sessions]

Init ==
  /\ store = [s \in Sessions |-> None]
  /\ fresh = Sessions
  /\ authCache = [u \in Users |-> 0]
  /\ respCache = [k \in Keys |-> NoEntry]
  /\ table = [k \in Keys |-> 1]
  /\ silent = [k \in Keys |-> 0]
  /\ gone = {}
  /\ inactive \in SUBSET Users
  /\ row = 0
  /\ log = {}
  /\ workload \in Workloads
  /\ req = [r \in Requests |-> Idle]
  /\ ended = {}
  /\ refreshed = {}
  /\ faults = 0

At(r, op, pc) == req[r].op = op /\ req[r].pc = pc
\* On to the next step; what was read of the tables has been used.
Goto(r, pc) == req' = [req EXCEPT ![r].pc = pc, ![r].seen = 0, ![r].late = FALSE]
Fault == faults < MaxFaults /\ faults' = faults + 1

-----------------------------------------------------------------------------
(* Sessions and the SessionGuard.                                          *)

\* login: the password is right, deleted or not, active or not; regenerate destroys the
\* session the browser had, save stores the new one.
Login(s, u, old) ==
  /\ s \in fresh \cap workload.ids
  /\ old = None \/ (old \in Sessions /\ store[old] # None)
  /\ fresh' = fresh \ {s}
  /\ store' = [x \in Sessions |-> IF x = s THEN u ELSE IF x = old THEN None
                                                       ELSE store[x]]
  /\ ended' = ended \cup ({old} \ {None})
  /\ UNCHANGED <<authCache, respCache, users, audit, req, refreshed, faults>>

\* A request whose session is stored.
Arrive(r, s, op, k) ==
  /\ req[r].pc = "idle"
  /\ store[s] # None
  /\ op \in {"put", "delete"} => k \in Users
  /\ op \notin {"get", "put", "delete"} => k = Page
  /\ req' = [req EXCEPT ![r] = [Idle EXCEPT !.op = op, !.pc = "guard",
               !.session = s, !.user = store[s], !.target = k]]
  /\ UNCHANGED <<sessions, authCache, respCache, users, audit, faults>>

\* redis.get, which returns null also for an error.
GuardHit(r) ==
  /\ req[r].pc = "guard"
  /\ authCache[req[r].user] # 0
  /\ Goto(r, "handler")
  /\ UNCHANGED <<sessions, authCache, respCache, users, audit, faults>>

GuardMiss(r) ==
  /\ req[r].pc = "guard"
  /\ IF authCache[req[r].user] # 0 THEN Fault ELSE UNCHANGED faults
  /\ Goto(r, "find")
  /\ UNCHANGED <<sessions, authCache, respCache, users, audit>>

\* findUserWithRelations.
FindUser(r) ==
  /\ req[r].pc = "find"
  /\ \/ req[r].user \in gone \cup inactive /\ Goto(r, "answer")
     \/ /\ req[r].user \notin gone \cup inactive
        /\ req' = [req EXCEPT ![r].pc = "fill", ![r].seen = table[req[r].user]]
  /\ UNCHANGED <<sessions, authCache, respCache, users, audit, faults>>

\* redis.set, which goes on after an error.
Fill(r) ==
  /\ req[r].pc = "fill"
  /\ \/ /\ authCache' = [authCache EXCEPT ![req[r].user] = req[r].seen]
        /\ UNCHANGED faults
     \/ Fault /\ UNCHANGED authCache
  /\ Goto(r, "handler")
  /\ UNCHANGED <<sessions, respCache, users, audit>>

\* touch and save: stored again whatever became of it.
Refresh(r) ==
  /\ At(r, "refresh", "handler")
  /\ store' = [store EXCEPT ![req[r].session] = req[r].user]
  /\ refreshed' = refreshed \cup (ended \cap {req[r].session})
  /\ Goto(r, "answer")
  /\ UNCHANGED <<fresh, ended, authCache, respCache, users, audit, faults>>

\* destroy.
Logout(r) ==
  /\ At(r, "logout", "handler")
  /\ store' = [store EXCEPT ![req[r].session] = None]
  /\ ended' = ended \cup {req[r].session}
  /\ Goto(r, "answer")
  /\ UNCHANGED <<fresh, refreshed, authCache, respCache, users, audit, faults>>

\* resave: true.
SaveAll(r) == store' = [store EXCEPT ![req[r].session] = req[r].user]
\* resave: false: the end of a request only touches its session.
SaveAtEnd(r) == UNCHANGED store

Answer(r) ==
  /\ req[r].pc = "answer"
  /\ SaveAtEnd(r)
  /\ req' = [req EXCEPT ![r] = Idle]
  /\ UNCHANGED <<fresh, ended, refreshed, authCache, respCache, users, audit, faults>>

-----------------------------------------------------------------------------
(* GET /users and /users/:id, the CacheInterceptor.                        *)

CacheHit(r) ==
  /\ At(r, "get", "handler")
  /\ respCache[req[r].target] # NoEntry
  /\ Goto(r, "answer")
  /\ UNCHANGED <<sessions, authCache, respCache, users, audit, faults>>

CacheMiss(r) ==
  /\ At(r, "get", "handler")
  /\ IF respCache[req[r].target] # NoEntry THEN Fault ELSE UNCHANGED faults
  /\ Goto(r, "read")
  /\ UNCHANGED <<sessions, authCache, respCache, users, audit>>

Read(r) ==
  /\ At(r, "get", "read")
  /\ req' = [req EXCEPT ![r].pc = "set", ![r].seen = table[req[r].target],
                        ![r].late = FALSE]
  /\ UNCHANGED <<sessions, authCache, respCache, users, audit, faults>>

CacheSet(r) ==
  /\ At(r, "get", "set")
  /\ \/ /\ respCache' = [respCache EXCEPT ![req[r].target] =
                           [data |-> req[r].seen, late |-> req[r].late]]
        /\ UNCHANGED faults
     \/ Fault /\ UNCHANGED respCache
  /\ Goto(r, "answer")
  /\ UNCHANGED <<sessions, authCache, users, audit>>

-----------------------------------------------------------------------------
(* Writes of users, the InvalidateCacheInterceptor, and of tenants.        *)

\* The keys and patterns of @InvalidateCache, in their order; users:* is Keys.
Patterns(op, u) ==
  CASE op = "post" -> <<Keys>>
    [] op = "put" -> <<Keys, {u}>>
    [] op = "delete" -> <<{u}, Keys>>

\* The handler writes what K shows; a reader between its read and its set is late.
Writes(r, K, next) ==
  /\ table[Page] <= MaxWrites
  /\ table' = [k \in Keys |-> IF k \in K THEN table[k] + 1 ELSE table[k]]
  /\ gone' = IF req[r].op = "delete" THEN gone \cup {req[r].target} ELSE gone
  /\ req' = [x \in Requests |->
       IF x = r THEN next
       ELSE [req[x] EXCEPT !.late = req[x].pc = "set" \/ @]]

\* The key of the user, and the page that lists it.
Shown(r) == {req[r].target, Page}

\* The keys are dropped first, the handler writes then.
EvictFirst(r) ==
  \/ /\ req[r].pc = "handler"
     /\ req[r].op \in {"post", "put", "delete"}
     /\ respCache' = [k \in Keys |-> NoEntry]
     /\ Goto(r, "write")
     /\ UNCHANGED <<users, faults>>
  \/ /\ req[r].pc = "write"
     /\ Writes(r, Shown(r), [req[r] EXCEPT !.pc = "answer"])
     /\ UNCHANGED <<respCache, faults>>

WriteThenEvict(r) ==
  /\ req[r].pc = "handler"
  /\ req[r].op \in {"post", "put", "delete"}
  /\ req[r].op = "delete" => req[r].target \notin gone
  /\ Writes(r, Shown(r), [req[r] EXCEPT !.pc = "evict",
                                        !.todo = Patterns(req[r].op, req[r].target)])
  /\ UNCHANGED <<respCache, faults>>

\* No interceptor runs when the handler throws: delete does not find a deleted
\* user, a create or an update is refused (its email is taken), or the row of the
\* user is committed and what comes after it (the addresses) fails.
WriteFails(r) ==
  /\ req[r].pc = "handler"
  /\ req[r].op \in {"post", "put", "delete"}
  /\ \/ /\ req[r].op = "delete" => req[r].target \in gone
        /\ Goto(r, "answer")
        /\ UNCHANGED <<users, faults>>
     \/ /\ req[r].op \in {"post", "put"}
        /\ Fault
        /\ Writes(r, Shown(r), [req[r] EXCEPT !.pc = "answer"])
  /\ UNCHANGED respCache

Write(r) ==
  /\ WriteThenEvict(r) \/ WriteFails(r)
  /\ UNCHANGED <<sessions, authCache, silent, inactive, audit>>

\* PUT /tenants/:id and PATCH /tenants/:id/status have no interceptor, and the
\* members M of the tenant are shown with its name, slug, logo and status.
TenantWrite(r) ==
  /\ At(r, "tenant", "handler")
  /\ \E M \in SUBSET Users :
       /\ Writes(r, M \cup {Page}, [req[r] EXCEPT !.pc = "answer"])
       /\ silent' = [k \in Keys |-> IF k \in M \cup {Page} THEN table[k] + 1 ELSE silent[k]]
  /\ UNCHANGED <<sessions, authCache, respCache, inactive, audit, faults>>

\* The keys of one pattern, found and deleted; an error leaves them.
Evict(r) ==
  /\ req[r].pc = "evict"
  /\ req[r].todo # <<>>
  /\ \/ /\ respCache' = [k \in Keys |-> IF k \in Head(req[r].todo) THEN NoEntry
                                                                   ELSE respCache[k]]
        /\ UNCHANGED faults
     \/ Fault /\ UNCHANGED respCache
  /\ req' = [req EXCEPT ![r].todo = Tail(@)]
  /\ UNCHANGED <<sessions, authCache, users, audit>>

Evicted(r) ==
  /\ req[r].pc = "evict"
  /\ req[r].todo = <<>>
  /\ Goto(r, "answer")
  /\ UNCHANGED <<sessions, authCache, respCache, users, audit, faults>>

-----------------------------------------------------------------------------
(* PUT /orders/:id, the AuditInterceptor.                                  *)

\* takeSnapshot, before.
Before(r) ==
  /\ At(r, "edit", "handler")
  /\ req' = [req EXCEPT ![r].pc = "edit", ![r].before = row]
  /\ UNCHANGED <<sessions, authCache, respCache, users, audit, faults>>

\* Of the row as the handler left it.
BeforeAndEdit(r) ==
  /\ At(r, "edit", "edit")
  /\ row < MaxWrites
  /\ row' = row + 1
  /\ req' = [req EXCEPT ![r].pc = "after", ![r].mine = row + 1, ![r].before = row + 1]

OnlyEdit(r) ==
  /\ At(r, "edit", "edit")
  /\ row < MaxWrites
  /\ row' = row + 1
  /\ req' = [req EXCEPT ![r].pc = "after", ![r].mine = row + 1]

Edit(r) ==
  /\ OnlyEdit(r)
  /\ UNCHANGED <<sessions, authCache, respCache, users, log, workload, faults>>

\* takeSnapshot, after the answer.
After(r) ==
  /\ At(r, "edit", "after")
  /\ req' = [req EXCEPT ![r].pc = "log", ![r].after = row]
  /\ UNCHANGED <<sessions, authCache, respCache, users, audit, faults>>

\* auditLog.create; an error is swallowed.
Log(r) ==
  /\ At(r, "edit", "log")
  /\ \/ /\ log' = log \cup {[before |-> req[r].before, mine |-> req[r].mine,
                             after |-> req[r].after]}
        /\ UNCHANGED faults
     \/ Fault /\ UNCHANGED log
  /\ Goto(r, "answer")
  /\ UNCHANGED <<sessions, authCache, respCache, users, row, workload>>

-----------------------------------------------------------------------------
(* The process ends; keys run out.                                         *)

Crash ==
  /\ Fault
  /\ req' = [r \in Requests |-> Idle]
  /\ UNCHANGED <<sessions, authCache, respCache, users, audit>>

\* The sets that give no EX.
NeverExpire == FALSE
\* Both caches set EX.
Expires == TRUE

ExpireSession(s) ==
  /\ store[s] # None
  /\ store' = [store EXCEPT ![s] = None]
  /\ UNCHANGED <<fresh, ended, refreshed, authCache, respCache, users, audit, req,
                 faults>>

ExpireUser(u) ==
  /\ Expires
  /\ authCache[u] # 0
  /\ authCache' = [authCache EXCEPT ![u] = 0]
  /\ UNCHANGED <<sessions, respCache, users, audit, req, faults>>

ExpireAnswer(k) ==
  /\ Expires
  /\ respCache[k] # NoEntry
  /\ respCache' = [respCache EXCEPT ![k] = NoEntry]
  /\ UNCHANGED <<sessions, authCache, users, audit, req, faults>>

-----------------------------------------------------------------------------
Step(r) ==
  \/ GuardHit(r) \/ GuardMiss(r) \/ FindUser(r) \/ Fill(r)
  \/ Refresh(r) \/ Logout(r) \/ Answer(r)
  \/ CacheHit(r) \/ CacheMiss(r) \/ Read(r) \/ CacheSet(r)
  \/ Write(r) \/ TenantWrite(r) \/ Evict(r) \/ Evicted(r)
  \/ Before(r) \/ Edit(r) \/ After(r) \/ Log(r)

Next ==
  \/ Crash
  \/ \E s \in Sessions :
       \/ ExpireSession(s)
       \/ \E u \in Users, old \in Sessions \cup {None} : Login(s, u, old)
  \/ \E u \in Users : ExpireUser(u)
  \/ \E k \in Keys : ExpireAnswer(k)
  \/ \E r \in Requests :
       \/ Step(r)
       \/ \E s \in Sessions, op \in workload.ops, k \in Keys : Arrive(r, s, op, k)

Spec == Init /\ [][Next]_vars

\* What was begun goes on and Redis drops keys at the end of their time.
Fairness ==
  /\ \A r \in Requests : WF_vars(Step(r))
  /\ \A u \in Users : WF_vars(ExpireUser(u))
  /\ \A k \in Keys : WF_vars(ExpireAnswer(k))

FairSpec == Spec /\ Fairness

-----------------------------------------------------------------------------
(* Properties.                                                             *)

TypeOK ==
  /\ store \in [Sessions -> Users \cup {None}]
  /\ fresh \subseteq {s \in Sessions : store[s] = None}
  /\ authCache \in [Users -> Nat]
  /\ \A u \in Users : authCache[u] <= table[u]
  /\ respCache \in [Keys -> [data : Nat, late : BOOLEAN]]
  /\ table \in [Keys -> 1..MaxWrites + 1]
  /\ \A k \in Keys : silent[k] <= table[k] /\ respCache[k].data <= table[k]
  /\ gone \cup inactive \subseteq Users
  /\ row \in 0..MaxWrites
  /\ workload \in Workloads
  /\ \A e \in log : e.mine \in 1..row
  /\ \A r \in Requests :
       req[r].pc # "idle" => req[r].session \in Sessions \ fresh /\ req[r].user \in Users
  /\ refreshed \subseteq ended
  /\ ended \subseteq Sessions \ fresh
  /\ faults \in 0..MaxFaults

\* When no invalidation is under way and nothing has failed, a cached answer is
\* what the tables say, with two excuses the interceptors leave.  Its reader read
\* before a write and stored after it, which nothing orders; or the tenant of a
\* user in it was written after the read, which invalidates nothing.
FreshUnlessExcused ==
  (faults = 0 /\ \A r \in Requests : req[r].pc # "evict") =>
    \A k \in Keys :
      \/ respCache[k] = NoEntry \/ respCache[k].late
      \/ respCache[k].data = table[k] \/ respCache[k].data < silent[k]

\* A session that was destroyed, by a logout or by a new login of its browser,
\* stays destroyed although other requests of it are still in flight, but for a
\* refresh, which stores it again.
LogoutHolds == \A s \in ended : store[s] = None \/ s \in refreshed

\* An entry of the audit log encloses the edit it is about: its oldValues were
\* read before the edit and its newValues after, also when edits overlap; other
\* edits may be in between.
AuditEncloses == TypeOK /\ \A e \in log : e.before < e.mine /\ e.mine <= e.after

\* Once the tables are left alone, no cache stays stale for good.  The cached users
\* are in the end those of the table, none of them deleted: nobody drops
\* auth:user:<id>, it only runs out, and what was read before the last write may
\* still be stored after.  The cached answers are those of the tables, whatever
\* invalidation failed, came too early or was not there.
CachesCatchUp ==
  <>[](/\ \A u \in Users : authCache[u] = 0 \/ (authCache[u] = table[u] /\ u \notin gone)
       /\ \A k \in Keys : respCache[k].data \in {0, table[k]})
=============================================================================
