--------------------------- MODULE RuntimeRefresh ---------------------------
(***************************************************************************)
(* The runtime cache of the console: the container list every page reads   *)
(* (App.cachedContainers), the sweep that rebuilds it from Docker under    *)
(* refreshMu, the optimistic edits a mutating endpoint makes to it, and    *)
(* the refreshPending / refreshInFlight pair that coalesces the background *)
(* sweeps those endpoints ask for.                                         *)
(*                                                                         *)
(* Goroutines are processes: HTTP handlers, the background refreshers that *)
(* triggerRuntimeCacheRefresh spawns, and the 15 second ticker.  A step    *)
(* that reads or writes shared state is an action of its own.              *)
(***************************************************************************)
EXTENDS Integers, FiniteSets

CONSTANTS
  Containers,  \* the managed containers
  Handlers,    \* HTTP handler goroutines that may run at once
  Workers,     \* background refresh goroutines that may exist at once
  Tickers,     \* the periodic sweep: one process, or none to look at triggers alone
  MaxOps,      \* bound on the number of changes made to Docker's state
  MaxFaults    \* bound on the number of Docker calls that fail

NoOne == "no one"

ASSUME RefreshAssumption ==
  /\ MaxOps \in Nat /\ MaxFaults \in Nat
  /\ Handlers \cap Workers = {} /\ Handlers \cap Tickers = {} /\ Workers \cap Tickers = {}
  /\ NoOne \notin Handlers \cup Workers \cup Tickers

States == {"absent", "running", "paused", "exited"}

Views == [Containers -> States]

Procs == Handlers \cup Workers \cup Tickers

VARIABLES
  docker,     \* what the daemon holds: container -> state
  cached,     \* cachedContainers: container -> state as the console lists it
  cacheVer,   \* which point of Docker's history the last stored listing is from (history variable)
  pending,    \* refreshPending
  inFlight,   \* refreshInFlight
  refreshMu,  \* holder of refreshMu, or NoOne
  pc,         \* where each goroutine is
  op,         \* a handler's current request: container and optimistic state
  snap,       \* a sweep's local listing: the view, its point in history, and whether the call worked
  ops,        \* number of changes made to Docker so far
  faults      \* number of failed Docker calls so far

vars == <<docker, cached, cacheVer, pending, inFlight, refreshMu, pc, op, snap, ops, faults>>

Goto(p, label) == pc' = [pc EXCEPT ![p] = label]

NoSnap == [view |-> [c \in Containers |-> "absent"], ver |-> 0, ok |-> FALSE]

\* A goroutine at rest: a handler or the ticker is "idle", a refresher not yet spawned "none".
Rest(p) == IF p \in Workers THEN "none" ELSE "idle"

Init ==
  /\ docker \in [Containers -> {"absent", "running"}]
  /\ cached = docker
  /\ cacheVer = 0
  /\ pending = FALSE /\ inFlight = FALSE
  /\ refreshMu = NoOne
  /\ pc = [p \in Procs |-> Rest(p)]
  /\ op = [h \in Handlers |-> [c |-> NoOne, to |-> "none"]]
  /\ snap = [p \in Procs |-> NoSnap]
  /\ ops = 0 /\ faults = 0

-----------------------------------------------------------------------------
(***************************************************************************)
(* Mutating endpoints.                                                     *)
(***************************************************************************)

\* Docker's side of each container action: the states it is accepted in and
\* the state it leaves behind.  Any other state is an error the handler
\* reports without touching anything.
DockerAction ==
  [start   |-> [from |-> {"running", "exited"},           to |-> "running"],
   stop    |-> [from |-> {"running", "paused", "exited"}, to |-> "exited"],
   pause   |-> [from |-> {"running"},                     to |-> "paused"],
   unpause |-> [from |-> {"paused"},                      to |-> "running"],
   kill    |-> [from |-> {"running", "paused"},           to |-> "exited"],
   remove  |-> [from |-> {"running", "paused", "exited"}, to |-> "absent"]]

\* updateCachedContainerState and evictCachedContainers: what the cached row
\* becomes.  "kill" has no entry in the code's table and leaves it alone.
OptimisticState(action) ==
  CASE action = "remove" -> "absent"
    [] action \in {"start", "restart", "unpause"} -> "running"
    [] action = "stop" -> "exited"
    [] action = "pause" -> "paused"
    [] OTHER -> "none"

SetDocker(c, s) ==
  /\ ops < MaxOps
  /\ docker' = [docker EXCEPT ![c] = s]
  /\ ops' = ops + 1

\* containerAction (and each element of containerBatch): one Docker call.
ContainerAction(h, c, action) ==
  /\ pc[h] = "idle"
  /\ docker[c] \in DockerAction[action].from
  /\ SetDocker(c, DockerAction[action].to)
  /\ op' = [op EXCEPT ![h] = [c |-> c, to |-> OptimisticState(action)]]
  /\ Goto(h, "cache")
  /\ UNCHANGED <<cached, cacheVer, pending, inFlight, refreshMu, snap, faults>>

\* "restart" is a stop followed by a start: Docker can be seen in between.
RestartStop(h, c) ==
  /\ pc[h] = "idle"
  /\ docker[c] # "absent"
  /\ SetDocker(c, "exited")
  /\ op' = [op EXCEPT ![h] = [c |-> c, to |-> OptimisticState("restart")]]
  /\ Goto(h, "restart")
  /\ UNCHANGED <<cached, cacheVer, pending, inFlight, refreshMu, snap, faults>>

\* The second call: it succeeds, unless the container went away, was paused or
\* the daemon failed; then the handler answers 500 and asks for no refresh.
RestartStart(h) ==
  LET c == op[h].c IN
  /\ pc[h] = "restart"
  /\ \/ /\ docker[c] \in DockerAction["start"].from
        /\ docker' = [docker EXCEPT ![c] = "running"]
        /\ ops' = ops + 1
        /\ Goto(h, "cache")
        /\ UNCHANGED faults
     \/ /\ docker[c] \notin DockerAction["start"].from
        /\ Goto(h, "idle")
        /\ UNCHANGED <<docker, ops, faults>>
     \/ /\ faults < MaxFaults
        /\ faults' = faults + 1
        /\ Goto(h, "idle")
        /\ UNCHANGED <<docker, ops>>
  /\ UNCHANGED <<cached, cacheVer, pending, inFlight, refreshMu, op, snap>>

\* The optimistic edit of the cached row, under cacheMu.  A row the cache does
\* not hold is not added by a state change.
UpdateCache(h) ==
  LET c == op[h].c IN
  /\ pc[h] = "cache"
  /\ cached' = IF op[h].to = "none" \/ cached[c] = "absent"
               THEN cached
               ELSE [cached EXCEPT ![c] = op[h].to]
  /\ Goto(h, "pend")
  /\ UNCHANGED <<docker, cacheVer, pending, inFlight, refreshMu, op, snap, ops, faults>>

\* POST /api/containers creates and triggers; the streaming variant creates and
\* then runs a whole sweep before it answers.
CreateContainer(h, c) ==
  /\ pc[h] = "idle"
  /\ docker[c] = "absent"
  /\ SetDocker(c, "running")
  /\ \E next \in {"pend", "lock"} : Goto(h, next)
  /\ UNCHANGED <<cached, cacheVer, pending, inFlight, refreshMu, op, snap, faults>>

-----------------------------------------------------------------------------
(***************************************************************************)
(* triggerRuntimeCacheRefresh and the goroutine it spawns.                 *)
(***************************************************************************)

\* refreshPending.Store(true)
SetPending(p) ==
  /\ pc[p] = "pend"
  /\ pending' = TRUE
  /\ Goto(p, "cas")
  /\ UNCHANGED <<docker, cached, cacheVer, inFlight, refreshMu, op, snap, ops, faults>>

\* refreshInFlight.CompareAndSwap(false, true): the winner spawns a refresher.
Trigger(p) ==
  /\ pc[p] = "cas"
  /\ \/ /\ inFlight
        /\ Goto(p, Rest(p))
        /\ UNCHANGED inFlight
     \/ /\ ~inFlight
        /\ inFlight' = TRUE
        /\ \E w \in Workers : /\ pc[w] = "none"
                              /\ pc' = [pc EXCEPT ![p] = Rest(p), ![w] = "loop"]
  /\ UNCHANGED <<docker, cached, cacheVer, pending, refreshMu, op, snap, ops, faults>>

\* for refreshPending.CompareAndSwap(true, false) { sweep }
LoopCheck(w) ==
  /\ pc[w] = "loop"
  /\ pending' = FALSE
  /\ Goto(w, IF pending THEN "lock" ELSE "release")
  /\ UNCHANGED <<docker, cached, cacheVer, inFlight, refreshMu, op, snap, ops, faults>>

\* The deferred function: release, then look at refreshPending once more.
Release(w) ==
  /\ pc[w] = "release"
  /\ inFlight' = FALSE
  /\ Goto(w, "recheck")
  /\ UNCHANGED <<docker, cached, cacheVer, pending, refreshMu, op, snap, ops, faults>>

\* Mutant: the refresher exits without looking at refreshPending again.
RecheckSkipped(w) ==
  /\ pc[w] = "recheck"
  /\ Goto(w, "none")
  /\ UNCHANGED <<docker, cached, cacheVer, pending, inFlight, refreshMu, op, snap, ops, faults>>

Recheck(w) ==
  /\ pc[w] = "recheck"
  /\ Goto(w, IF pending THEN "pend" ELSE "none")
  /\ UNCHANGED <<docker, cached, cacheVer, pending, inFlight, refreshMu, op, snap, ops, faults>>

-----------------------------------------------------------------------------
(***************************************************************************)
(* refreshRuntimeCacheSized.                                               *)
(***************************************************************************)

Tick(t) ==
  /\ t \in Tickers
  /\ pc[t] = "idle"
  /\ Goto(t, "lock")
  /\ UNCHANGED <<docker, cached, cacheVer, pending, inFlight, refreshMu, op, snap, ops, faults>>

\* Mutant: sweeps do not exclude one another.
LockRefreshNever(p) ==
  /\ pc[p] = "lock"
  /\ Goto(p, "list")
  /\ UNCHANGED <<docker, cached, cacheVer, pending, inFlight, refreshMu, op, snap, ops, faults>>

LockRefresh(p) ==
  /\ pc[p] = "lock"
  /\ refreshMu = NoOne
  /\ refreshMu' = p
  /\ Goto(p, "list")
  /\ UNCHANGED <<docker, cached, cacheVer, pending, inFlight, op, snap, ops, faults>>

\* ListContainers: the daemon's state at this moment, or an error.
ListContainers(p) ==
  /\ pc[p] = "list"
  /\ \/ /\ snap' = [snap EXCEPT ![p] = [view |-> docker, ver |-> ops, ok |-> TRUE]]
        /\ UNCHANGED faults
     \/ /\ faults < MaxFaults
        /\ faults' = faults + 1
        /\ snap' = [snap EXCEPT ![p] = NoSnap]
  /\ Goto(p, "store")
  /\ UNCHANGED <<docker, cached, cacheVer, pending, inFlight, refreshMu, op, ops>>

\* Mutant: the new list is merged into the old one instead of replacing it.
StoreCacheMerged(p) ==
  /\ pc[p] = "store"
  /\ cached' = [c \in Containers |-> IF snap[p].view[c] = "absent" THEN cached[c] ELSE snap[p].view[c]]
  /\ cacheVer' = IF snap[p].ok THEN snap[p].ver ELSE cacheVer
  /\ Goto(p, "sync")
  /\ UNCHANGED <<docker, pending, inFlight, refreshMu, op, snap, ops, faults>>

\* The new list replaces the old one under cacheMu; a failed listing keeps it.
StoreCache(p) ==
  /\ pc[p] = "store"
  /\ cached' = IF snap[p].ok THEN snap[p].view ELSE cached
  /\ cacheVer' = IF snap[p].ok THEN snap[p].ver ELSE cacheVer
  /\ Goto(p, "sync")
  /\ UNCHANGED <<docker, pending, inFlight, refreshMu, op, snap, ops, faults>>

\* After the port forward reconcile (module PortForward) the mutex is released.
\* The local listing goes out of scope.
UnlockRefresh(p) ==
  /\ pc[p] = "sync"
  /\ refreshMu' = NoOne
  /\ snap' = [snap EXCEPT ![p] = NoSnap]
  /\ Goto(p, IF p \in Workers THEN "loop" ELSE "idle")
  /\ UNCHANGED <<docker, cached, cacheVer, pending, inFlight, op, ops, faults>>

-----------------------------------------------------------------------------
Request(h) ==
  \E c \in Containers :
     \/ \E action \in DOMAIN DockerAction : ContainerAction(h, c, action)
     \/ RestartStop(h, c)
     \/ CreateContainer(h, c)

HandlerStep(h) == RestartStart(h) \/ UpdateCache(h)

TriggerStep(p) == SetPending(p) \/ Trigger(p)

WorkerStep(w) == LoopCheck(w) \/ Release(w) \/ Recheck(w)

SweepStep(p) == LockRefresh(p) \/ ListContainers(p) \/ StoreCache(p) \/ UnlockRefresh(p)

Next ==
  \/ \E h \in Handlers : Request(h) \/ HandlerStep(h)
  \/ \E w \in Workers : WorkerStep(w)
  \/ \E t \in Tickers : Tick(t)
  \/ \E p \in Procs : SweepStep(p)
  \/ \E p \in Handlers \cup Workers : TriggerStep(p)

Safety == Init /\ [][Next]_vars

(***************************************************************************)
(* A goroutine that can run is eventually run, and the ticker keeps        *)
(* ticking.  Nothing forces a new request to arrive.                       *)
(***************************************************************************)
Fairness ==
  /\ \A h \in Handlers : WF_vars(HandlerStep(h))
  /\ \A w \in Workers : WF_vars(WorkerStep(w))
  /\ \A t \in Tickers : WF_vars(Tick(t))
  /\ \A p \in Procs : WF_vars(SweepStep(p))
  /\ \A p \in Handlers \cup Workers : WF_vars(TriggerStep(p))

Spec == Safety /\ Fairness

-----------------------------------------------------------------------------
TypeOK ==
  /\ docker \in Views /\ cached \in Views
  /\ cacheVer \in Nat /\ ops \in Nat /\ faults \in Nat
  /\ pending \in BOOLEAN /\ inFlight \in BOOLEAN
  /\ refreshMu \in Procs \cup {NoOne}
  /\ pc \in [Procs -> {"idle", "none", "cache", "restart", "pend", "cas", "loop", "release",
                       "recheck", "lock", "list", "store", "sync"}]
  /\ op \in [Handlers -> [c : Containers \cup {NoOne}, to : States \cup {"none"}]]
  /\ snap \in [Procs -> [view : Views, ver : Nat, ok : BOOLEAN]]

\* A refresh that was asked for is never lost: while refreshPending is set some
\* goroutine is bound to look at it - the refresher that holds refreshInFlight,
\* one that has released it and not yet re-checked, or a caller about to retry
\* the compare-and-swap (resources.go, the deferred function of the refresher).
NoLostTrigger ==
  pending => \/ inFlight
             \/ \E p \in Handlers \cup Workers : pc[p] \in {"recheck", "pend", "cas"}

\* The refresher between the compare-and-swap that spawned it and its release.
Refreshing(w) == pc[w] \in {"loop", "lock", "list", "store", "sync", "release"}

\* At most one goroutine owns refreshInFlight, and it is set exactly while one does:
\* a refresher that exits never leaves the flag behind, which would end
\* background refreshes for good.
OneRefresher ==
  /\ inFlight <=> \E w \in Workers : Refreshing(w)
  /\ \A v, w \in Workers : Refreshing(v) /\ Refreshing(w) => v = w

\* The cached list never goes back in time: a sweep that listed Docker earlier
\* cannot overwrite the listing of a later one, whatever goroutines the two run
\* in (resources.go, refreshMu held from the listing to the store).
CacheNeverGoesBack == [][cacheVer' >= cacheVer]_vars

\* Once requests stop, the list the console shows becomes Docker's state and
\* stays so.
CacheConverges == <>[](cached = docker)

\* "This prevents the list endpoint from returning stale data while the
\* asynchronous full refresh is still in progress": when every removal has been
\* answered, a removed container is not listed.
RemovedNotListed ==
  (\A h \in Handlers : pc[h] = "idle") =>
     \A c \in Containers : docker[c] = "absent" => cached[c] = "absent"
=============================================================================
