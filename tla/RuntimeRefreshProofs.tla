------------------------ MODULE RuntimeRefreshProofs ------------------------
(***************************************************************************)
(* Proofs about RuntimeRefresh, and in the second half about Netdisk, for  *)
(* any number of goroutines, containers, users and files.                  *)
(***************************************************************************)
EXTENDS RuntimeRefresh, FiniteSetTheorems, TLAPS

USE RefreshAssumption

LEMMA TypeInit == Init => TypeOK
<1> SUFFICES ASSUME Init PROVE TypeOK
  OBVIOUS
<1>1. docker \in Views /\ NoSnap \in [view : Views, ver : Nat, ok : BOOLEAN]
  BY DEF Init, Views, States, NoSnap
<1>2. pc \in [Procs -> {"idle", "none"}]
  BY DEF Init, Rest
<1> QED BY <1>1, <1>2 DEF Init, TypeOK

\* The steps of the refresh protocol have the types of TypeOK; every other
\* proof starts from it.
THEOREM TypeCorrect == Safety => []TypeOK
<1>1. Init => TypeOK
  BY TypeInit
<1>2. TypeOK /\ [Next]_vars => TypeOK'
  <2> SUFFICES ASSUME TypeOK, [Next]_vars PROVE TypeOK'
    OBVIOUS
  <2> USE DEF TypeOK, Goto
  <2>1. ASSUME NEW h \in Handlers, Request(h) PROVE TypeOK'
    <3>1. ASSUME NEW c \in Containers, NEW action \in DOMAIN DockerAction, ContainerAction(h, c, action)
          PROVE TypeOK'
      <4>1. OptimisticState(action) \in States \cup {"none"} /\ DockerAction[action].to \in States
        BY DEF DockerAction, OptimisticState, States
      <4>2. docker' \in Views /\ ops' \in Nat
        BY <3>1, <4>1 DEF ContainerAction, SetDocker, Views
      <4>3. op' \in [Handlers -> [c : Containers \cup {NoOne}, to : States \cup {"none"}]]
        BY <3>1, <4>1 DEF ContainerAction
      <4> QED BY <3>1, <4>2, <4>3 DEF ContainerAction, Procs
    <3>2. ASSUME NEW c \in Containers, RestartStop(h, c) PROVE TypeOK'
      <4>1. docker' \in Views /\ ops' \in Nat
        BY <3>2 DEF RestartStop, SetDocker, Views, States
      <4>2. op' \in [Handlers -> [c : Containers \cup {NoOne}, to : States \cup {"none"}]]
        BY <3>2 DEF RestartStop, OptimisticState, States
      <4> QED BY <3>2, <4>1, <4>2 DEF RestartStop, Procs
    <3>3. ASSUME NEW c \in Containers, CreateContainer(h, c) PROVE TypeOK'
      <4>1. docker' \in Views /\ ops' \in Nat
        BY <3>3 DEF CreateContainer, SetDocker, Views, States
      <4> QED BY <3>3, <4>1 DEF CreateContainer, Procs
    <3> QED BY <2>1, <3>1, <3>2, <3>3 DEF Request
  <2>2. ASSUME NEW h \in Handlers, RestartStart(h) PROVE TypeOK'
    <3>1. docker' \in Views /\ ops' \in Nat /\ faults' \in Nat
      BY <2>2 DEF RestartStart, Views, States
    <3> QED BY <2>2, <3>1 DEF RestartStart, Procs
  <2>3. ASSUME NEW h \in Handlers, UpdateCache(h) PROVE TypeOK'
    <3>1. cached' \in Views
      BY <2>3 DEF UpdateCache, Views
    <3> QED BY <2>3, <3>1 DEF UpdateCache, Procs
  <2>4. ASSUME NEW w \in Workers, WorkerStep(w) PROVE TypeOK'
    BY <2>4 DEF WorkerStep, LoopCheck, Release, Recheck, Procs
  <2>5. ASSUME NEW t \in Tickers, Tick(t) PROVE TypeOK'
    BY <2>5 DEF Tick, Procs
  <2>6. ASSUME NEW p \in Procs, SweepStep(p) PROVE TypeOK'
    <3>1. CASE LockRefresh(p) BY <3>1 DEF LockRefresh
    <3>2. CASE ListContainers(p)
      <4>1. NoSnap \in [view : Views, ver : Nat, ok : BOOLEAN]
        BY DEF NoSnap, Views, States
      <4>a. [view |-> docker, ver |-> ops, ok |-> TRUE] \in [view : Views, ver : Nat, ok : BOOLEAN]
        OBVIOUS
      <4>b. PICK s \in [view : Views, ver : Nat, ok : BOOLEAN] : snap' = [snap EXCEPT ![p] = s]
        BY <3>2, <4>1, <4>a, Zenon DEF ListContainers
      <4>c. faults' \in Nat
        BY <3>2 DEF ListContainers
      <4>2. snap' \in [Procs -> [view : Views, ver : Nat, ok : BOOLEAN]] /\ faults' \in Nat
        BY <4>b, <4>c
      <4> QED BY <3>2, <4>2 DEF ListContainers
    <3>3. CASE StoreCache(p) BY <3>3 DEF StoreCache
    <3>4. CASE UnlockRefresh(p)
      <4>1. NoSnap \in [view : Views, ver : Nat, ok : BOOLEAN]
        BY DEF NoSnap, Views, States
      <4> QED BY <3>4, <4>1 DEF UnlockRefresh, Procs
    <3> QED BY <2>6, <3>1, <3>2, <3>3, <3>4 DEF SweepStep
  <2>7. ASSUME NEW p \in Handlers \cup Workers, TriggerStep(p) PROVE TypeOK'
    BY <2>7 DEF TriggerStep, SetPending, Trigger, Rest, Procs
  <2>8. CASE UNCHANGED vars BY <2>8 DEF vars
  <2> QED
    BY <2>1, <2>2, <2>3, <2>4, <2>5, <2>6, <2>7, <2>8 DEF Next, HandlerStep
<1> QED BY <1>1, <1>2, PTL DEF Safety

-----------------------------------------------------------------------------
(***************************************************************************)
(* The coalescing protocol.  OneRefresher is needed for NoLostTrigger only *)
(* through its first part; the two are proved together.                    *)
(***************************************************************************)
TriggerInv == TypeOK /\ OneRefresher /\ NoLostTrigger

LEMMA TriggerStepPreserves ==
  ASSUME TriggerInv, TypeOK', [Next]_vars
  PROVE  TriggerInv'
<1> USE DEF TriggerInv, TypeOK, OneRefresher, NoLostTrigger, Refreshing, Goto
<1>1. ASSUME NEW h \in Handlers, Request(h) PROVE TriggerInv'
  BY <1>1 DEF Request, ContainerAction, RestartStop, CreateContainer, Procs
<1>2. ASSUME NEW h \in Handlers, HandlerStep(h) PROVE TriggerInv'
  BY <1>2 DEF HandlerStep, RestartStart, UpdateCache, Procs
<1>3. ASSUME NEW w \in Workers, WorkerStep(w) PROVE TriggerInv'
  <2>1. CASE LoopCheck(w) BY <2>1 DEF LoopCheck, Procs
  <2>2. CASE Release(w)
    <3>1. OneRefresher' BY <2>2 DEF Release, Procs
    <3>2. pc'[w] = "recheck" BY <2>2 DEF Release, Procs
    <3> QED BY <3>1, <3>2
  <2>3. CASE Recheck(w) BY <2>3 DEF Recheck, Procs
  <2> QED BY <1>3, <2>1, <2>2, <2>3 DEF WorkerStep
<1>4. ASSUME NEW t \in Tickers, Tick(t) PROVE TriggerInv'
  BY <1>4 DEF Tick, Procs
<1>5. ASSUME NEW p \in Procs, SweepStep(p) PROVE TriggerInv'
  <2>1. CASE LockRefresh(p) BY <2>1 DEF LockRefresh, Procs
  <2>2. CASE ListContainers(p) BY <2>2 DEF ListContainers, Procs
  <2>3. CASE StoreCache(p) BY <2>3 DEF StoreCache, Procs
  <2>4. CASE UnlockRefresh(p) BY <2>4 DEF UnlockRefresh, Procs
  <2> QED BY <1>5, <2>1, <2>2, <2>3, <2>4 DEF SweepStep
<1>6. ASSUME NEW p \in Handlers \cup Workers, TriggerStep(p) PROVE TriggerInv'
  <2>1. CASE SetPending(p) BY <2>1 DEF SetPending, Procs
  <2>2. CASE Trigger(p)
    <3>1. CASE inFlight BY <2>2, <3>1 DEF Trigger, Procs, Rest
    <3>2. CASE ~inFlight
      <4>1. PICK w \in Workers : pc[w] = "none" /\ pc' = [pc EXCEPT ![p] = Rest(p), ![w] = "loop"]
        BY <2>2, <3>2 DEF Trigger
      <4>2. inFlight' /\ pc'[w] = "loop"
        BY <2>2, <3>2, <4>1 DEF Trigger, Procs
      <4>3. \A v \in Workers : v # w => pc'[v] \notin {"loop", "lock", "list", "store", "sync", "release"}
        BY <3>2, <4>1 DEF Procs, Rest
      <4> QED BY <4>2, <4>3
    <3> QED BY <3>1, <3>2
  <2> QED BY <1>6, <2>1, <2>2 DEF TriggerStep
<1>7. CASE UNCHANGED vars BY <1>7 DEF vars
<1> QED BY <1>1, <1>2, <1>3, <1>4, <1>5, <1>6, <1>7 DEF Next

\* A requested refresh is never lost, and refreshInFlight is owned by exactly
\* one live refresher while it is set (triggerRuntimeCacheRefresh).
THEOREM NoTriggerLost == Safety => [](NoLostTrigger /\ OneRefresher)
<1>1. Init => TriggerInv
  <2> SUFFICES ASSUME Init PROVE TriggerInv
    OBVIOUS
  <2>1. TypeOK
    BY TypeInit
  <2>2. \A w \in Workers : pc[w] = "none"
    BY DEF Init, Rest, Procs
  <2> QED BY <2>1, <2>2 DEF Init, TriggerInv, OneRefresher, NoLostTrigger, Refreshing
<1>2. TriggerInv /\ TypeOK' /\ [Next]_vars => TriggerInv'
  BY TriggerStepPreserves
<1> QED BY <1>1, <1>2, TypeCorrect, PTL DEF Safety, TriggerInv

-----------------------------------------------------------------------------
(***************************************************************************)
(* The listing a sweep is about to store is at least as recent as the one  *)
(* in the cache, because refreshMu is held from one to the other.          *)
(***************************************************************************)
Sweeping(p) == pc[p] \in {"list", "store", "sync"}

SweepInv ==
  /\ TypeOK
  /\ \A p \in Procs : Sweeping(p) => refreshMu = p
  /\ cacheVer <= ops
  /\ \A p \in Procs : pc[p] = "store" /\ snap[p].ok => cacheVer <= snap[p].ver
  /\ \A p \in Procs : snap[p].ver <= ops

LEMMA SweepStepPreserves ==
  ASSUME SweepInv, TypeOK', [Next]_vars
  PROVE  SweepInv'
<1> USE DEF SweepInv, Sweeping, TypeOK, Goto
<1>1. ASSUME NEW h \in Handlers, Request(h) PROVE SweepInv'
  BY <1>1 DEF Request, ContainerAction, RestartStop, CreateContainer, SetDocker, Procs
<1>2. ASSUME NEW h \in Handlers, HandlerStep(h) PROVE SweepInv'
  BY <1>2 DEF HandlerStep, RestartStart, UpdateCache, Procs
<1>3. ASSUME NEW w \in Workers, WorkerStep(w) PROVE SweepInv'
  BY <1>3 DEF WorkerStep, LoopCheck, Release, Recheck, Procs
<1>4. ASSUME NEW t \in Tickers, Tick(t) PROVE SweepInv'
  BY <1>4 DEF Tick, Procs
<1>5. ASSUME NEW p \in Procs, SweepStep(p) PROVE SweepInv'
  <2>1. CASE LockRefresh(p) BY <2>1 DEF LockRefresh, Procs
  <2>2. CASE ListContainers(p)
    <3>1. \A q \in Procs : q # p => snap'[q] = snap[q] /\ pc'[q] = pc[q]
      BY <2>2 DEF ListContainers
    <3>2. snap'[p].ver <= ops /\ (snap'[p].ok => snap'[p].ver = ops)
      BY <2>2 DEF ListContainers, NoSnap
    <3> QED BY <2>2, <3>1, <3>2 DEF ListContainers
  <2>3. CASE StoreCache(p)
    <3>1. refreshMu = p /\ pc' = [pc EXCEPT ![p] = "sync"] /\ snap' = snap /\ ops' = ops
      BY <2>3 DEF StoreCache
    <3>2. cacheVer' <= ops
      BY <2>3 DEF StoreCache
    <3>3. \A q \in Procs : pc'[q] # "store"
      BY <3>1
    <3> QED BY <2>3, <3>1, <3>2, <3>3 DEF StoreCache
  <2>4. CASE UnlockRefresh(p)
    <3>1. \A q \in Procs : q # p => snap'[q] = snap[q] /\ pc'[q] = pc[q]
      BY <2>4 DEF UnlockRefresh
    <3>2. snap'[p].ver = 0 /\ pc'[p] \in {"loop", "idle"}
      BY <2>4 DEF UnlockRefresh, NoSnap
    <3> QED BY <2>4, <3>1, <3>2 DEF UnlockRefresh
  <2> QED BY <1>5, <2>1, <2>2, <2>3, <2>4 DEF SweepStep
<1>6. ASSUME NEW p \in Handlers \cup Workers, TriggerStep(p) PROVE SweepInv'
  BY <1>6 DEF TriggerStep, SetPending, Trigger, Rest, Procs
<1>7. CASE UNCHANGED vars BY <1>7 DEF vars
<1> QED BY <1>1, <1>2, <1>3, <1>4, <1>5, <1>6, <1>7 DEF Next

\* The console's container list never goes back in time: no sweep replaces a
\* listing by one taken earlier (refreshRuntimeCacheSized under refreshMu).
THEOREM CacheMonotonic == Safety => CacheNeverGoesBack
<1>1. Init => SweepInv
  <2> SUFFICES ASSUME Init PROVE SweepInv
    OBVIOUS
  <2>1. \A p \in Procs : pc[p] \in {"idle", "none"} /\ snap[p].ver = 0
    BY DEF Init, Rest, NoSnap
  <2> QED BY <2>1, TypeInit DEF Init, SweepInv, Sweeping
<1>2. SweepInv /\ TypeOK' /\ [Next]_vars => SweepInv'
  BY SweepStepPreserves
<1>3. SweepInv /\ [Next]_vars => [cacheVer' >= cacheVer]_vars
  <2> SUFFICES ASSUME SweepInv, Next PROVE cacheVer' >= cacheVer
    BY DEF vars
  <2>1. ASSUME NEW p \in Procs, StoreCache(p) PROVE cacheVer' >= cacheVer
    BY <2>1 DEF StoreCache, SweepInv, TypeOK
  <2>2. (\E p \in Procs : StoreCache(p)) \/ cacheVer' = cacheVer
    BY DEF Next, Request, ContainerAction, RestartStop, CreateContainer, HandlerStep, RestartStart,
           UpdateCache, WorkerStep, LoopCheck, Release, Recheck, Tick, SweepStep, LockRefresh,
           ListContainers, UnlockRefresh, TriggerStep, SetPending, Trigger
  <2> QED BY <2>1, <2>2 DEF SweepInv, TypeOK
<1> QED BY <1>1, <1>2, <1>3, TypeCorrect, PTL DEF Safety, CacheNeverGoesBack
-----------------------------------------------------------------------------
(***************************************************************************)
(* The other figure that a goroutine fills in the background: the space a  *)
(* netdisk uses (Netdisk), for any users, files, quotas and requests.  Its  *)
(* assumption is a hypothesis of each result, since the module is          *)
(* instantiated; the bound MaxOps and the variables snap and ops have the   *)
(* names of those above and stand for Netdisk's own.                       *)
(***************************************************************************)
CONSTANTS Users, Askers, Names, MaxSize, Quota, Stored, Wants, Tokens, Mounted, Requests, Overlap, MaxOutside
VARIABLES disk, part, cache, scan, share, req, session, lone, outside

N == INSTANCE Netdisk

\* Netdisk has Cardinality and IsFiniteSet from FiniteSets as well.
LEMMA SameCount == ASSUME NEW S PROVE N!Cardinality(S) = Cardinality(S) /\ (N!IsFiniteSet(S) <=> IsFiniteSet(S))
  BY DEF N!Cardinality, Cardinality, N!IsFiniteSet, IsFiniteSet

USE DEF N!NetdiskAssumption

NetdiskSafety == N!Init /\ [][N!Next]_N!vars

Ops == {"upload", "transfer", "restore", "copy", "save", "init", "complete", "abort", "delete"}
Steps == {"read", "estimate", "walk", "check", "write", "invalidate", "finish"}
Figures == UNION {[S -> N!Sizes] : S \in SUBSET Names}
Chunks == UNION {[S -> 0 .. MaxSize] : S \in SUBSET Names}
Rows == [op : Ops, user : Users, want : Figures, todo : SUBSET Names, from : Users,
         found : Chunks, used : Nat, count : BOOLEAN, step : Steps]
Parts == [size : 0 .. MaxSize, got : 0 .. MaxSize, seg : SUBSET N!Sizes]
Entries == [known : BOOLEAN, bytes : Nat, fresh : BOOLEAN]

ReqTyped ==
  /\ req \in [Requests -> {N!Idle} \cup Rows]
  /\ \A r \in Requests : req[r] # N!Idle =>
       /\ req[r].todo \subseteq DOMAIN req[r].want
       /\ \A x \in DOMAIN req[r].want : req[r].found[x] \in 0 .. req[r].want[x]
PartTyped ==
  /\ part \in [Users -> [Names -> Parts]]
  /\ \A u \in Users, x \in Names : part[u][x].got <= part[u][x].size
SizesTyped ==
  /\ cache \in [Users -> Entries]
  /\ \A u \in Users : cache[u].fresh => cache[u].known
  /\ scan \in [Users -> Int]
ShareTyped == \A t \in Tokens : share[t] # N!NoShare => share[t].owner \in Users /\ share[t].names \subseteq Names
TypeInv ==
  /\ disk \in [Users -> [Names -> 0 .. MaxSize]]
  /\ PartTyped /\ SizesTyped /\ ReqTyped /\ session \subseteq N!Keys
  /\ share = [t \in Tokens |-> share[t]] /\ ShareTyped
  /\ \A r \in lone : r \in Requests /\ N!Active(r) /\ req[r].step # "finish"

LEMMA FigureIs ==
  ASSUME N!NetdiskAssumption, NEW w \in Figures
  PROVE  DOMAIN w \subseteq Names /\ \A x \in DOMAIN w : w[x] \in N!Sizes
  BY DEF Figures
LEMMA IsFigure ==
  ASSUME N!NetdiskAssumption, NEW S \in SUBSET Names, NEW w \in [S -> N!Sizes]
  PROVE  w \in Figures
  BY DEF Figures
LEMMA OnlyIs == ASSUME N!NetdiskAssumption, NEW x \in Names, NEW n \in N!Sizes
                PROVE  N!Only(x, n) \in Figures /\ DOMAIN N!Only(x, n) = {x} /\ N!Only(x, n)[x] = n
  BY IsFigure, N!Only(x, n) \in [{x} -> N!Sizes] DEF N!Only
LEMMA FiniteBytes ==
  ASSUME N!NetdiskAssumption, NEW S \in SUBSET N!Bytes
  PROVE  N!IsFiniteSet(S) /\ N!Cardinality(S) \in Nat
<1>a. N!IsFiniteSet(Names) OBVIOUS
<1>b. IsFiniteSet(Names) BY <1>a, SameCount
<1>1. IsFiniteSet(N!Sizes) BY FS_Interval DEF N!Sizes
<1>2. IsFiniteSet(N!Bytes) BY <1>1, <1>b, FS_Product DEF N!Bytes
<1>3. IsFiniteSet(S) /\ Cardinality(S) \in Nat BY <1>2, FS_Subset, FS_CardinalityType
<1> QED BY <1>3, SameCount
LEMMA Counts == ASSUME N!NetdiskAssumption, NEW u PROVE N!Used(u) \in Nat
  BY FiniteBytes DEF N!Used, N!InFiles, N!InSegments

LEMMA GoesOn ==
  ASSUME N!NetdiskAssumption, ReqTyped, NEW r \in Requests, N!Active(r), NEW s \in Steps, N!Goto(r, s)
  PROVE  /\ ReqTyped' /\ \A q \in Requests : N!Active(q)' <=> N!Active(q)
         /\ req'[r].step = s /\ \A q \in Requests \ {r} : req'[q] = req[q]
<1>1. req[r] \in Rows BY DEF ReqTyped, N!Active
<1>2. [req[r] EXCEPT !.step = s] \in Rows BY <1>1 DEF Rows
<1>3. [req[r] EXCEPT !.step = s] # N!Idle BY <1>2 DEF Rows, Ops, N!Idle
<1>4. req' \in [Requests -> {N!Idle} \cup Rows] BY <1>2 DEF N!Goto, ReqTyped
<1> QED BY <1>1, <1>2, <1>3, <1>4 DEF N!Goto, ReqTyped, N!Active, Rows

LEMMA Ends ==
  ASSUME N!NetdiskAssumption, ReqTyped, NEW r \in Requests, N!End(r)
  PROVE  /\ ReqTyped' /\ \A q \in Requests : N!Active(q)' <=> (q # r /\ N!Active(q))
         /\ \A q \in Requests \ {r} : req'[q] = req[q]
  BY DEF N!End, ReqTyped, N!Active

LEMMA Begins ==
  ASSUME N!NetdiskAssumption, ReqTyped, NEW r \in Requests, NEW kind \in Ops, NEW u \in Users, NEW v \in Users, NEW w \in Figures,
         NEW s \in Steps, N!Begin(r, kind, u, v, w, s)
  PROVE  /\ ReqTyped' /\ \A q \in Requests : N!Active(q)' <=> (q = r \/ N!Active(q))
         /\ req' = [req EXCEPT ![r] = [op |-> kind, user |-> u, want |-> w, todo |-> DOMAIN w, from |-> v,
                               found |-> [x \in DOMAIN w |-> 0], used |-> 0, count |-> FALSE, step |-> s]]
         /\ req[r] = N!Idle /\ ~N!Active(r) /\ req'[r].step = s
         /\ \A q \in Requests \ {r} : req'[q] = req[q]
<1> DEFINE n == [op |-> kind, user |-> u, want |-> w, todo |-> DOMAIN w, from |-> v,
                 found |-> [x \in DOMAIN w |-> 0], used |-> 0, count |-> FALSE, step |-> s]
<1>a. [x \in DOMAIN w |-> 0] \in [DOMAIN w -> 0 .. MaxSize] /\ DOMAIN w \subseteq Names BY FigureIs
<1>1. n \in Rows /\ \A x \in DOMAIN n.want : n.found[x] \in 0 .. n.want[x] BY <1>a, FigureIs DEF Rows, Chunks, N!Sizes
<1>2. n # N!Idle BY DEF N!Idle, Ops
<1>3. req' = [req EXCEPT ![r] = n] /\ req[r] = N!Idle BY DEF N!Begin, N!Active
<1>4. n.todo = DOMAIN n.want OBVIOUS
<1> HIDE DEF n
<1>5. ReqTyped' /\ \A q \in Requests : N!Active(q)' <=> (q = r \/ N!Active(q))
  BY <1>1, <1>2, <1>3, <1>4 DEF ReqTyped, N!Active
<1>6. req'[r] = n /\ \A q \in Requests \ {r} : req'[q] = req[q] BY <1>3 DEF ReqTyped
<1>7. n.step = s BY DEF n
<1> QED BY <1>3, <1>5, <1>6, <1>7 DEF n, N!Active

-----------------------------------------------------------------------------
(* Types, by action. *)

LEMMA NetdiskTypeInit == ASSUME N!NetdiskAssumption PROVE N!Init => TypeInv
<1> SUFFICES ASSUME N!Init PROVE TypeInv OBVIOUS
<1>1. disk \in [Users -> [Names -> 0 .. MaxSize]] BY DEF N!Init
<1>2. PartTyped
  <2>1. N!NoPart \in Parts /\ N!NoPart.got <= N!NoPart.size BY DEF N!NoPart, Parts
  <2> QED BY <2>1 DEF N!Init, PartTyped
<1>3. SizesTyped BY DEF N!Init, SizesTyped, Entries, N!Unknown, N!NotRunning
<1>4. ReqTyped BY DEF N!Init, ReqTyped
<1> QED BY <1>1, <1>2, <1>3, <1>4 DEF N!Init, TypeInv, ShareTyped

LEMMA SizedKept ==
  ASSUME N!NetdiskAssumption, TypeInv, NEW u \in Users, N!AskSize(u), UNCHANGED cache
  PROVE  SizesTyped'
  BY DEF TypeInv, SizesTyped, N!AskSize, N!Queued

LEMMA PartSet ==
  ASSUME N!NetdiskAssumption, PartTyped, NEW u \in Users, NEW x \in Names, NEW n \in Parts, n.got <= n.size, part' = [part EXCEPT ![u][x] = n]
  PROVE  PartTyped'
<1>1. part' \in [Users -> [Names -> Parts]] BY DEF PartTyped
<1>2. \A v \in Users, y \in Names : part'[v][y] = IF v = u /\ y = x THEN n ELSE part[v][y] BY DEF PartTyped
<1> QED BY <1>1, <1>2 DEF PartTyped

\* What is left of an upload is no record, and some segments.
LEMMA RemovedIs ==
  ASSUME N!NetdiskAssumption, PartTyped, NEW u \in Users, NEW x \in Names
  PROVE  N!Removed(u, x) \in Parts /\ N!Removed(u, x).got <= N!Removed(u, x).size
<1> DEFINE left == part[u][x].seg \ (1 .. part[u][x].size)
<1>1. left \in SUBSET N!Sizes BY DEF PartTyped, Parts
<1>2. N!Removed(u, x) = [N!NoPart EXCEPT !.seg = left] BY DEF N!Removed
<1> HIDE DEF left
<1>3. N!NoPart \in Parts /\ N!NoPart.got = 0 /\ N!NoPart.size = 0 BY DEF Parts, N!NoPart
<1>4. [N!NoPart EXCEPT !.seg = left] \in Parts BY <1>1, <1>3 DEF Parts
<1>5. [N!NoPart EXCEPT !.seg = left].got = 0 /\ [N!NoPart EXCEPT !.seg = left].size = 0 BY <1>3 DEF Parts
<1> QED BY <1>2, <1>4, <1>5

LEMMA StepTypes == ASSUME N!NetdiskAssumption, TypeInv, NEW r \in Requests, N!Step(r) PROVE TypeInv'
<1> USE DEF TypeInv, N!At
<1>r. N!Active(r) => req[r] \in Rows /\ req[r].user \in Users /\ DOMAIN req[r].want \subseteq Names
  BY FigureIs DEF ReqTyped, N!Active, Rows
<1>1. CASE N!Estimate(r)
  <2> DEFINE u == req[r].user
  <2>1. SizesTyped' BY <1>1, <1>r, SizedKept DEF N!Estimate
  <2>2. ReqTyped' /\ (\A q \in Requests : N!Active(q)' <=> N!Active(q))
        /\ req'[r].step # "finish" /\ \A q \in Requests \ {r} : req'[q] = req[q]
    <3>1. CASE cache[u].known
      <4> DEFINE n == [req[r] EXCEPT !.used = cache[u].bytes, !.step = "check"]
      <4>1. req' = [req EXCEPT ![r] = n] BY <1>1, <3>1 DEF N!Estimate, ReqTyped, N!Active
      <4>2. cache[u].bytes \in Nat BY <1>1, <1>r DEF N!Estimate, SizesTyped, Entries
      <4>3. n \in Rows BY <1>1, <1>r, <4>2 DEF N!Estimate, Rows, Steps
      <4>4. n # N!Idle BY <4>3 DEF Rows, Ops, N!Idle
      <4>5. n.step = "check" /\ n.todo = req[r].todo /\ n.want = req[r].want /\ n.found = req[r].found BY <1>1, <1>r DEF Rows, N!Estimate
      <4> HIDE DEF n
      <4> QED BY <1>1, <4>1, <4>3, <4>4, <4>5 DEF ReqTyped, N!Active, N!Estimate
    <3>2. CASE ~cache[u].known BY <1>1, <3>2, GoesOn DEF N!Estimate, Steps
    <3> QED BY <3>1, <3>2
  <2> QED BY <1>1, <2>1, <2>2 DEF N!Estimate, N!Forget, PartTyped, ShareTyped, N!tasks
<1>2. CASE N!OwnWalk(r)
  <2> DEFINE n == [req[r] EXCEPT !.used = N!Used(req[r].user), !.step = "check"]
  <2>1. req' = [req EXCEPT ![r] = n] BY <1>2 DEF N!OwnWalk, ReqTyped, N!Active
  <2>2. n \in Rows BY <1>2, <1>r, Counts DEF N!OwnWalk, Rows, Steps
  <2>3. n # N!Idle BY <2>2 DEF Rows, Ops, N!Idle
  <2>4. n.step = "check" /\ n.todo = req[r].todo /\ n.want = req[r].want /\ n.found = req[r].found BY <1>2, <1>r DEF Rows, N!OwnWalk
  <2> HIDE DEF n
  <2>5. ReqTyped' /\ (\A q \in Requests : N!Active(q)' <=> N!Active(q))
        /\ req'[r].step # "finish" /\ \A q \in Requests \ {r} : req'[q] = req[q]
    BY <1>2, <2>1, <2>2, <2>3, <2>4 DEF ReqTyped, N!Active, N!OwnWalk
  <2> QED BY <1>2, <2>5 DEF N!OwnWalk, PartTyped, ShareTyped, SizesTyped, N!sizes, N!tasks
<1>3. CASE N!Check(r)
  <2>1. CASE N!Goto(r, "write") /\ UNCHANGED lone
    BY <1>3, <2>1, GoesOn DEF N!Check, Steps, PartTyped, ShareTyped, SizesTyped, N!sizes, N!tasks
  <2>2. CASE N!End(r) /\ N!Forget(r)
    BY <1>3, <2>2, Ends DEF N!Check, N!Forget, PartTyped, ShareTyped, SizesTyped, N!sizes, N!tasks
  <2> QED BY <1>3, <2>1, <2>2 DEF N!Check
<1>4. CASE N!Written(r)
  <2>1. CASE N!Goto(r, "invalidate") /\ UNCHANGED lone
    BY <1>4, <2>1, GoesOn DEF N!Written, Steps, PartTyped, ShareTyped, SizesTyped, N!sizes, N!tasks
  <2>2. CASE N!End(r) /\ N!Forget(r)
    BY <1>4, <2>2, Ends DEF N!Written, N!Forget, PartTyped, ShareTyped, SizesTyped, N!sizes, N!tasks
  <2> QED BY <1>4, <2>1, <2>2 DEF N!Written
<1>5. CASE N!Invalidate(r)
  <2>1. SizesTyped' BY <1>5, <1>r DEF N!Invalidate, SizesTyped, Entries
  <2> QED BY <1>5, <2>1, Ends DEF N!Invalidate, N!Forget, PartTyped, ShareTyped, N!tasks
<1>6. CASE N!Finish(r)
  <2>1. CASE N!Goto(r, "invalidate")
    BY <1>6, <2>1, GoesOn DEF N!Finish, Steps, PartTyped, ShareTyped, SizesTyped, N!sizes
  <2>2. CASE N!End(r) /\ req[r].op # "complete"
    BY <1>6, <2>2, Ends DEF N!Finish, PartTyped, ShareTyped, SizesTyped, N!sizes, N!End
  <2> QED BY <1>6, <2>1, <2>2 DEF N!Finish
<1>7. ASSUME NEW x \in Names, N!Write(r, x) PROVE TypeInv'
  <2>1. PICK end \in N!Outcomes(r, x) :
           /\ disk' = [disk EXCEPT ![req[r].user][x] = end.size]
           /\ req' = [req EXCEPT ![r].todo = @ \ {x}, ![r].count = @ \/ end.ok]
    BY <1>7 DEF N!Write
  <2> DEFINE n == [req[r] EXCEPT !.todo = @ \ {x}, !.count = @ \/ end.ok]
  <2>2. x \in DOMAIN req[r].want /\ req[r].from \in Users BY <1>7, <1>r DEF N!Write, ReqTyped, N!Active, Rows
  <2>3. req[r].want[x] \in 0 .. MaxSize /\ disk[req[r].from][x] \in 0 .. MaxSize
    BY <1>7, <1>r, <2>2, FigureIs DEF N!Write, Rows, N!Sizes
  <2>a. disk[req[r].user][x] \in 0 .. MaxSize BY <1>7, <1>r DEF N!Write
  <2> DEFINE whole == IF req[r].op = "save" THEN disk[req[r].from][x] ELSE req[r].want[x]
             partial == IF req[r].op = "upload" THEN {0} ELSE 0 .. whole
  <2>b. whole \in 0 .. MaxSize /\ partial \subseteq 0 .. MaxSize BY <2>3
  <2>c. end \in {[size |-> whole, ok |-> TRUE]} \cup [size : partial \cup {disk[req[r].user][x]}, ok : {FALSE}]
    BY <2>1 DEF N!Outcomes
  <2> HIDE DEF whole, partial
  <2>4. end.size \in 0 .. MaxSize /\ end.ok \in BOOLEAN
    <3>1. CASE end = [size |-> whole, ok |-> TRUE] BY <3>1, <2>b
    <3>2. CASE end \in [size : partial \cup {disk[req[r].user][x]}, ok : {FALSE}] BY <3>2, <2>a, <2>b
    <3> QED BY <2>c, <3>1, <3>2
  <2>5. disk' \in [Users -> [Names -> 0 .. MaxSize]] BY <1>7, <1>r, <2>1, <2>4 DEF N!Write
  <2>6. req' = [req EXCEPT ![r] = n] BY <1>7, <2>1 DEF N!Write, ReqTyped, N!Active
  <2>7. (req[r].count \/ end.ok) \in BOOLEAN /\ (req[r].todo \ {x}) \in SUBSET Names
    BY <1>7, <1>r DEF N!Write, Rows
  <2>8. n \in Rows BY <1>7, <1>r, <2>7 DEF N!Write, Rows
  <2>9. n # N!Idle BY <2>8 DEF Rows, Ops, N!Idle
  <2>10. n.step = "write" /\ n.todo \subseteq req[r].todo /\ n.want = req[r].want /\ n.found = req[r].found BY <1>7, <1>r DEF Rows, N!Write
  <2> HIDE DEF n
  <2>11. ReqTyped' /\ (\A q \in Requests : N!Active(q)' <=> N!Active(q))
         /\ req'[r].step # "finish" /\ \A q \in Requests \ {r} : req'[q] = req[q]
    BY <1>7, <2>6, <2>8, <2>9, <2>10 DEF ReqTyped, N!Active, N!Write
  <2> QED BY <1>7, <2>5, <2>11 DEF N!Write, N!WrittenBy, PartTyped, ShareTyped, SizesTyped, N!sizes, N!tasks
<1>8. ASSUME NEW x \in Names, N!SaveRecord(r, x) PROVE TypeInv'
  <2>1. x \in DOMAIN req[r].want BY <1>8, <1>r DEF N!SaveRecord, ReqTyped, N!Active
  <2>2. req[r].want[x] \in 0 .. MaxSize BY <1>8, <1>r, <2>1, FigureIs DEF N!SaveRecord, Rows, N!Sizes
  <2> DEFINE u == req[r].user
             n == [part[u][x] EXCEPT !.size = req[r].want[x], !.got = N!There(r, x)]
  <2>a. part' = [part EXCEPT ![u][x] = n] BY <1>8 DEF N!SaveRecord
  <2>3. N!There(r, x) \in 0 .. req[r].want[x]
    BY <1>8, <1>r, <2>1, <2>2 DEF N!There, N!SaveRecord, ReqTyped, N!Active, Rows
  <2>c. u \in Users /\ part[u][x] \in Parts BY <1>8, <1>r DEF N!SaveRecord, PartTyped
  <2>d. N!There(r, x) \in 0 .. MaxSize /\ N!There(r, x) <= req[r].want[x] BY <2>2, <2>3
  <2>e. part[u][x].seg \in SUBSET N!Sizes BY <2>c DEF Parts
  <2>f. n \in Parts /\ n.got = N!There(r, x) /\ n.size = req[r].want[x] BY <2>2, <2>c, <2>d, <2>e DEF Parts
  <2> HIDE DEF u, n
  <2>b. u \in Users /\ n \in Parts /\ n.got <= n.size BY <2>c, <2>d, <2>f
  <2>4. PartTyped' BY <2>a, <2>b, PartSet
  <2> QED BY <1>8, <2>4, Ends DEF N!SaveRecord, ShareTyped, SizesTyped, N!sizes, N!tasks
<1>9. CASE N!ReadRecord(r)
  <2> DEFINE u == req[r].user
             w == req[r].want
             f == [x \in DOMAIN w |-> N!Received(u, x, w[x])]
             n == [req[r] EXCEPT !.found = f, !.step = "estimate"]
  <2>1. w \in Figures /\ DOMAIN w \subseteq Names /\ u \in Users /\ req[r] \in Rows /\ \A x \in DOMAIN w : w[x] \in N!Sizes
    BY <1>9, <1>r, FigureIs DEF N!ReadRecord, Rows
  <2>2. \A x \in DOMAIN w : N!Received(u, x, w[x]) \in 0 .. w[x] /\ N!Received(u, x, w[x]) \in 0 .. MaxSize
    BY <2>1 DEF PartTyped, Parts, N!Received, N!Sizes
  <2>3. f \in Chunks /\ \A x \in DOMAIN w : f[x] \in 0 .. w[x]
    <3>1. f \in [DOMAIN w -> 0 .. MaxSize] BY <2>2
    <3> QED BY <2>1, <2>2, <3>1 DEF Chunks
  <2>4. req' = [req EXCEPT ![r] = n] BY <1>9 DEF N!ReadRecord, ReqTyped, N!Active
  <2> HIDE DEF f
  <2>5. n \in Rows BY <2>1, <2>3 DEF Rows, Steps
  <2>6. n # N!Idle BY <2>5 DEF Rows, Ops, N!Idle
  <2>7. n.step = "estimate" /\ n.todo = req[r].todo /\ n.want = w /\ n.found = f BY <2>1 DEF Rows
  <2> HIDE DEF n
  <2>8. ReqTyped' /\ (\A q \in Requests : N!Active(q)' <=> N!Active(q))
        /\ req'[r].step = "estimate" /\ (\A q \in Requests \ {r} : req'[q] = req[q])
    BY <1>9, <2>3, <2>4, <2>5, <2>6, <2>7 DEF ReqTyped, N!Active, N!ReadRecord
  <2> QED BY <1>9, <2>8 DEF N!ReadRecord, PartTyped, ShareTyped, SizesTyped, N!sizes, N!tasks
<1> QED BY <1>1, <1>2, <1>3, <1>4, <1>5, <1>6, <1>7, <1>8, <1>9 DEF N!Step

LEMMA ArriveTypes ==
  ASSUME N!NetdiskAssumption, TypeInv, NEW r \in Requests, NEW u \in Users, N!Arrive(r, u)
  PROVE  TypeInv'
<1> USE DEF TypeInv
<1>1. ASSUME NEW w \in Wants, N!BeginWrite(r, u, w) PROVE TypeInv'
  <2>1. w \in Figures BY DEF Figures
  <2>2. PICK kind \in {"upload", "transfer", "restore", "copy"} :
          N!Begin(r, kind, u, u, w, N!FirstStep(kind)) /\ lone' = IF kind = "copy" THEN lone ELSE lone \cup {r}
    BY <1>1 DEF N!BeginWrite
  <2>3. kind \in Ops /\ N!FirstStep(kind) \in Steps \ {"finish"} BY DEF Ops, Steps, N!FirstStep
  <2>4. lone' \subseteq lone \cup {r} BY <2>2
  <2>5. ReqTyped' /\ (\A q \in Requests : N!Active(q)' <=> (q = r \/ N!Active(q))) /\ req'[r].step = N!FirstStep(kind)
        /\ (\A q \in Requests \ {r} : req'[q] = req[q]) /\ ~N!Active(r)
    BY <2>1, <2>2, <2>3, Begins
  <2> QED BY <1>1, <2>3, <2>4, <2>5 DEF N!BeginWrite, PartTyped, ShareTyped, SizesTyped, N!sizes, N!tasks
<1>2. ASSUME NEW t \in Tokens, N!BeginSave(r, u, t) PROVE TypeInv'
  <2> DEFINE v == share[t].owner
             w == [x \in {y \in share[t].names : disk[v][y] > 0} |-> disk[v][x]]
  <2>1. v \in Users /\ share[t].names \subseteq Names BY <1>2 DEF N!BeginSave, ShareTyped
  <2>2. DOMAIN w \subseteq Names /\ w \in [DOMAIN w -> N!Sizes] BY <2>1 DEF N!Sizes
  <2>3. w \in Figures BY <2>2, IsFigure
  <2>4. N!Begin(r, "save", u, v, w, "estimate") BY <1>2 DEF N!BeginSave
  <2> HIDE DEF v, w
  <2>5. "save" \in Ops /\ "estimate" \in Steps BY DEF Ops, Steps
  <2> QED BY <1>2, <2>1, <2>3, <2>4, <2>5, Begins DEF N!BeginSave, PartTyped, ShareTyped, SizesTyped, N!sizes, N!tasks
<1>3. ASSUME NEW x \in Names, NEW n \in N!Sizes, N!BeginInit(r, u, x, n) PROVE TypeInv'
  <2>1. "init" \in Ops /\ "read" \in Steps BY DEF Ops, Steps
  <2>2. session' \subseteq N!Keys BY <1>3 DEF N!BeginInit, N!Keys
  <2>3. N!Begin(r, "init", u, u, N!Only(x, n), "read") BY <1>3 DEF N!BeginInit
  <2>4. ReqTyped' /\ (\A q \in Requests : N!Active(q)' <=> (q = r \/ N!Active(q))) /\ req'[r].step = "read"
        /\ (\A q \in Requests \ {r} : req'[q] = req[q]) /\ ~N!Active(r)
    <3>1. N!Only(x, n) \in Figures BY OnlyIs
    <3> QED BY <2>1, <2>3, <3>1, Begins
  <2> QED BY <1>3, <2>2, <2>4 DEF N!BeginInit, PartTyped, ShareTyped, SizesTyped, N!sizes
<1>4. ASSUME NEW x \in Names, N!Complete(r, u, x) PROVE TypeInv'
  <2>1. part[u][x].size \in N!Sizes BY <1>4 DEF N!Complete, N!Recorded, PartTyped, Parts, N!Sizes
  <2>2. N!Begin(r, "complete", u, u, N!Only(x, part[u][x].size), "finish") BY <1>4 DEF N!Complete
  <2>3. "complete" \in Ops /\ "finish" \in Steps BY DEF Ops, Steps
  <2>5. PartTyped' BY <1>4, RemovedIs, PartSet DEF N!Complete
  <2>6. disk' \in [Users -> [Names -> 0 .. MaxSize]] BY <1>4, <2>1 DEF N!Complete, N!Sizes
  <2> QED BY <1>4, <2>1, <2>2, <2>3, <2>5, <2>6, OnlyIs, Begins DEF N!Complete, ShareTyped, SizesTyped, N!sizes, N!tasks
<1>5. ASSUME NEW x \in Names, N!Abort(r, u, x) PROVE TypeInv'
  <2>1. 1 \in N!Sizes BY DEF N!Sizes
  <2>2. N!Begin(r, "abort", u, u, N!Only(x, 1), "finish") BY <1>5 DEF N!Abort
  <2>3. "abort" \in Ops /\ "finish" \in Steps BY DEF Ops, Steps
  <2>4. part' = part \/ part' = [part EXCEPT ![u][x] = N!Removed(u, x)] BY <1>5 DEF N!Abort, PartTyped
  <2>5. PartTyped'
    <3>1. CASE part' = part BY <3>1 DEF PartTyped
    <3> QED BY <2>4, <3>1, RemovedIs, PartSet
  <2> QED BY <1>5, <2>1, <2>2, <2>3, <2>5, OnlyIs, Begins DEF N!Abort, ShareTyped, SizesTyped, N!sizes, N!tasks
<1>6. ASSUME NEW x \in Names, N!Delete(r, u, x) PROVE TypeInv'
  <2>1. 1 \in N!Sizes BY DEF N!Sizes
  <2>2. N!Begin(r, "delete", u, u, N!Only(x, 1), "invalidate") BY <1>6 DEF N!Delete
  <2>3. "delete" \in Ops /\ "invalidate" \in Steps BY DEF Ops, Steps
  <2>4. disk' \in [Users -> [Names -> 0 .. MaxSize]] BY <1>6 DEF N!Delete
  <2> QED BY <1>6, <2>1, <2>2, <2>3, <2>4, OnlyIs, Begins DEF N!Delete, PartTyped, ShareTyped, SizesTyped, N!sizes, N!tasks
<1> QED BY <1>1, <1>2, <1>3, <1>4, <1>5, <1>6 DEF N!Arrive

LEMMA OtherTypes ==
  ASSUME N!NetdiskAssumption, TypeInv
  PROVE  /\ \A u \in Users : N!QuotaPage(u) \/ N!Walk(u) \/ N!StoreSize(u) \/ N!Expire(u) => TypeInv'
         /\ \A u \in Users, x \in Names : N!Chunk(u, x) => TypeInv'
         /\ \A u \in Users, x \in Names, n \in 0 .. MaxSize : N!Outside(u, x, n) => TypeInv'
         /\ \A t \in Tokens : N!ShareEnds(t) \/ (\E u \in Users, F \in SUBSET Names \ {{}} : N!ShareCreate(u, t, F)) => TypeInv'
         /\ N!TaskList => TypeInv'
<1> USE DEF TypeInv
<1>1. ASSUME NEW u \in Users, N!QuotaPage(u) PROVE TypeInv'
  BY <1>1, SizedKept DEF N!QuotaPage, PartTyped, ShareTyped, ReqTyped, N!Active, N!tasks, N!bounds
<1>2. ASSUME NEW u \in Users, N!Walk(u) PROVE TypeInv'
  BY <1>2, Counts DEF N!Walk, PartTyped, ShareTyped, ReqTyped, SizesTyped, N!Active, N!tasks, N!bounds
<1>3. ASSUME NEW u \in Users, N!StoreSize(u) PROVE TypeInv'
  <2>1. [known |-> TRUE, bytes |-> scan[u], fresh |-> TRUE] \in Entries BY <1>3 DEF N!StoreSize, SizesTyped, Entries
  <2>2. SizesTyped' BY <1>3, <2>1 DEF N!StoreSize, SizesTyped, N!NotRunning
  <2> QED BY <1>3, <2>2 DEF N!StoreSize, PartTyped, ShareTyped, ReqTyped, N!Active, N!tasks, N!bounds
<1>4. ASSUME NEW u \in Users, N!Expire(u) PROVE TypeInv'
  <2>1. SizesTyped' BY <1>4 DEF N!Expire, SizesTyped, Entries
  <2> QED BY <1>4, <2>1 DEF N!Expire, PartTyped, ShareTyped, ReqTyped, N!Active, N!tasks, N!bounds
<1>5. ASSUME NEW u \in Users, NEW x \in Names, N!Chunk(u, x) PROVE TypeInv'
  <2> DEFINE g == part[u][x].got + 1
             h == part[u][x].seg \cup {g}
             n == [part[u][x] EXCEPT !.got = g, !.seg = h]
  <2>1. part' = [part EXCEPT ![u][x] = n] BY <1>5 DEF N!Chunk, PartTyped
  <2>a. part[u][x] \in Parts /\ part[u][x].got < part[u][x].size BY <1>5 DEF N!Chunk, PartTyped
  <2>b. g \in 0 .. MaxSize /\ g \in N!Sizes /\ g <= part[u][x].size BY <2>a DEF Parts, N!Sizes
  <2>d. h \in SUBSET N!Sizes /\ part[u][x].size \in 0 .. MaxSize BY <2>a, <2>b DEF Parts
  <2> HIDE DEF g, h
  <2>c. n \in Parts /\ n.got = g /\ n.size = part[u][x].size BY <2>a, <2>b, <2>d DEF Parts
  <2> HIDE DEF n
  <2>2. n \in Parts /\ n.got <= n.size BY <2>b, <2>c
  <2>3. PartTyped' BY <2>1, <2>2, PartSet
  <2> QED BY <1>5, <2>3 DEF N!Chunk, SizesTyped, ShareTyped, ReqTyped, N!Active, N!sizes, N!tasks, N!bounds
<1>6. ASSUME NEW u \in Users, NEW x \in Names, NEW n \in 0 .. MaxSize, N!Outside(u, x, n) PROVE TypeInv'
  BY <1>6 DEF N!Outside, PartTyped, SizesTyped, ShareTyped, ReqTyped, N!Active, N!sizes, N!tasks
<1>7. ASSUME NEW t \in Tokens, N!ShareEnds(t) PROVE TypeInv'
  BY <1>7 DEF N!ShareEnds, PartTyped, SizesTyped, ShareTyped, ReqTyped, N!Active, N!sizes, N!tasks, N!bounds
<1>8. ASSUME NEW t \in Tokens, NEW u \in Users, NEW F \in SUBSET Names, N!ShareCreate(u, t, F) PROVE TypeInv'
  BY <1>8 DEF N!ShareCreate, PartTyped, SizesTyped, ShareTyped, ReqTyped, N!Active, N!sizes, N!tasks
<1>9. ASSUME N!TaskList PROVE TypeInv'
  BY <1>9 DEF N!TaskList, N!SnapBegin, N!SnapStat, N!SnapDrop, PartTyped, SizesTyped, ShareTyped, ReqTyped, N!Active, N!sizes, N!bounds
<1> QED BY <1>1, <1>2, <1>3, <1>4, <1>5, <1>6, <1>7, <1>8, <1>9

LEMMA NetdiskTypeStep == ASSUME N!NetdiskAssumption, TypeInv, [N!Next]_N!vars PROVE TypeInv'
<1>1. CASE UNCHANGED N!vars
  BY <1>1 DEF N!vars, N!sizes, N!tasks, N!bounds, TypeInv, PartTyped, SizesTyped, ShareTyped, ReqTyped, N!Active
<1>2. CASE N!Next
  <2>1. \A k \in Mounted : k[1] \in Users /\ k[2] \in Names BY DEF N!Keys
  <2> QED BY <1>2, <2>1, StepTypes, ArriveTypes, OtherTypes DEF N!Next
<1> QED BY <1>1, <1>2

\* Sizes, records and figures are what they are taken for, and a request that is held
\* against the quota is one at work.
THEOREM NetdiskTypeCorrect == ASSUME N!NetdiskAssumption PROVE NetdiskSafety => []N!TypeOK
<1>1. TypeInv => N!TypeOK
  BY DEF TypeInv, N!TypeOK, PartTyped, SizesTyped, Parts, Entries, N!Keys
<1> QED BY <1>1, NetdiskTypeInit, NetdiskTypeStep, PTL DEF NetdiskSafety
-----------------------------------------------------------------------------
(***************************************************************************)
(* The quota.  A request whose figure was right carries its room with it:  *)
(* what is stored, with what it has still to write, is within the quota,   *)
(* and each file it writes moves bytes from the second part to the first.  *)
(***************************************************************************)
Todo(r) == {b \in N!Bytes : b[1] \in req[r].todo /\ b[2] <= req[r].want[b[1]]}

Room(r) ==
  LET u == req[r].user IN
  Quota[u] > 0 =>
    /\ req[r].step = "write" =>
         N!Cardinality(IF req[r].op = "init" THEN N!InFiles(u) ELSE N!InFiles(u) \cup Todo(r))
           + N!Cardinality(N!InSegments(u)) <= Quota[u]
    /\ req[r].step = "invalidate" => N!Used(u) <= Quota[u]

Held(r) ==
  /\ req[r].op \in {"upload", "transfer", "restore", "save", "init"}
  /\ req[r].step \in {"read", "estimate", "walk", "check"} => req[r].todo = DOMAIN req[r].want
  /\ req[r].step = "check" => req[r].used = N!Used(req[r].user)
  /\ req[r].op = "save" => \A x \in req[r].todo : disk[req[r].from][x] = req[r].want[x]
  /\ Room(r)

QuotaInv == \A r \in lone : Held(r)

LEMMA SmallerCount ==
  ASSUME N!NetdiskAssumption, NEW S, NEW T \in SUBSET N!Bytes, S \subseteq T PROVE N!Cardinality(S) <= N!Cardinality(T) /\ N!Cardinality(S) \in Nat /\ N!Cardinality(T) \in Nat
<1>1. IsFiniteSet(T) BY FiniteBytes, SameCount
<1>2. Cardinality(S) <= Cardinality(T) BY <1>1, FS_Subset
<1>3. S \in SUBSET N!Bytes OBVIOUS
<1> QED BY <1>2, <1>3, FiniteBytes, SameCount

LEMMA SumOfCounts ==
  ASSUME N!NetdiskAssumption, NEW S \in SUBSET N!Bytes, NEW T \in SUBSET N!Bytes
  PROVE  N!Cardinality(S \cup T) <= N!Cardinality(S) + N!Cardinality(T)
<1>1. N!IsFiniteSet(S) /\ N!IsFiniteSet(T) /\ N!Cardinality(S \cap T) \in Nat /\ N!Cardinality(S) \in Nat /\ N!Cardinality(T) \in Nat
  BY FiniteBytes, S \cap T \in SUBSET N!Bytes
<1>2. IsFiniteSet(S) /\ IsFiniteSet(T) BY <1>1, SameCount
<1>3. Cardinality(S \cup T) = Cardinality(S) + Cardinality(T) - Cardinality(S \cap T) BY <1>2, FS_Union
<1>4. N!Cardinality(S \cup T) = N!Cardinality(S) + N!Cardinality(T) - N!Cardinality(S \cap T) BY <1>3, SameCount
<1> QED BY <1>1, <1>4

LEMMA SameStore ==
  ASSUME N!NetdiskAssumption, disk' = disk, part' = part
  PROVE  \A u : N!InFiles(u)' = N!InFiles(u) /\ N!InSegments(u)' = N!InSegments(u) /\ N!Used(u)' = N!Used(u)
  BY DEF N!InFiles, N!InSegments, N!Used

\* A request that does not move, while nothing is written, keeps its room.
LEMMA HeldStays ==
  ASSUME N!NetdiskAssumption, NEW r, Held(r), req'[r] = req[r], disk' = disk, part' = part
  PROVE  Held(r)'
<1>1. Todo(r)' = Todo(r) BY DEF Todo
<1> DEFINE u == req[r].user
<1>2. N!InFiles(u)' = N!InFiles(u) /\ N!InSegments(u)' = N!InSegments(u) /\ N!Used(u)' = N!Used(u)
  BY DEF N!InFiles, N!InSegments, N!Used
<1>3. u' = u OBVIOUS
<1>4. Room(r)'
  BY <1>1, <1>2 DEF Held, Room
<1> QED BY <1>2, <1>4 DEF Held

LEMMA HeldUntouched ==
  ASSUME N!NetdiskAssumption, QuotaInv, disk' = disk, part' = part, NEW r \in Requests, \A q \in Requests \ {r} : req'[q] = req[q],
         lone \subseteq Requests, lone' \subseteq lone \cup {r}, r \in lone' => Held(r)'
  PROVE  QuotaInv'
<1>1. ASSUME NEW q \in lone', q # r PROVE Held(q)'
  BY <1>1, HeldStays DEF QuotaInv
<1> QED BY <1>1 DEF QuotaInv

LEMMA RowOf ==
  ASSUME N!NetdiskAssumption, TypeInv, NEW r \in Requests, N!Active(r)
  PROVE  req[r] \in Rows /\ req[r].user \in Users /\ DOMAIN req[r].want \subseteq Names
         /\ (\A x \in DOMAIN req[r].want : req[r].want[x] \in N!Sizes) /\ req[r].todo \subseteq DOMAIN req[r].want
         /\ req = [q \in Requests |-> req[q]]
  BY FigureIs DEF TypeInv, ReqTyped, N!Active, Rows

LEMMA EstimateHolds ==
  ASSUME N!NetdiskAssumption, TypeInv, QuotaInv, NEW r \in Requests, N!ReadRecord(r) \/ N!Estimate(r) \/ N!OwnWalk(r)
  PROVE  QuotaInv'
<1>r. N!Active(r) /\ disk' = disk /\ part' = part BY DEF N!ReadRecord, N!Estimate, N!OwnWalk, N!At
<1>s. req[r].step \in {"read", "estimate", "walk"} BY DEF N!ReadRecord, N!Estimate, N!OwnWalk, N!At
<1> DEFINE u == req[r].user
<1>1. CASE lone' = lone \ {r} /\ \A q \in Requests \ {r} : req'[q] = req[q]
  BY <1>r, <1>1, HeldUntouched DEF TypeInv
<1>2. ASSUME lone' = lone, NEW s \in {"walk", "check"}, NEW n \in Nat, s = "check" => n = N!Used(u),
             req' = [req EXCEPT ![r] = [req[r] EXCEPT !.used = n, !.step = s]]
      PROVE  QuotaInv'
  <2>1. ASSUME r \in lone PROVE Held(r)'
    <3>1. Held(r) BY <2>1 DEF QuotaInv
    <3> DEFINE m == [req[r] EXCEPT !.used = n, !.step = s]
    <3>2. /\ m.op = req[r].op /\ m.user = u /\ m.todo = req[r].todo /\ m.want = req[r].want
          /\ m.from = req[r].from /\ m.used = n /\ m.step = s
      BY <1>r, RowOf DEF Rows
    <3>3. req'[r] = m BY <1>2, <1>r, RowOf
    <3>4. N!Used(u)' = N!Used(u) BY <1>r, <3>2, <3>3 DEF N!Used, N!InFiles, N!InSegments
    <3> HIDE DEF m
    <3>5. Room(r)' BY <3>2, <3>3, <1>2 DEF Room
    <3>6. req'[r].user = u BY <3>2, <3>3
    <3>7. req'[r].step = "check" => req'[r].used = N!Used(req[r].user)'
      BY <1>2, <3>2, <3>3, <3>4, <3>6
    <3> QED BY <1>2, <1>r, <1>s, <3>1, <3>2, <3>3, <3>5, <3>6, <3>7 DEF Held
  <2>2. \A q \in Requests \ {r} : req'[q] = req[q] BY <1>2, <1>r, RowOf
  <2> QED BY <1>r, <1>2, <2>1, <2>2, HeldUntouched DEF TypeInv
<1>3. CASE N!Estimate(r)
  <2>1. CASE cache[u].known
    <3>1. req' = [req EXCEPT ![r] = [req[r] EXCEPT !.used = cache[u].bytes, !.step = "check"]]
      BY <1>3, <2>1, <1>r, RowOf DEF N!Estimate
    <3>2. cache[u].bytes \in Nat BY <1>r, RowOf DEF TypeInv, SizesTyped, Entries
    <3>3. CASE cache[u].bytes = N!Used(u) /\ lone' = lone BY <3>1, <3>2, <3>3, <1>2
    <3>4. CASE lone' = lone \ {r}
      <4>1. \A q \in Requests \ {r} : req'[q] = req[q] BY <3>1, <1>r, RowOf
      <4> QED BY <3>4, <4>1, <1>1
    <3> QED BY <1>3, <2>1, <3>3, <3>4 DEF N!Estimate, N!Forget
  <2>2. CASE ~cache[u].known
    <3>1. req[r].used \in Nat BY <1>r, RowOf DEF Rows
    <3>2. [req[r] EXCEPT !.used = req[r].used, !.step = "walk"] = [req[r] EXCEPT !.step = "walk"]
      BY <1>r, RowOf DEF Rows
    <3>3. req' = [req EXCEPT ![r] = [req[r] EXCEPT !.step = "walk"]] /\ lone' = lone
      BY <1>3, <2>2, <1>r, RowOf DEF N!Estimate, N!Goto
    <3> QED BY <3>1, <3>2, <3>3, <1>2
  <2> QED BY <2>1, <2>2
<1>4. CASE N!OwnWalk(r)
  <2>1. req' = [req EXCEPT ![r] = [req[r] EXCEPT !.used = N!Used(u), !.step = "check"]] /\ lone' = lone
    BY <1>4, <1>r, RowOf DEF N!OwnWalk
  <2> QED BY <2>1, <1>2, Counts
<1>5. CASE N!ReadRecord(r)
  <2> DEFINE f == [x \in DOMAIN req[r].want |-> N!Received(u, x, req[r].want[x])]
             m == [req[r] EXCEPT !.found = f, !.step = "estimate"]
  <2>1. req' = [req EXCEPT ![r] = m] /\ lone' = lone BY <1>5, <1>r, RowOf DEF N!ReadRecord
  <2> HIDE DEF f
  <2>2. /\ m.op = req[r].op /\ m.user = u /\ m.todo = req[r].todo /\ m.want = req[r].want
        /\ m.from = req[r].from /\ m.step = "estimate"
    BY <1>r, RowOf DEF Rows
  <2>3. req'[r] = m /\ \A q \in Requests \ {r} : req'[q] = req[q] BY <2>1, <1>r, RowOf
  <2> HIDE DEF m
  <2>4. ASSUME r \in lone PROVE Held(r)'
    <3>1. Held(r) BY <2>4 DEF QuotaInv
    <3> QED BY <1>r, <1>s, <2>2, <2>3, <3>1 DEF Held, Room
  <2> QED BY <1>r, <2>1, <2>3, <2>4, HeldUntouched DEF TypeInv
<1> QED BY <1>3, <1>4, <1>5

LEMMA CheckHolds ==
  ASSUME N!NetdiskAssumption, TypeInv, QuotaInv, NEW r \in Requests, N!Check(r)
  PROVE  QuotaInv'
<1>r. N!Active(r) /\ disk' = disk /\ part' = part /\ req[r].step = "check" BY DEF N!Check, N!At
<1> DEFINE u == req[r].user
<1>1. CASE N!End(r) /\ N!Forget(r)
  BY <1>r, <1>1, HeldUntouched, Ends DEF TypeInv, N!Forget
<1>2. CASE N!Fits(r) /\ N!Goto(r, "write") /\ UNCHANGED lone
  <2> DEFINE m == [req[r] EXCEPT !.step = "write"]
  <2>1. ASSUME r \in lone PROVE Held(r)'
    <3>1. Held(r) BY <2>1 DEF QuotaInv
    <3>2. /\ m.op = req[r].op /\ m.user = u /\ m.todo = req[r].todo /\ m.want = req[r].want
          /\ m.from = req[r].from /\ m.step = "write"
      BY <1>r, RowOf DEF Rows
    <3>3. req'[r] = m BY <1>2, <1>r, RowOf DEF N!Goto
    <3> HIDE DEF m
    <3>4. req[r].used = N!Used(u) /\ req[r].todo = DOMAIN req[r].want BY <1>r, <3>1 DEF Held
    <3>5. N!InFiles(u) \in SUBSET N!Bytes /\ N!Added(r) \in SUBSET N!Bytes /\ Todo(r) \in SUBSET N!Bytes /\ N!InSegments(u) \in SUBSET N!Bytes
      BY DEF N!InFiles, N!Added, Todo, N!InSegments
    <3>6. ASSUME Quota[u] > 0
          PROVE  N!Cardinality(IF req[r].op = "init" THEN N!InFiles(u) ELSE N!InFiles(u) \cup Todo(r))
                   + N!Cardinality(N!InSegments(u)) <= Quota[u]
      <4>1. N!Used(u) + N!Cardinality(N!Added(r)) <= Quota[u] BY <1>2, <3>4, <3>6 DEF N!Fits
      <4>2. N!Cardinality(N!InFiles(u)) \in Nat /\ N!Cardinality(N!Added(r)) \in Nat /\ N!Cardinality(N!InSegments(u)) \in Nat
            /\ Quota[u] \in Nat
        BY <3>5, <1>r, RowOf, FiniteBytes
      <4>3. CASE req[r].op = "init" BY <4>1, <4>2, <4>3 DEF N!Used
      <4>4. CASE req[r].op # "init"
        <5>1. N!InFiles(u) \cup Todo(r) \subseteq N!InFiles(u) \cup N!Added(r)
          <6>1. ASSUME NEW b \in Todo(r), b \notin N!InFiles(u) PROVE b \in N!Added(r)
            <7>1. b \in N!Bytes /\ b[1] \in DOMAIN req[r].want /\ b[2] <= req[r].want[b[1]] /\ b[2] \in N!Sizes /\ b[1] \in Names
              BY <6>1, <3>4 DEF Todo, N!Bytes
            <7>2. disk[u][b[1]] \in Nat /\ b[2] > disk[u][b[1]]
              BY <6>1, <7>1, <1>r, RowOf DEF TypeInv, N!InFiles, N!Sizes
            <7>3. N!There(r, b[1]) \in {disk[u][b[1]], 0} BY <4>4 DEF N!There
            <7>4. req[r].want[b[1]] \in N!Sizes BY <7>1, <1>r, RowOf
            <7>5. b[2] \in N!There(r, b[1]) + 1 .. req[r].want[b[1]] BY <7>1, <7>2, <7>3, <7>4 DEF N!Sizes
            <7> QED BY <7>1, <7>5 DEF N!Added
          <6> QED BY <6>1
        <5>2. N!Cardinality(N!InFiles(u) \cup Todo(r)) <= N!Cardinality(N!InFiles(u) \cup N!Added(r))
              /\ N!Cardinality(N!InFiles(u) \cup Todo(r)) \in Nat /\ N!Cardinality(N!InFiles(u) \cup N!Added(r)) \in Nat
          BY <5>1, <3>5, SmallerCount, N!InFiles(u) \cup N!Added(r) \in SUBSET N!Bytes
        <5>3. N!Cardinality(N!InFiles(u) \cup N!Added(r)) <= N!Cardinality(N!InFiles(u)) + N!Cardinality(N!Added(r))
          BY <3>5, SumOfCounts
        <5> QED BY <4>1, <4>2, <4>4, <5>2, <5>3 DEF N!Used
      <4> QED BY <4>3, <4>4
    <3>7. N!InFiles(u)' = N!InFiles(u) /\ N!InSegments(u)' = N!InSegments(u) /\ Todo(r)' = Todo(r)
      BY <1>r, <3>2, <3>3 DEF N!InFiles, N!InSegments, Todo
    <3>8. Room(r)' BY <3>2, <3>3, <3>6, <3>7 DEF Room
    <3> QED BY <1>r, <3>1, <3>2, <3>3, <3>8 DEF Held
  <2>2. \A q \in Requests \ {r} : req'[q] = req[q] BY <1>2, <1>r, RowOf DEF N!Goto
  <2> QED BY <1>r, <1>2, <2>1, <2>2, HeldUntouched DEF TypeInv
<1> QED BY <1>1, <1>2 DEF N!Check

LEMMA EndingHolds ==
  ASSUME N!NetdiskAssumption, TypeInv, QuotaInv, NEW r \in Requests, N!Written(r) \/ N!Invalidate(r) \/ N!Finish(r)
  PROVE  QuotaInv'
<1>r. N!Active(r) /\ disk' = disk /\ part' = part BY DEF N!Written, N!Invalidate, N!Finish, N!At
<1>1. CASE N!End(r) /\ lone' \subseteq lone \ {r}
  BY <1>r, <1>1, HeldUntouched, Ends DEF TypeInv
<1>2. CASE N!Finish(r)
  <2>1. r \notin lone /\ lone' = lone BY <1>2 DEF N!Finish, N!At, TypeInv
  <2>2. \A q \in Requests \ {r} : req'[q] = req[q] BY <1>2, <1>r, RowOf DEF N!Finish, N!Goto, N!End
  <2> QED BY <1>r, <2>1, <2>2, HeldUntouched DEF TypeInv
<1>3. CASE N!Invalidate(r) BY <1>1, <1>3 DEF N!Invalidate, N!Forget
<1>4. CASE N!Written(r) /\ N!Goto(r, "invalidate") /\ UNCHANGED lone
  <2> DEFINE m == [req[r] EXCEPT !.step = "invalidate"]
             u == req[r].user
  <2>1. ASSUME r \in lone PROVE Held(r)'
    <3>1. Held(r) /\ req[r].step = "write" /\ req[r].todo = {} BY <1>4, <2>1 DEF QuotaInv, N!Written, N!At
    <3>2. /\ m.op = req[r].op /\ m.user = u /\ m.todo = req[r].todo /\ m.want = req[r].want
          /\ m.from = req[r].from /\ m.step = "invalidate"
      BY <1>r, RowOf DEF Rows
    <3>3. req'[r] = m BY <1>4, <1>r, RowOf DEF N!Goto
    <3> HIDE DEF m
    <3>4. N!InFiles(u) \cup Todo(r) = N!InFiles(u) BY <3>1 DEF Todo
    <3>5. Quota[u] > 0 => N!Used(u) <= Quota[u] BY <3>1, <3>4 DEF Held, Room, N!Used
    <3>6. N!Used(u)' = N!Used(u) BY <1>r, <3>2, <3>3 DEF N!Used, N!InFiles, N!InSegments
    <3>7. Room(r)' BY <3>2, <3>3, <3>5, <3>6 DEF Room
    <3> QED BY <1>r, <3>1, <3>2, <3>3, <3>7 DEF Held
  <2>2. \A q \in Requests \ {r} : req'[q] = req[q] BY <1>4, <1>r, RowOf DEF N!Goto
  <2> QED BY <1>r, <1>4, <2>1, <2>2, HeldUntouched DEF TypeInv
<1> QED BY <1>1, <1>2, <1>3, <1>4 DEF N!Written, N!Forget

\* A file that is written takes no more than what was there of it and what was still to come.
LEMMA WriteHolds ==
  ASSUME N!NetdiskAssumption, TypeInv, QuotaInv, NEW r \in Requests, NEW x \in Names, N!Write(r, x)
  PROVE  QuotaInv'
<1> DEFINE u == req[r].user
<1>r. N!Active(r) /\ part' = part /\ req[r].step = "write" /\ req[r].op # "init" /\ x \in req[r].todo
      /\ lone' = lone \cap {r}
  BY DEF N!Write, N!At, N!WrittenBy
<1>1. PICK end \in N!Outcomes(r, x) :
         /\ disk' = [disk EXCEPT ![u][x] = end.size]
         /\ req' = [req EXCEPT ![r].todo = @ \ {x}, ![r].count = @ \/ end.ok]
  BY DEF N!Write
<1> DEFINE m == [req[r] EXCEPT !.todo = @ \ {x}, !.count = @ \/ end.ok]
<1>2. req'[r] = m BY <1>1, <1>r, RowOf
<1>3. /\ m.op = req[r].op /\ m.user = u /\ m.todo = req[r].todo \ {x} /\ m.want = req[r].want
      /\ m.from = req[r].from /\ m.step = "write"
  BY <1>r, RowOf DEF Rows
<1> HIDE DEF m
<1>4. SUFFICES ASSUME r \in lone PROVE Held(r)' BY <1>r DEF QuotaInv
<1>5. Held(r) BY <1>4 DEF QuotaInv
<1>6. u \in Users /\ x \in DOMAIN req[r].want /\ req[r].want[x] \in N!Sizes /\ disk[u][x] \in Nat BY <1>r, RowOf DEF TypeInv
<1>7. end.size \in Nat /\ (end.size <= req[r].want[x] \/ end.size = disk[u][x])
  <2> DEFINE whole == IF req[r].op = "save" THEN disk[req[r].from][x] ELSE req[r].want[x]
             partial == IF req[r].op = "upload" THEN {0} ELSE 0 .. whole
  <2>1. whole = req[r].want[x] BY <1>r, <1>5 DEF Held
  <2>2. whole \in Nat /\ partial \subseteq 0 .. whole BY <2>1, <1>6 DEF N!Sizes
  <2>3. end \in {[size |-> whole, ok |-> TRUE]} \cup [size : partial \cup {disk[u][x]}, ok : {FALSE}]
    BY <1>1 DEF N!Outcomes
  <2> HIDE DEF whole, partial
  <2>4. CASE end = [size |-> whole, ok |-> TRUE] BY <2>1, <2>2, <2>4
  <2>5. CASE end \in [size : partial \cup {disk[u][x]}, ok : {FALSE}]
    <3>1. end.size \in partial \/ end.size = disk[u][x] BY <2>5
    <3>2. CASE end.size \in partial
      <4>1. end.size \in 0 .. whole BY <2>2, <3>2
      <4> QED BY <2>1, <2>2, <4>1
    <3> QED BY <3>1, <3>2, <1>6
  <2> QED BY <2>3, <2>4, <2>5
<1>8. disk'[u][x] = end.size /\ \A v \in Users, y \in Names : v # u \/ y # x => disk'[v][y] = disk[v][y]
  BY <1>1, <1>6 DEF TypeInv
<1>9. N!InFiles(u)' \cup Todo(r)' \subseteq N!InFiles(u) \cup Todo(r)
  <2>1. ASSUME NEW b \in N!Bytes, b[2] <= disk'[u][b[1]] PROVE b \in N!InFiles(u) \cup Todo(r)
    <3>1. b[1] \in Names /\ b[2] \in N!Sizes BY DEF N!Bytes
    <3>2. CASE b[1] # x BY <1>6, <1>8, <2>1, <3>1, <3>2 DEF N!InFiles
    <3>3. CASE b[1] = x
      <4>1. b[2] <= end.size BY <1>8, <2>1, <3>3
      <4>2. CASE end.size = disk[u][x] BY <2>1, <3>3, <4>1, <4>2 DEF N!InFiles
      <4>3. CASE end.size <= req[r].want[x]
        BY <1>r, <1>6, <1>7, <2>1, <3>1, <3>3, <4>1, <4>3 DEF Todo, N!Sizes
      <4> QED BY <1>7, <4>2, <4>3
    <3> QED BY <3>2, <3>3
  <2>2. ASSUME NEW b \in N!Bytes, b[1] \in req[r].todo \ {x}, b[2] <= req[r].want[b[1]] PROVE b \in Todo(r)
    BY <2>2 DEF Todo
  <2>3. Todo(r)' = {b \in N!Bytes : b[1] \in req[r].todo \ {x} /\ b[2] <= req[r].want[b[1]]}
    BY <1>2, <1>3 DEF Todo
  <2>4. N!InFiles(u)' = {b \in N!Bytes : b[2] <= disk'[u][b[1]]} BY <1>2, <1>3 DEF N!InFiles
  <2> QED BY <2>1, <2>2, <2>3, <2>4
<1>10. N!InSegments(u)' = N!InSegments(u) BY <1>r, <1>2, <1>3 DEF N!InSegments
<1>11. Room(r)'
  <2>1. N!Cardinality(N!InFiles(u)' \cup Todo(r)') <= N!Cardinality(N!InFiles(u) \cup Todo(r))
        /\ N!Cardinality(N!InFiles(u)' \cup Todo(r)') \in Nat /\ N!Cardinality(N!InFiles(u) \cup Todo(r)) \in Nat
    BY <1>9, SmallerCount, N!InFiles(u) \cup Todo(r) \in SUBSET N!Bytes DEF N!InFiles, Todo
  <2>2. N!Cardinality(N!InSegments(u)) \in Nat BY FiniteBytes DEF N!InSegments
  <2>3. Quota[u] > 0 => N!Cardinality(N!InFiles(u) \cup Todo(r)) + N!Cardinality(N!InSegments(u)) <= Quota[u]
    BY <1>r, <1>5 DEF Held, Room
  <2>4. Quota[u] > 0 => N!Cardinality(N!InFiles(u)' \cup Todo(r)') + N!Cardinality(N!InSegments(u)) <= Quota[u]
    BY <1>6, <2>1, <2>2, <2>3
  <2>5. (N!InFiles(req[r].user))' = N!InFiles(u)' /\ (N!InSegments(req[r].user))' = N!InSegments(u)
    BY <1>2, <1>3, <1>10
  <2> QED BY <1>r, <1>2, <1>3, <2>4, <2>5 DEF Room
<1>12. req[r].op = "save" => \A y \in req[r].todo \ {x} : disk'[req[r].from][y] = req[r].want[y]
  <2>1. req[r].from \in Users /\ req[r].todo \subseteq Names BY <1>r, RowOf DEF Rows
  <2> QED BY <1>5, <1>8, <2>1 DEF Held
<1> QED BY <1>r, <1>2, <1>3, <1>5, <1>11, <1>12 DEF Held

\* A request that comes in has counted nothing and written nothing.
LEMMA ComesIn ==
  ASSUME N!NetdiskAssumption, TypeInv, QuotaInv, NEW r \in Requests, NEW kind \in Ops, NEW u \in Users, NEW v \in Users, NEW w \in Figures,
         NEW s \in {"read", "estimate", "walk"}, N!Begin(r, kind, u, v, w, s), kind \in {"upload", "transfer", "restore", "save", "init"},
         kind = "save" => \A x \in DOMAIN w : disk[v][x] = w[x],
         disk' = disk, part' = part, lone' \subseteq lone \cup {r}
  PROVE  QuotaInv'
<1>1. /\ req'[r].op = kind /\ req'[r].want = w /\ req'[r].todo = DOMAIN w /\ req'[r].from = v /\ req'[r].step = s
      /\ \A q \in Requests \ {r} : req'[q] = req[q]
  <2>1. s \in Steps BY DEF Steps
  <2>2. /\ req' = [req EXCEPT ![r] = [op |-> kind, user |-> u, want |-> w, todo |-> DOMAIN w, from |-> v,
                                     found |-> [x \in DOMAIN w |-> 0], used |-> 0, count |-> FALSE, step |-> s]]
        /\ \A q \in Requests \ {r} : req'[q] = req[q]
    BY <2>1, Begins DEF TypeInv
  <2> QED BY <2>2 DEF TypeInv, ReqTyped
<1>3. Held(r)' BY <1>1 DEF Held, Room
<1> QED BY <1>1, <1>3, HeldUntouched DEF TypeInv

LEMMA OthersGone ==
  ASSUME N!NetdiskAssumption, QuotaInv, lone' = {} PROVE QuotaInv'
  BY DEF QuotaInv

LEMMA ArriveHolds ==
  ASSUME N!NetdiskAssumption, TypeInv, QuotaInv, NEW r \in Requests, NEW u \in Users, N!Arrive(r, u)
  PROVE  QuotaInv'
<1>1. ASSUME NEW w \in Wants, N!BeginWrite(r, u, w) PROVE QuotaInv'
  <2>1. w \in Figures BY DEF Figures
  <2>2. PICK kind \in {"upload", "transfer", "restore", "copy"} :
          N!Begin(r, kind, u, u, w, N!FirstStep(kind)) /\ lone' = IF kind = "copy" THEN lone ELSE lone \cup {r}
    BY <1>1 DEF N!BeginWrite
  <2>3. kind \in Ops /\ disk' = disk /\ part' = part BY <1>1 DEF Ops, N!BeginWrite
  <2>4. CASE kind = "copy"
    <3>1. N!FirstStep(kind) \in Steps BY <2>4 DEF N!FirstStep, Steps
    <3>2. ~N!Active(r) /\ \A q \in Requests \ {r} : req'[q] = req[q]
      BY <2>1, <2>2, <2>3, <3>1, Begins DEF TypeInv
    <3>3. r \notin lone /\ lone' = lone BY <2>2, <2>4, <3>2 DEF TypeInv
    <3> QED BY <2>3, <3>2, <3>3, HeldUntouched DEF TypeInv
  <2>5. CASE kind # "copy"
    <3>1. kind \in {"upload", "transfer", "restore", "save", "init"} /\ kind # "save" /\ lone' = lone \cup {r} BY <2>2, <2>5
    <3>2. N!FirstStep(kind) \in {"read", "estimate", "walk"} BY <3>1 DEF N!FirstStep
    <3> QED BY <2>1, <2>2, <2>3, <3>1, <3>2, ComesIn
  <2> QED BY <2>4, <2>5
<1>2. ASSUME NEW t \in Tokens, N!BeginSave(r, u, t) PROVE QuotaInv'
  <2> DEFINE v == share[t].owner
             w == [x \in {y \in share[t].names : disk[v][y] > 0} |-> disk[v][x]]
  <2>1. v \in Users /\ share[t].names \subseteq Names BY <1>2 DEF N!BeginSave, ShareTyped, TypeInv
  <2>2. DOMAIN w \subseteq Names /\ w \in [DOMAIN w -> N!Sizes] BY <2>1 DEF N!Sizes, TypeInv
  <2>3. w \in Figures BY <2>2, IsFigure
  <2>4. \A x \in DOMAIN w : disk[v][x] = w[x] OBVIOUS
  <2>5. N!Begin(r, "save", u, v, w, "estimate") BY <1>2 DEF N!BeginSave
  <2>6. lone' = lone \cup {r} /\ disk' = disk /\ part' = part BY <1>2 DEF N!BeginSave
  <2> HIDE DEF v, w
  <2>7. "save" \in Ops BY DEF Ops
  <2> QED BY <2>1, <2>3, <2>4, <2>5, <2>6, <2>7, ComesIn
<1>3. ASSUME NEW x \in Names, NEW n \in N!Sizes, N!BeginInit(r, u, x, n) PROVE QuotaInv'
  <2>1. N!Begin(r, "init", u, u, N!Only(x, n), "read") BY <1>3 DEF N!BeginInit
  <2>2. lone' = lone \cup {r} /\ disk' = disk /\ part' = part BY <1>3 DEF N!BeginInit
  <2>3. "init" \in Ops BY DEF Ops
  <2> QED BY <2>1, <2>2, <2>3, OnlyIs, ComesIn
<1>4. ASSUME NEW x \in Names, N!Complete(r, u, x) \/ N!Abort(r, u, x) \/ N!Delete(r, u, x) PROVE QuotaInv'
  BY <1>4, OthersGone DEF N!Complete, N!Abort, N!Delete
<1> QED BY <1>1, <1>2, <1>3, <1>4 DEF N!Arrive

LEMMA QuotaStep == ASSUME N!NetdiskAssumption, TypeInv, QuotaInv, [N!Next]_N!vars PROVE QuotaInv'
<1>1. CASE UNCHANGED <<disk, part, req, lone>> BY <1>1, HeldStays DEF QuotaInv
<1>2. CASE lone' = {} BY <1>2, OthersGone
<1>3. ASSUME NEW r \in Requests, N!Step(r) PROVE QuotaInv'
  <2>1. ASSUME NEW x \in Names, N!SaveRecord(r, x) PROVE QuotaInv' BY <2>1, OthersGone DEF N!SaveRecord
  <2> QED BY <1>3, <2>1, EstimateHolds, CheckHolds, EndingHolds, WriteHolds DEF N!Step
<1>4. ASSUME NEW u \in Users, N!QuotaPage(u) \/ N!Walk(u) \/ N!StoreSize(u) \/ N!Expire(u) PROVE QuotaInv'
  BY <1>1, <1>4 DEF N!QuotaPage, N!Walk, N!StoreSize, N!Expire
<1>5. ASSUME NEW u \in Users, NEW x \in Names, N!Chunk(u, x) \/ \E n \in 0 .. MaxSize : N!Outside(u, x, n) PROVE QuotaInv'
  BY <1>2, <1>5 DEF N!Chunk, N!Outside
<1>6. ASSUME NEW t \in Tokens, N!ShareEnds(t) \/ \E u \in Users, F \in SUBSET Names \ {{}} : N!ShareCreate(u, t, F)
      PROVE  QuotaInv'
  BY <1>1, <1>6 DEF N!ShareEnds, N!ShareCreate
<1>7. ASSUME N!TaskList PROVE QuotaInv'
  BY <1>1, <1>7 DEF N!TaskList, N!SnapBegin, N!SnapStat, N!SnapDrop
<1>8. CASE UNCHANGED N!vars BY <1>1, <1>8 DEF N!vars
<1>9. \A k \in Mounted : k[1] \in Users /\ k[2] \in Names BY DEF N!Keys
<1> QED BY <1>3, <1>4, <1>5, <1>6, <1>7, <1>8, <1>9, ArriveHolds DEF N!Next

\* A request that found the space in use right does not go over the quota unless somebody
\* else writes.
THEOREM QuotaIsKept == ASSUME N!NetdiskAssumption PROVE NetdiskSafety => N!QuotaKept
<1>1. N!Init => QuotaInv BY DEF N!Init, QuotaInv
<1>2. TypeInv /\ QuotaInv =>
        \A r \in lone \ lone' :
          N!Active(r) /\ req'[r] # req[r] /\ req[r].step \in {"write", "invalidate"} /\ Quota[req[r].user] > 0
            /\ disk' = disk /\ part' = part
          => N!Used(req[r].user) <= Quota[req[r].user]
  <2> SUFFICES ASSUME TypeInv, QuotaInv, NEW r \in lone, N!Active(r), req[r].step \in {"write", "invalidate"},
                      Quota[req[r].user] > 0
               PROVE  N!Used(req[r].user) <= Quota[req[r].user]
    OBVIOUS
  <2> DEFINE u == req[r].user
  <2>1. Held(r) /\ u \in Users /\ Quota[u] \in Nat BY RowOf DEF QuotaInv, TypeInv
  <2>2. CASE req[r].step = "invalidate" BY <2>1, <2>2 DEF Held, Room
  <2>3. CASE req[r].step = "write"
    <3>1. N!Cardinality(N!InFiles(u)) <= N!Cardinality(N!InFiles(u) \cup Todo(r)) /\ N!Cardinality(N!InFiles(u)) \in Nat
          /\ N!Cardinality(N!InFiles(u) \cup Todo(r)) \in Nat
      BY SmallerCount, N!InFiles(u) \cup Todo(r) \in SUBSET N!Bytes DEF N!InFiles, Todo
    <3>2. N!Cardinality(N!InSegments(u)) \in Nat BY FiniteBytes DEF N!InSegments
    <3> QED BY <2>1, <2>3, <3>1, <3>2 DEF Held, Room, N!Used
  <2> QED BY <2>2, <2>3
<1>3. TypeInv /\ QuotaInv /\ [N!Next]_N!vars => TypeInv' /\ QuotaInv' BY NetdiskTypeStep, QuotaStep
<1> QED BY <1>1, <1>2, <1>3, NetdiskTypeInit, PTL DEF NetdiskSafety, N!QuotaKept

=============================================================================
