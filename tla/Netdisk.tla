------------------------------- MODULE Netdisk -------------------------------
(***************************************************************************)
(* The quota of a netdisk and the requests it limits: uploads, saving a    *)
(* share of somebody else, transfers and restores, chunked uploads.  The   *)
(* space in use is known from a cache that a background scan fills         *)
(* (netdisk.go, dirSizeCached to dirSize), and the chunked uploads under   *)
(* way are kept in a registry that the list of tasks cleans up as it is    *)
(* read (tasks.go).                                                        *)
(*                                                                         *)
(* A file is its size.  Which name a copy gets is the subject of Disks,    *)
(* and what a chunk does to the files of ChunkUpload; here a copy replaces *)
(* what has its name, and an upload in chunks is how much of it has come.  *)
(***************************************************************************)
EXTENDS Integers, FiniteSets

CONSTANTS
  Users,
  Askers,          \* those of them whose requests are followed; the others own what is shared
  Names, MaxSize,  \* files, and the sizes they have
  Quota,           \* user -> NetdiskQuotaBytes; 0 is no limit
  Stored,          \* user -> what is on the netdisk at first
  Wants,           \* what requests bring: functions from some of Names to sizes
  Tokens,          \* of shares
  Mounted,         \* the files that containers write: pairs of a user and a name
  Requests,
  Overlap,         \* may requests about one file overlap?
  MaxOps,          \* bound on requests
  MaxOutside       \* bound on what containers write

Sizes == 1 .. MaxSize
Keys == Users \X Names

ASSUME NetdiskAssumption ==
  /\ Askers \subseteq Users /\ IsFiniteSet(Names) /\ MaxSize \in Nat \ {0} /\ MaxOps \in Nat /\ MaxOutside \in Nat
  /\ Quota \in [Users -> Nat]
  /\ Stored \in [Users -> [Names -> 0 .. MaxSize]]
  /\ Wants \subseteq UNION {[S -> Sizes] : S \in SUBSET Names}
  /\ Mounted \subseteq Keys /\ Overlap \in BOOLEAN

VARIABLES
  disk,     \* user -> name -> size, 0 if there is no such file
  part,     \* user -> name -> the record of a chunked upload and its segments
  cache,    \* dirSizeCache: user -> entry
  scan,     \* dirSizeRunning: user -> NotRunning, Queued, or the bytes found
  share,    \* token -> share, or NoShare
  req,
  session,  \* chunkUploads: the files with a registered session
  snap,     \* the list of tasks that is being read
  lone,     \* requests whose figure was right, if they have one, and nobody else wrote (history)
  ops, outside

vars == <<disk, part, cache, scan, share, req, session, snap, lone, ops, outside>>
sizes == <<cache, scan>>
tasks == <<session, snap>>
bounds == <<ops, outside>>

NotRunning == -2
Queued == -1
NoPart == [size |-> 0, got |-> 0, seg |-> {}]   \* seg: the bytes that segments hold
NoShare == [owner |-> "nobody"]
Idle == [op |-> "none"]
NoSnap == [todo |-> {}, gone |-> {}]
Unknown == [known |-> FALSE, bytes |-> 0, fresh |-> FALSE]

Init ==
  /\ disk = Stored
  /\ part = [u \in Users |-> [x \in Names |-> NoPart]]
  /\ cache = [u \in Users |-> Unknown]
  /\ scan = [u \in Users |-> NotRunning]
  /\ share = [t \in Tokens |-> NoShare]
  /\ req = [r \in Requests |-> Idle]
  /\ session = {} /\ snap = NoSnap /\ lone = {}
  /\ ops = 0 /\ outside = 0

-----------------------------------------------------------------------------
(***************************************************************************)
(* How much is in use.                                                     *)
(***************************************************************************)
\* The bytes that are stored, of files and of the segments of unfinished uploads.
Bytes == Names \X Sizes
InFiles(u) == {b \in Bytes : b[2] <= disk[u][b[1]]}
InSegments(u) == {b \in Bytes : b[2] \in part[u][b[1]].seg}

\* dirSize: the segments of unfinished uploads count as well.
Used(u) == Cardinality(InFiles(u)) + Cardinality(InSegments(u))

\* dirSizeCached, apart from what it returns: a scan is started unless there is one.
AskSize(u) ==
  scan' = IF cache[u].fresh \/ scan[u] # NotRunning THEN scan ELSE [scan EXCEPT ![u] = Queued]

\* The pages that show the figure: netdiskQuota and netdiskUsageAdmin.
QuotaPage(u) ==
  /\ AskSize(u)
  /\ UNCHANGED <<disk, part, cache, share, req, tasks, lone, bounds>>

\* refreshDirSize; the semaphore lets one scan walk at a time.
Walk(u) ==
  /\ scan[u] = Queued
  /\ scan' = [scan EXCEPT ![u] = Used(u)]
  /\ UNCHANGED <<disk, part, cache, share, req, tasks, lone, bounds>>

\* Mutant: the mark that a scan runs is kept.
StoreSizeStillRunning(u) ==
  /\ scan[u] >= 0 /\ ~cache[u].known
  /\ cache' = [cache EXCEPT ![u] = [known |-> TRUE, bytes |-> scan[u], fresh |-> TRUE]]
  /\ UNCHANGED <<disk, part, scan, share, req, tasks, lone, bounds>>

StoreSize(u) ==
  /\ scan[u] >= 0
  /\ cache' = [cache EXCEPT ![u] = [known |-> TRUE, bytes |-> scan[u], fresh |-> TRUE]]
  /\ scan' = [scan EXCEPT ![u] = NotRunning]
  /\ UNCHANGED <<disk, part, share, req, tasks, lone, bounds>>

\* Two minutes pass.
Expire(u) ==
  /\ cache[u].fresh
  /\ cache' = [cache EXCEPT ![u].fresh = FALSE]
  /\ UNCHANGED <<disk, part, scan, share, req, tasks, lone, bounds>>

-----------------------------------------------------------------------------
(***************************************************************************)
(* Requests.                                                               *)
(***************************************************************************)
Active(r) == req[r] # Idle
At(r, step) == Active(r) /\ req[r].step = step
Touches(r) == {req[r].user} \X DOMAIN req[r].want
Goto(r, step) == req' = [req EXCEPT ![r].step = step]
End(r) == req' = [req EXCEPT ![r] = Idle]
WrittenBy(r) == lone' = lone \cap {r}
Forget(r) == lone' = lone \ {r}

Begin(r, op, u, v, w, step) ==
  /\ ~Active(r) /\ ops < MaxOps /\ ops' = ops + 1
  /\ Overlap \/ \A s \in Requests : Active(s) => Touches(s) \cap ({u} \X DOMAIN w) = {}
  /\ req' = [req EXCEPT ![r] = [op |-> op, user |-> u, want |-> w, todo |-> DOMAIN w, from |-> v,
                               found |-> [x \in DOMAIN w |-> 0], used |-> 0, count |-> FALSE, step |-> step]]
  /\ UNCHANGED outside

\* netdiskUpload and netdiskTransfer; netdiskBackupRestore walks at once; a copy within
\* the netdisk is not held against the quota.
FirstStep(op) == IF op = "restore" THEN "walk" ELSE IF op = "copy" THEN "write" ELSE "estimate"

BeginWrite(r, u, w) ==
  /\ \E op \in {"upload", "transfer", "restore", "copy"} :
       Begin(r, op, u, u, w, FirstStep(op)) /\ lone' = IF op = "copy" THEN lone ELSE lone \cup {r}
  /\ UNCHANGED <<disk, part, sizes, share, tasks>>

\* netdiskShareSave: the share is looked up and what it holds is sized.
BeginSave(r, u, t) ==
  /\ share[t] # NoShare
  /\ LET v == share[t].owner
         w == [x \in {y \in share[t].names : disk[v][y] > 0} |-> disk[v][x]]
     IN DOMAIN w # {} /\ Begin(r, "save", u, v, w, "estimate")
  /\ lone' = lone \cup {r}
  /\ UNCHANGED <<disk, part, sizes, share, tasks>>

\* Mutant: what is returned while the first scan runs is taken for the space in use.
EstimateCold(r) ==
  /\ At(r, "estimate")
  /\ AskSize(req[r].user)
  /\ req' = [req EXCEPT ![r].used = cache[req[r].user].bytes, ![r].step = "check"]
  /\ UNCHANGED <<disk, part, cache, share, tasks, lone, bounds>>

\* netdiskUsedEstimate: the cached figure, or a walk of its own when there is none.
Estimate(r) ==
  LET u == req[r].user IN
  /\ At(r, "estimate")
  /\ AskSize(u)
  /\ IF cache[u].known
     THEN /\ req' = [req EXCEPT ![r].used = cache[u].bytes, ![r].step = "check"]
          /\ IF cache[u].bytes = Used(u) THEN UNCHANGED lone ELSE Forget(r)
     ELSE Goto(r, "walk") /\ UNCHANGED lone
  /\ UNCHANGED <<disk, part, cache, share, tasks, bounds>>

OwnWalk(r) ==
  /\ At(r, "walk")
  /\ req' = [req EXCEPT ![r].used = Used(req[r].user), ![r].step = "check"]
  /\ UNCHANGED <<disk, part, sizes, share, tasks, lone, bounds>>

\* What is there already of a file: an upload may count on the file it replaces, a
\* chunked one on the chunks that are there; the others count in full.
There(r, x) ==
  CASE req[r].op = "upload" -> disk[req[r].user][x]
    [] req[r].op = "init" -> req[r].found[x]
    [] OTHER -> 0

\* What the request adds.
Added(r) == {b \in Bytes : b[1] \in DOMAIN req[r].want /\ b[2] \in There(r, b[1]) + 1 .. req[r].want[b[1]]}

Fits(r) == Quota[req[r].user] = 0 \/ req[r].used + Cardinality(Added(r)) <= Quota[req[r].user]

\* The request goes on if it fits; the host's disk may be too full for any.
Check(r) ==
  /\ At(r, "check")
  /\ \/ Fits(r) /\ Goto(r, "write") /\ UNCHANGED lone
     \/ End(r) /\ Forget(r)
  /\ UNCHANGED <<disk, part, sizes, share, tasks, bounds>>

\* How writing a file ends: writeFileWithCRC32 removes what it could not write whole,
\* a copy that fails leaves what it got, and a share is copied as it is now.
Outcomes(r, x) ==
  LET whole == IF req[r].op = "save" THEN disk[req[r].from][x] ELSE req[r].want[x]
      partial == IF req[r].op = "upload" THEN {0} ELSE 0 .. whole
  IN {[size |-> whole, ok |-> TRUE]} \cup [size : partial \cup {disk[req[r].user][x]}, ok : {FALSE}]

Write(r, x) ==
  /\ At(r, "write") /\ req[r].op # "init" /\ x \in req[r].todo
  /\ \E end \in Outcomes(r, x) :
       /\ disk' = [disk EXCEPT ![req[r].user][x] = end.size]
       /\ req' = [req EXCEPT ![r].todo = @ \ {x}, ![r].count = @ \/ end.ok]
  /\ WrittenBy(r)
  /\ UNCHANGED <<part, sizes, share, tasks, bounds>>

\* The last file is written; transfers and restores leave the cached figure alone.
Written(r) ==
  /\ At(r, "write") /\ req[r].todo = {}
  /\ IF req[r].count /\ req[r].op \in {"upload", "save", "copy"}
     THEN Goto(r, "invalidate") /\ UNCHANGED lone
     ELSE End(r) /\ Forget(r)
  /\ UNCHANGED <<disk, part, sizes, share, tasks, bounds>>

\* invalidateDirSize, and the answer.
Invalidate(r) ==
  /\ At(r, "invalidate")
  /\ cache' = [cache EXCEPT ![req[r].user].fresh = FALSE]
  /\ End(r) /\ Forget(r)
  /\ UNCHANGED <<disk, part, scan, share, tasks, bounds>>

-----------------------------------------------------------------------------
(***************************************************************************)
(* Chunked uploads and their sessions.                                     *)
(***************************************************************************)
Only(x, n) == [y \in {x} |-> n]
Recorded(u, x) == part[u][x].size > 0

\* netdiskChunkInit registers the session first; then the quota is checked.
BeginInit(r, u, x, n) ==
  /\ Begin(r, "init", u, u, Only(x, n), "read")
  /\ session' = session \cup {<<u, x>>}
  /\ lone' = lone \cup {r}
  /\ UNCHANGED <<disk, part, sizes, share, snap>>

\* handleChunkInit reads the record, to go on with an upload of the same size.
Received(u, x, n) == IF part[u][x].size = n THEN part[u][x].got ELSE 0
ReadRecord(r) ==
  LET u == req[r].user  w == req[r].want IN
  /\ At(r, "read")
  /\ req' = [req EXCEPT ![r].found = [x \in DOMAIN w |-> Received(u, x, w[x])], ![r].step = "estimate"]
  /\ UNCHANGED <<disk, part, sizes, share, tasks, lone, bounds>>

\* Once there is room it writes back what it read, or a record without chunks; the
\* segments of an upload of another size stay.
SaveRecord(r, x) ==
  LET u == req[r].user  p == part[u][x] IN
  /\ At(r, "write") /\ req[r].op = "init" /\ x \in req[r].todo
  /\ part' = [part EXCEPT ![u][x] = [p EXCEPT !.size = req[r].want[x], !.got = There(r, x)]]
  /\ End(r) /\ lone' = {}
  /\ UNCHANGED <<disk, sizes, share, tasks, bounds>>

Chunk(u, x) ==
  LET p == part[u][x] IN
  /\ p.got < p.size
  /\ part' = [part EXCEPT ![u][x] = [p EXCEPT !.got = p.got + 1, !.seg = p.seg \cup {p.got + 1}]]
  /\ lone' = {}
  /\ UNCHANGED <<disk, sizes, share, req, tasks, bounds>>

\* removeChunkArtifacts: the record, and the segments of an upload of its size.
Removed(u, x) == [NoPart EXCEPT !.seg = part[u][x].seg \ (1 .. part[u][x].size)]

\* handleChunkComplete; while chunks are missing it only says so.
Complete(r, u, x) ==
  /\ Recorded(u, x) /\ part[u][x].got = part[u][x].size
  /\ Begin(r, "complete", u, u, Only(x, part[u][x].size), "finish")
  /\ disk' = [disk EXCEPT ![u][x] = part[u][x].size]
  /\ part' = [part EXCEPT ![u][x] = Removed(u, x)]
  /\ lone' = {}
  /\ UNCHANGED <<sizes, share, tasks>>

\* handleChunkAbort, whether there is a record or not.
Abort(r, u, x) ==
  /\ Begin(r, "abort", u, u, Only(x, 1), "finish")
  /\ part' = [part EXCEPT ![u][x] = IF Recorded(u, x) THEN Removed(u, x) ELSE @]
  /\ lone' = {}
  /\ UNCHANGED <<disk, sizes, share, tasks>>

\* onDone: the session is taken out; a complete makes the cached figure stale.
Finish(r) ==
  /\ At(r, "finish")
  /\ session' = session \ Touches(r)
  /\ IF req[r].op = "complete" THEN Goto(r, "invalidate") ELSE End(r)
  /\ UNCHANGED <<disk, part, sizes, share, snap, lone, bounds>>

\* ChunkUploadRegistry.snapshot, for the list of tasks: a session whose record is not
\* there is taken out of the registry, file by file.
SnapBegin ==
  /\ snap = NoSnap /\ session # {}
  /\ snap' = [NoSnap EXCEPT !.todo = session]
  /\ UNCHANGED <<disk, part, sizes, share, req, session, lone, bounds>>

\* Mutant: a session without a record is passed over.
SnapStatKeeps(k) ==
  /\ k \in snap.todo /\ snap.gone = {}
  /\ snap' = [snap EXCEPT !.todo = @ \ {k}]
  /\ UNCHANGED <<disk, part, sizes, share, req, session, lone, bounds>>

SnapStat(k) ==
  /\ k \in snap.todo /\ snap.gone = {}
  /\ snap' = [todo |-> snap.todo \ {k}, gone |-> IF Recorded(k[1], k[2]) THEN {} ELSE {k}]
  /\ UNCHANGED <<disk, part, sizes, share, req, session, lone, bounds>>

SnapDrop(k) ==
  /\ k \in snap.gone
  /\ session' = session \ {k}
  /\ snap' = [snap EXCEPT !.gone = {}]
  /\ UNCHANGED <<disk, part, sizes, share, req, lone, bounds>>

TaskList == SnapBegin \/ \E k \in Keys : SnapStat(k) \/ SnapDrop(k)

-----------------------------------------------------------------------------
(***************************************************************************)
(* Shares, deletions, and what containers do.                              *)
(***************************************************************************)
ShareCreate(u, t, N) ==
  /\ ops < MaxOps /\ ops' = ops + 1
  /\ share[t] = NoShare /\ \A x \in N : disk[u][x] > 0
  /\ share' = [share EXCEPT ![t] = [owner |-> u, names |-> N]]
  /\ UNCHANGED <<disk, part, sizes, req, tasks, lone, outside>>

\* netdiskShareDelete, or the day it expires.
ShareEnds(t) ==
  /\ share[t] # NoShare
  /\ share' = [share EXCEPT ![t] = NoShare]
  /\ UNCHANGED <<disk, part, sizes, req, tasks, lone, bounds>>

Delete(r, u, x) ==
  /\ disk[u][x] > 0
  /\ Begin(r, "delete", u, u, Only(x, 1), "invalidate")
  /\ disk' = [disk EXCEPT ![u][x] = 0]
  /\ lone' = {}
  /\ UNCHANGED <<part, sizes, share, tasks>>

Outside(u, x, n) ==
  /\ outside < MaxOutside /\ outside' = outside + 1
  /\ disk' = [disk EXCEPT ![u][x] = n]
  /\ lone' = {}
  /\ UNCHANGED <<part, sizes, share, req, tasks, ops>>

-----------------------------------------------------------------------------
Step(r) ==
  \/ ReadRecord(r) \/ Estimate(r) \/ OwnWalk(r) \/ Check(r) \/ Written(r) \/ Invalidate(r) \/ Finish(r)
  \/ \E x \in Names : Write(r, x) \/ SaveRecord(r, x)

Arrive(r, u) ==
  \/ \E w \in Wants : BeginWrite(r, u, w)
  \/ \E t \in Tokens : BeginSave(r, u, t)
  \/ \E x \in Names : \/ \E n \in Sizes : BeginInit(r, u, x, n)
                      \/ Complete(r, u, x) \/ Abort(r, u, x) \/ Delete(r, u, x)

Next ==
  \/ \E r \in Requests : Step(r) \/ \E u \in Askers : Arrive(r, u)
  \/ \E u \in Askers : QuotaPage(u) \/ Walk(u) \/ StoreSize(u) \/ Expire(u)
  \/ \E u \in Users, x \in Names : Chunk(u, x)
  \/ \E k \in Mounted, n \in 0 .. MaxSize : Outside(k[1], k[2], n)
  \/ \E t \in Tokens : ShareEnds(t) \/ \E u \in Users, N \in SUBSET Names \ {{}} : ShareCreate(u, t, N)
  \/ TaskList

\* Scans come to an end, the page is looked at again, and time passes.
Fairness ==
  \A u \in Askers : WF_vars(Walk(u)) /\ WF_vars(StoreSize(u)) /\ WF_vars(Expire(u))

Spec == Init /\ [][Next]_vars /\ Fairness

-----------------------------------------------------------------------------
TypeOK ==
  /\ disk \in [Users -> [Names -> 0 .. MaxSize]]
  /\ \A u \in Users, x \in Names : part[u][x].size \in 0 .. MaxSize /\ part[u][x].got \in 0 .. part[u][x].size /\ part[u][x].seg \subseteq Sizes
  /\ \A u \in Users : cache[u].bytes \in Nat /\ (cache[u].fresh => cache[u].known)
  /\ scan \in [Users -> Int] /\ session \subseteq Keys /\ lone \subseteq {r \in Requests : Active(r)}

\* A request that found the space in use right, in the cache or, the first time after a
\* start, by a walk of its own, does not go over the quota unless somebody else writes
\* (the comments of netdiskUsedEstimate and netdiskShareSave).
QuotaKept ==
  [][\A r \in lone \ lone' :
       Active(r) /\ req'[r] # req[r] /\ req[r].step \in {"write", "invalidate"} /\ Quota[req[r].user] > 0 /\ disk' = disk /\ part' = part
         => Used(req[r].user) <= Quota[req[r].user]]_vars

\* A session that has no record, because the init that registered it was refused, or
\* the upload was completed or aborted elsewhere, does not stay in the registry: it
\* gets one or is taken out, as long as clients poll the list of tasks, whatever inits,
\* completes and aborts come between the steps of the list (ChunkUploadRegistry.snapshot).
SessionsCleared ==
  WF_vars(TaskList)
    => \A u \in Askers, x \in Names :
         (<<u, x>> \in session /\ ~Recorded(u, x)) ~> (<<u, x>> \notin session \/ Recorded(u, x))

\* Stricter than the code: a session is not taken out of the registry while its upload
\* is under way.  A list that looked for the record before the init wrote it does so.
StaysListed == [][\A k \in session \ session' : ~Recorded(k[1], k[2])]_vars

\* However scans, invalidations and writes cross each other, the figure the quota is
\* checked against becomes right, as long as the user goes on looking at the page that
\* shows it (dirSizeCached, invalidateDirSize).
FigureConverges ==
  (\A u \in Askers : WF_vars(QuotaPage(u)))
    => <>[](\A u \in Askers : cache[u].known /\ cache[u].bytes = Used(u))

\* What the comment of invalidateDirSize says: after a write the cached figure is stale.
FreshIsRight ==
  \A u \in Users : cache[u].fresh /\ (\A r \in Requests : ~Active(r)) => cache[u].bytes = Used(u)
=============================================================================
