# A TLA+ model of mudp

mudp is a multi-user Docker console: one Go binary that serves a web UI and an
HTTP API, keeps its own state in SQLite, and drives a Docker daemon on behalf of
its users. This directory holds TLA+ modules that model the parts of it whose
correctness depends on the order in which things happen, TLC configurations that
check them on small instances, and TLAPS proofs for any instance.

`tlc -config <run>.cfg <MC module>` runs a configuration, `tlapm <module>Proofs.tla`
checks the proofs of a module. `PROJECT.json` lists the runs, which lines of the
source each definition models, the hazards and the theorems.

## 1. Inventory

| Part (source) | State | Operations | Interacts with | Hard behaviour | What makes it correct |
|---|---|---|---|---|---|
| Runtime cache (`server/resources.go`, container handlers in `server/server.go`) | `cachedContainers`, `refreshPending`, `refreshInFlight`, `refreshMu` | sweep, trigger, optimistic edit, evict | Docker, every list page, port forwarding | stale listings, lost triggers, coalescing | no trigger is lost, the cache follows Docker forwards and catches up |
| Port forwarding (`portfwd/portfwd.go`, `server/portforward.go`, `dockerx/forward.go`, `store/portforward.go`) | `Manager.entries`, `closed`; settings and `port_forwards` rows | reconcile, add, delete, switch networks, close | the sweep, Docker, SQLite | concurrent reconciles over stale reads, outages, shutdown | listeners converge to the wanted set, none is replaced without cause or opened after shutdown |
| Self-upgrade (`upgrader`, `server/selfupgrade.go`, `cmd/mudp/main.go`) | executable, `.bak`, `.new`, `.failed`, marker file; upgrade phase | download, swap, restart, watch, verify, commit, roll back | service manager, listener | crash between renames, several processes on the same files | a version that works is always at hand and comes back |
| Chunked upload (`server/chunkupload.go`, `web/lib/chunkupload.js`) | resume record, segments, destination; per-chunk and per-file locks | init, chunk, complete, abort | network disk, volumes, quota | retries and duplicates in parallel, crash and resume | what the record lists is there; what was answered ok is the file |
| Ports and caps, container creation, stacks (`server/server.go`, `dockerx/docker.go`, `server/stacks.go`, `dockerx/compose.go`) | `port_prefix` and cap of an account, containers and their labels | create, copy, start, stop, remove, deploy, tear down | Docker, store, port forwarding | check-then-create with Docker calls in between, clean-up that fails | no port is given out twice, nobody is over the cap, nothing half made stays |
| Accounts and sessions (`auth`, `server/server.go`, `server/users_ext.go`, `middleware/csrf.go`, `server/forward_auth.go`) | cookies with epochs, user rows | login, logout, change of a password, account edits, renewal, login gate | store, every request | answers that arrive late, requests that hold an old row | a login that was ended is never served, none lives for ever, somebody can administer |
| Disks and backups (`server/netdisk.go`, `server/backup.go`) | two directory trees, the registry of jobs | copy, move, transfer, restore, back up, cancel | containers that write, crashes | a walk over files that change, two ends of one job | nothing is lost or written over, a backup that says it is whole is, a job ends |
| Quota, shares, list of tasks (`server/netdisk.go`, `shared.go`, `tasks.go`) | cached directory size, share tokens, upload sessions | every request that writes, scans, sharing, the list | disks, chunked upload | a figure that is scanned in the background | the quota holds, the figure becomes right, sessions that lead nowhere are cleared |
| MCP endpoint and external listener (`mcp`, `server/mcp.go`, `server/mcp_remote.go`) | tokens, streams, the second listener | open, post, call, save settings, boot, upgrade | store, Docker, the console's own listener | conditions read one after the other, streams a stopped listener leaves | nobody is let in on what was revoked, streams end, answers arrive or the stream ends |
| Database migrations (`store`) | schema, recorded version | open, migrate, seed | every release | a crash between two, old releases' schemas | every database becomes what a new one is |
| Networks (`server/networks.go`, `dockerx/network.go`, `store/network.go`) | Docker's networks, grants, presets | connect, disconnect, edit, create, share, delete | container creation | a rule checked in several places, over lists read one by one | nobody joins what was never allowed, a name is not inherited, no edit loses a network |
| Container files and the agent's tools (`mcp/tools*.go`, `dockerx/container_files.go`, `server/container_files.go`) | the files of a container and of the network disk | list, glob, search, read, write, edit, copy | MCP, disks | archives taken and put with nothing locked | what is there is found, a copy is what was there, an edit is whole |
| Lockout, captcha, rate limiting, access log | counters and rows | | accounts | | |
| Relay (`portfwd/portfwd.go`) | connections, UDP flows | accept, relay, reap | port forwarding | entries shared with `Apply` | closed when the entry is |
| Process watches, settings pages, volumes, images, raster, HTTP plumbing, web pages | single rows or none | | | arithmetic, formatting | |

The calls between the parts are few: handlers ask Docker and the store, end with
`triggerRuntimeCacheRefresh`, and the sweep that it starts also reconciles the port forwards;
`main` applies the forwards, the external listener and the migrations at every start,
which an upgrade causes.

## 2. Plan

The order was that in which an error costs the users most: what they see
(`RuntimeRefresh`), what is reachable (`PortForward`), whether the service survives an
upgrade (`SelfUpgrade`) and its database with it (`Schema`), whether an upload is the file
(`ChunkUpload`) and fits (`Netdisk`), who gets which ports and how many containers
(`Provision`) on which networks (`Networks`), who is let in (`Sessions`, `MCP`), and what
becomes of files (`Disks`, `ContainerFiles` over `FileTree`). `SessionLife` is the abstract
specification that `Sessions` implements. All of that is done.

What would come next: the relay under a forward, composed with `PortForward`; `Schema`
composed with `SelfUpgrade`, whose `migrate` step is where they meet; process watches.

## 3. Modules and their correspondence to the code

Every module that runs has an `MC` module with the values TLC uses; some have a `Proofs`
module. Goroutines, requests and operating system processes are processes of the
model. A step that another process can observe (a read or write of shared state, a
Docker call, a file operation, a transaction) is one action; computation between
two such steps belongs to one of them. Variables marked "history" are not in the code.

**RuntimeRefresh.** `docker` is what the daemon has, `cached` is `cachedContainers`.
`ContainerAction`, `RestartStop`/`RestartStart` and `CreateContainer` are the handlers'
Docker calls, `UpdateCache` the optimistic edit, `SetPending`/`Trigger` the two
halves of `triggerRuntimeCacheRefresh` in the handler, and
`LoopCheck`/`Release`/`Recheck` its goroutine. `LockRefresh`, `ListContainers`,
`StoreCache`, `UnlockRefresh` are `refreshRuntimeCacheSized`. `cacheVer` and
`snap.ver` are history variables: the point of Docker's history a listing is from.

**PortForward.** A reconcile (`SyncPortForward`) is `ReadNetworks`, `ListRules`, `ReadRows`,
`ResolveTargets`, `Apply`, with its locals in `nets`, `crules`, `stored`, `mrules`.
`ForwardRules`, `ForwardIP`, `HasSpec`, `ManualRules`, `Validate` are the functions of the same
name, reduced to the rule `Apply` keeps for each socket. `Reconciled` is what `Manager.Apply` makes
of its entries, `born` tells two listeners on one socket apart; `calm` (history) holds the reconciles that
nothing has disturbed since they began. The administrator's
handlers are `ForwardAdd`/`CheckSocket`/`InsertRow`, `ForwardDelete`, `SaveSettings`,
`NetworkForward`/`SaveNetworks`, `ForwardsPage`. Map iteration order in `forwardIP` is a
nondeterministic choice. Containers and host sockets change as they like.

**SelfUpgrade.** `file` holds the version in each of the four files, `proc` the processes
with a program counter for the main goroutine, `verifyUpgrade` and the upgrade
goroutine. Each rename and removal is a step and may fail. `fate` says how a release
behaves when it is started. Timeouts (health check, watch) may fire whenever what they wait for
is not there, since a boot may take any time.

**ChunkUpload.** `state` and `tmp` are the resume record and its temporary file, `seg` the
segments, `dst` the destination, `segLock` and `stateLock` the two lock families,
`req` the requests at work, `page` the browser's coordinator. Coarser than the code: the temporary
file is written in one step; a lock is taken together with the read that follows
it; the eviction of `lockCache` is left out; a crash keeps what was written;
the destination is a function of chunk positions, not bytes. `WholeFileCRC` is the
`fileCRC32` field, which the web client leaves empty and another client may send.

**Provision.** `users` is the users table (prefix, cap, administrator or not), `docker` the managed
containers with published ports (`pub`) and forwarded ones (`fwd`, a label), `up` the
containers of each stack, `req` the requests with the account row each one read at its start.
`checkContainerCap`, `InspectSource`, `ReadPorts`, `nextPort`, `ContainerCreate`,
`ContainerStart`, `StartFails`, `Undo`, `StopCopy` are the calls of `CreateContainer` and
`DuplicateContainer` in order; `Refuse` stands for every error before the container
exists; `StackGuard`, `ComposeUp`, `ComposeUpFails`, `ComposeDown` are the stack handlers.
Whether a creation's networks are all forwarding ones is chosen when the
container is created, where it takes effect. `Alone` is an assumption about users and not
code: with `Overlap = FALSE` two requests for one account or for overlapping blocks
are not at work at once. Accounts waiting for approval or disabled are not told apart
from others, a paused container counts as running, a restart is a stop and a start,
and no user name is a prefix of another (`ListContainers` recognises a user's
containers by the prefix of their names).

**SessionLife, Sessions.** `SessionLife` is the promise: a login begins, and once it is revoked, or
its account barred, nothing is served for it. In `Sessions`, `users` are the rows with their
`session_epoch`, `jar` the cookie each browser holds, `req` the requests: `Admit` is `authMiddleware`
with `CSRFProtect` and the role checks, which judge one row read once; what follows works with
that row while others change it; `Deliver` brings an answer, with its cookie, in any order or
never. `Who`, `Alive` and `Barred` are the refinement mapping: the logins alive are those begun and not ended.

**Disks.** `tree` holds, for each directory, base name and suffix, whether an entry is there and its files;
`Choose`, `RenameStep`, `ListFiles`, `CopyFile`, `EndCopy` are the system calls of `netdiskCopyOne` and
`copyPathWithPolicy`, `NameJob` to `EndJob` those of `runBackup`. `kept` is the order of the
registry's jobs, `CancelSeen`/`CancelSet` the two halves of `backupJobCancel`. Folders hold files
only. The code locks nothing here: with `Overlap = FALSE` nobody begins to work on an entry another writes
to (`Untouched`), or puts one where a move is taking it away (`Moving`).

**Netdisk.** `cache` and `scan` are `dirSizeCache` and `dirSizeRunning`. A request is `Estimate`, `OwnWalk`,
`Check`, `Written`, `Invalidate`, `Finish` as far as its handler makes these calls. A chunked
upload is its record and the bytes its segments hold (`part`); an init registers its session (`session`), reads the
record (`ReadRecord`), is held against the quota and writes the record back. `tasks.go` reads its
list (`SnapBegin`, `SnapStat`, `SnapDrop`) between any of these steps and drops sessions. A file is its size;
`Mounted` are the files containers write. With `Overlap = FALSE` no two requests are about one file.

**MCP.** `Resolve` reads the conditions of `resolveMcpContainer` one by one; `OpenStream`, `Call` and
`Post` are the three ways in; `Send` and `Serve` the buffer and its writer in `sse.go`. `applier` is
a settings request or the start of the process inside `ApplyRemoteMCP`, `lock` its mutex, `old` the
port that the process which an upgrade replaces still has.

**Schema.** `Migrations` is the list of `store.Migrate`, each with the tables, columns and unique keys it makes
or drops and the rows it repairs. `LeftBy` is what an earlier release left: what its create
statements made and its migrations added. A migration and its record are one transaction.

**Networks.** `nets`, `joined`, `grants`, `pool` are Docker's and the store's; `Attachable`, `GuardUsable` and
`Inspectable` the three statements of the rule. A request that attaches a container reads the
image's preset, for an edit the networks the container is on, the grants, and Docker's list, each in a step
of its own that may fail (`ReadPreset`, `ReadCurrent`, `ReadGrants`, `ReadList`); it is then guarded,
resolved or validated (`ConnectGuard`, `UpdateResolve`, `CreateValidate`) and joins. `offered` is what the preset
has offered it so far, `could` what of that its user was entitled to at some moment.

**FileTree, ContainerFiles.** `FileTree` has the pure part: trees, Docker's archives, and what the tools
make of them (`rewriteArchive`, `walkArchiveNames`, `searchArchive`, `applyEdits`), and the links of the
network disk: `Resolve` is `cleanUserPath`, which follows them, `Landing` and `Extract` are `extractContainerTar`, which
writes through those that stay in the destination. Links in a container lead nowhere here, since Docker
resolves them. In
`ContainerFiles` a call takes an archive in a single step and puts it in one, with the container's processes, other
calls and restarts in between; `ever` and `always` hold what its source had at some, and at
every, moment of it.

The modules share no variables. Where one touches another it assumes less than the
other guarantees: `nextPort` lets any subset of the relayed ports be open, the sweep
of `RuntimeRefresh` is the `Sweeper` of `PortForward`, a chunk in `Netdisk` is any part of a file, and
an account in `MCP` is disabled and enabled at any time.

## 4. Runs

All runs are expected to pass. Each also satisfies its module's `TypeOK`: add
`INVARIANT TypeOK` to its cfg to see it, at the price of a longer run.

| Run | Checks | Shows |
|---|---|---|
| RefreshSweep | `NoLostTrigger`, `CacheNeverGoesBack`, `CacheConverges` | two handlers, two refreshers and the ticker: a trigger always has somebody bound to act on it, listings are stored in order, the cache ends equal to Docker |
| ForwardAdmin | `ClosedForGood`, `Honoured`, `CalmKeeps`, `OutageKeepsContainers`, `Converges` | the sweep, an administrator and shutdown together, against containers, sockets and calls that fail |
| Upgrade | `ExecutableInPlace`, `GoodVersionKept`, `Recovers` | two upgrades, under a service manager or under the watcher, with every kind of bad release, failures, a power loss |
| Upload | `ReceivedIsStored`, `AcknowledgedIsRecorded`, `DestinationStays`, `UploadEnds` | two page loads one after the other, lost answers, crash, abort, for a client that sends the checksum of the file |
| ProvisionBlocks | `ForwardClaimsDistinct`, `NothingHalfCreated`, `CapRespected` | a block of ports changes hands while requests create, copy, fail and leave |
| Sessions | `SomebodyAdministers`, `HonoursRevocation`, `SessionEnds` | cookies and epochs implement `SessionLife` whatever answers arrive late; renewal has an end; the guards keep an administrator |
| Disks | `MoveKeeps`, `OnlyOverwriteReplaces`, `BackupWhole`, `JobsEnd` | requests and backup jobs over disks that change, fail and crash |
| MCP | `InLine`, `OnlyIfAllowed`, `ExternalStreamsEnd`, `AnsweredOrEnded` | an agent, its token and the external listener while all of them change |
| Schema | `ServesAlike`, `Migrated` | databases of twelve releases, through fifty migrations with crashes |
| Networks | `NotInherited`, `JoinedEntitled`, `NothingLost` | requests that read the preset, the grants and the networks one after the other while they change and lookups fail: what they join was offered and granted |
| Netdisk | `QuotaKept`, `SessionsCleared`, `FigureConverges` | two requests against one quota, background scans, a share that is taken away, a list of tasks that is read amid inits |
| ContainerFiles | `FindsWhatIsThere`, `CopiesWhatWasThere`, `EditsAreWhole` | two calls at once on a container that others change, stop and start |

Nine runs do not check for deadlock: there nothing has to happen once the last
request, edit or upgrade is over.

Some properties carry the condition under which they hold, because the code does not
promise more; section 8 has the counterexample to each without its condition.

* No overlap (`Overlap = FALSE`, or one user of its kind): `ForwardClaimsDistinct` and `CapRespected` speak of requests for one account or
  block that do not overlap, `SomebodyAdministers` of administrators who do not, `InLine` of saves that do not, `NotInherited` and
  `NothingLost` of edits of one network and requests about one container that do not, `MoveKeeps`, `OnlyOverwriteReplaces` and
  `BackupWhole` of work on different entries of the disks, `ReceivedIsStored` and `DestinationStays` of
  page loads one after the other.
* No crash at one place: `ExecutableInPlace` of no power loss, `ReceivedIsStored` of none amid the clean-up, `NothingHalfCreated` of clean-up
  calls that succeed.
* Patience: `ExecutableInPlace` and `GoodVersionKept` of administrators who wait until one upgrade is over (`Patient`), `Recovers` of releases
  that can be recovered from.
* Data: `DestinationStays` of clients that send the checksum of the file, `ServesAlike` of databases without the old check on roles, `Migrated` of databases without shared
  prefixes, `QuotaKept` of requests whose figure was right and beside which nobody else wrote (`lone`).
* `OutageKeepsContainers` of the forwards of containers, `CalmKeeps` of reconciles nothing disturbs.
* `FindsWhatIsThere` takes what `glob`, `search_files` and downloads show as the archive names it, which below the top is not
  where it is in the container, and says nothing of listings taken from an archive below the top.
* `JoinedEntitled` asks that a network was granted and there at one instant at or after the preset offered it, in the
  same request; not that both held at once.

## 5. Bounds

Constants named `Max...` bound what the environment does (operations, faults, crashes,
edits), never what the code does in response.

* RefreshSweep: one container, two changes, one failed call. The coalescing protocol needs two
  handlers and two refreshers to go wrong; containers do not interact in it.
* ForwardAdmin: one TCP and one UDP socket and two containers that
  both want the TCP one, so that claims collide and are handed over; two changes and one
  failed call, enough for a change in the middle of a reconcile and a second reconcile that
  started earlier.
* Upgrade: three releases, two upgrades, one fault, one power loss, seven fates. Four process slots, because two
  upgrades leave at most a watcher, its replacement, a respawned binary and one more alive.
* Upload: files of two sizes in chunks of two units with a short last
  chunk, two chunks in flight, so that a retry overlaps the request it repeats; one fault, one
  crash, one abort.
* ProvisionBlocks: two accounts, one block with two free ports, two containers, two requests,
  a cap of one, one stack publishing a port of the block, two edits (a block is
  taken from an account, and the next owner is deleted), one fault. Other blocks
  cannot collide, which the theorem of section 7 proves.
* Sessions: two accounts with a browser each, two logins, two requests in flight and two edits: a login that is revoked
  while a request of it is at work and an answer of another is on its way. The lifetime of a
  cookie is one tick, that of a login one, the horizon two.
* Disks: a folder of two files and a plain file, one directory on each disk, suffixes up to two;
  one request and two jobs, three writes, one failure.
* MCP: one stream with room for one answer, two ports of which one is taken, one save, one
  edit, three calls, one restart. The restart starts a second applier beside the save.
* Schema: new databases and eleven releases, at least one on each side of every migration that
  depends on what an earlier one left; two crashes, one failing transaction.
* Networks: a host network and a managed one, two groups, one container besides the one to be
  created, two requests, two changes of a membership or preset, so that one falls between any two
  lookups of a request and another before or after; lookups of the list, the preset and the restrictions may fail.
* Netdisk: sizes up to two against a quota of two, so that one write fills it; two requests, one
  pair of files that uploads bring, a share, one write by a container to the one file it has mounted.
* ContainerFiles: trees two folders deep, a link that leads to a folder and, by a change, out of the disk or in a circle; two
  calls and one change by somebody else between any two of their steps; a cap of two results, so that it is reached.

## 6. Fairness

Safety properties need none. `CacheConverges` and `Converges` assume that a started
goroutine goes on (the Go scheduler; a goroutine of `PortForward` that is not idle stands before one step that nothing blocks, so `Proceeds` is that step) and that the 15 second ticker keeps ticking
(`StartBackgroundJobs`); no request, no change and no shutdown is forced,
and calls fail finitely often because faults are bounded. `Recovers` assumes the same of
all goroutines, and, under a service manager, that it restarts the service; without one nobody
has to start the binary again. `Migrated` assumes that the process goes on and is restarted
after a crash. `UploadEnds` assumes that handlers go on and that a
page goes on while it is open; closing one is never forced. `JobsEnd` assumes that the goroutine of a
job goes on, never that somebody cancels it. `ExternalStreamsEnd` and `AnsweredOrEnded` assume that
appliers, resolved requests and the writers of streams go on; agents and administrators need not.
`FigureConverges` assumes that a scan goes on and that the cached figure expires, and says what
follows if the user goes on looking at the page that shows it; `SessionsCleared` says what follows if
clients go on polling the list of tasks, as each does every three seconds (tasks.go:165-170). All of it is weak fairness: no lock in
these modules can be taken away from a waiter for ever by fair others except the
record's lock of an upload, and TLC shows `UploadEnds` without assuming more.

## 7. Proofs

For any value of the constants that satisfies the module's `ASSUME`:

| Theorem | Statement | Argument |
|---|---|---|
| `RuntimeRefreshProofs!TypeCorrect` | `Safety => []TypeOK` | by action |
| `RuntimeRefreshProofs!NoTriggerLost` | `NoLostTrigger` | `TriggerInv`: with `OneRefresher`, since a trigger may be left to a refresher only if the one that owns `inFlight` is still going to look |
| `RuntimeRefreshProofs!CacheMonotonic` | `CacheNeverGoesBack` | `SweepInv`: a goroutine between listing and storing holds `refreshMu`, so nobody stored anything newer meanwhile |
| `PortForwardProofs!TypeCorrect` | `Safety => []TypeOK`, which says that a listener's rule is complete | by action |
| `PortForwardProofs!StaysClosed` | `ClosedForGood` | `Apply` returns early once `closed`, however old its rules are |
| `PortForwardProofs!CalmReconcilesKeep` | `CalmKeeps` | `CalmInv`: what a calm reconcile has read so far is what is there (`HasRead`); its two listings may resolve different addresses, but not give a socket to a container in one and to a row in the other (`ClaimedAlike`) |
| `PortForwardProofs!OutageDisturbsNothing` | `OutageKeepsContainers` | what the failed listing carries over wins over every row, and `Apply` keeps it as it stands |
| `PortForwardProofs!RulesHonoured` | `Honoured` | `HonouredInv`: the rules in the locals of every reconcile in progress are valid (`Checked`), not only the applied ones |
| `ProvisionProofs!TypeCorrect` | `Spec => []TypeOK`, which says that no prefix is beyond the last | by action |
| `ProvisionProofs!ForwardPortsDistinct` | `~Overlap` implies `Spec => []ForwardClaimsDistinct` | `ClaimInv`, below |
| `ProvisionProofs!NoHalfCreated` | `Spec => []NothingHalfCreated` | `HalfInv`: the request a fresh container belongs to is about to start or remove it |
| `ProvisionProofs!CapHolds` | `~Overlap` implies `Spec => CapRespected` | `CapInv`: what `checkContainerCap` found (`Room`) lasts until the creation, because nobody else at work is of the account (`OneEach`) |
| `MCPProofs!OnlyWhatWasMet` | `Spec => OnlyIfAllowed` | `ResolveInv`: the checks a request has passed, and the key it was compared with, are among what was met since it began |
| `MCPProofs!ListenerFollowsSettings` | one saver implies `Spec => []InLine` | `ApplyInv`: one applier is at work, and what it has read is what is stored |
| `RuntimeRefreshProofs!NetdiskTypeCorrect` | `NetdiskSafety => []N!TypeOK`, where `N` is `Netdisk` | by action, from `TypeInv`, which also gives the shape of every request's row |
| `RuntimeRefreshProofs!QuotaIsKept` | `NetdiskSafety => N!QuotaKept` | `QuotaInv`: a request whose figure was right carries its room with it, below |
| `MCPProofs!ClaimsStayApart` | `~Overlap` implies `DiskSafety => [](TypeInv /\ DiskInv)`, of `Disks` as `D` | `Apart`, `ReqOK` and `JobOK`, below |
| `MCPProofs!MovesKeep` | `~Overlap` implies `DiskSafety => D!MoveKeeps` | `Copied`: what a move has gone past and was there when it began is at its destination |
| `MCPProofs!OnlyOverwritersReplace` | `~Overlap` implies `DiskSafety => D!OnlyOverwriteReplaces` | `Unused`: what a careful request has still to write is not there |
| `MCPProofs!BackupsWhole` | `~Overlap` implies `DiskSafety => D!BackupWhole` | `JobOK`: what a job without failures has read is in its copy |
| `NetworksProofs!TypeCorrect` | `Spec => []TypeOK` | by step of the request |
| `NetworksProofs!GrantsNotInherited` | `~Overlap` implies `Spec => []NotInherited` | `GrantInv`: the one editor of a network drops what its deletion left (`OneEditor`, `NoneGone`, `StaleDropped`) |
| `NetworksProofs!ContainersJoinEntitled` | `Spec => JoinedEntitled` | `EntitledInv`: every name a request is going to join was usable at an instant of it (`Promised`) |
| `NetworksProofs!EditsLoseNothing` | `~Overlap` implies `Spec => NothingLost` | `EditInv`: an edit's container is on what it has put back so far, less what was removed (`AllPutBack`), because nobody else is at it (`OneAbout`) |
| `NetworksProofs!RulesAgree` | `OneRule` | the list of networks, the guard of connect and the details decide alike |
| `ChunkUploadProofs!TypeCorrect` | `Spec => []TypeOK` | `Inv1` and `Linked`, below |
| `ChunkUploadProofs!NoTornSegment` | `Spec => []SegmentsWhole`, which no run checks | `Locked`: who copies a segment holds its lock |
| `ChunkUploadProofs!ListedIsStored` | uploads that follow one another, no crash amid the clean-up: `Spec => []ReceivedIsStored` | `Stored`, below |
| `ChunkUploadProofs!ToldIsRecorded` | uploads that follow one another: `Spec => []AcknowledgedIsRecorded` | `Stored` |
| `ChunkUploadProofs!CompletedIsTheFile` | the same as `ListedIsStored`, and files whose sizes differ: `Spec => []DestinationStays` | `Followed`, below |
| `SelfUpgradeProofs!TypeCorrect` | `Safety => []TypeOK` | by step of the goroutine |
| `SelfUpgradeProofs!ExecutableStays` | `Patient` implies `Safety => []ExecutableInPlace` | `Inv1` and `Inv2`, below |
| `SelfUpgradeProofs!GoodVersionStays` | `Patient` implies `Safety => []GoodVersionKept` | `Inv1` and `Inv2` |
| `SessionsProofs!EveryCookieIsBacked` | `Spec => []SessionInv`, which contains `TypeOK` | `SessionInv`, below |
| `SessionsProofs!CookiesHonourRevocation` | `HonoursRevocation`, that is `Spec => Life!Spec` | every step maps to a step of `SessionLife` or a stutter, from `SessionInv` |
| `SessionsProofs!SessionsEnd` | `SessionEnds` | a renewed cookie keeps the time its login began, from `SessionInv` |
| `SessionsProofs!SomebodyAlwaysAdministers` | `Spec => []SomebodyAdministers` | `AdminInv`: the administrator whose edit is at work stays one until the edit is done |

`HonoursRevocation` cannot be shown step by step from what the rows say: a cookie may be in a
browser, in a request that was admitted before the logout, or in an answer still on its way.
`SessionInv` says of all of them that they are backed (`Backed`: the account, the epoch and
the time are those of the login's beginning), and of every login that has ended that its account's
epoch has gone on (`EpochsInv`). So a cookie that is compared with the row and found
equal belongs to a login that is alive, which is all that `Serve` of `SessionLife` asks. The
refinement mapping is `Who`, `Alive` and `Barred` of `Sessions`: a credential check is `Begin`, a
logout or a reset `Revoke`, a password change `Rotate`, a change of one row `Bar` or `Unbar`, and
everything else is invisible. `SomebodyAlwaysAdministers` rests on `~AdminsOverlap`, as section 8 shows
it must.

The proofs about `ChunkUpload` have four layers, each resting on those before it. `Inv1` and `Linked`
hold whatever overlaps: types, that a request and its page agree on id and size (`Owned`), who holds which lock (`Locked`),
and that an upload id is minted once, for one size (`OneLayout`). `Inv2` adds what
`Overlap = "nothing"` gives (`Solo`): pages take turns, an init or an abort is alone at the record, there is
one complete. `Stored` says of every request in progress that what it is about to write to the record is
backed by segments (`Working`), of the record that what it lists is stored (`Kept`), and of the
pages that what they were told is in it. `Followed` says that what an assembly has
appended so far is the beginning of the file (`AssemblyOK`) and that a destination answered for is that
file (`Stays`). Each hypothesis is needed, as the counterexamples of section 8 show: overlap breaks `Solo`, a crash amid
the clean-up leaves a record listing segments that are gone, and a record of another file of the same
size is resumed by its size alone, so that complete fails and removes the destination, or answers
for a mixture.

The proofs about `SelfUpgrade` start from what each step does to the processes (`Moves`, `Ends`,
`Upgrades`, `Spawns`). `Inv1`
says who is alive together: who swaps is alone (`Alone`), a watching process has one replacement (`Watched`), and while there
is a marker or a backup all processes but one are watching (`OneTrial`), so that no three
are alive (`AtMostTwo`). `Inv2` adds, while nothing
disturbs, what the files hold. `ExecutableInPlace` is not inductive by itself: a roll back that
fails must find what it parked. So the executable is away only while the one process that moved it goes on
(`Taken`), what it parked is there to be put back or else nobody can take the backup from it (`Parked`),
once the backup is gone at most one roll back has still to find that out (`OneLate`), and a release on trial
is the executable or has just been parked (`OnTrial`), so that the commit which drops the backup
drops it for a version that serves (`Trusty`). `Patient` is needed for both, and without a service manager so are
operations that do not fail: section 8.

`GrantsNotInherited` and `EditsLoseNothing` need `~Overlap` for the same reason; `ContainersJoinEntitled`
needs nothing. Grants, memberships, presets and networks change freely in all three, between any two
lookups of a request, and lookups fail.

`ForwardClaimsDistinct` is not inductive: what `managedHostPorts` read is old when
the container is created, and Docker does not refuse a forwarded port. `ClaimInv` adds that
requests at work have disjoint blocks (`Separate`), that what a request read still
covers every claim in its block (`Seen`), and that the ports it allocated are of its block and
nobody's claim (`Fresh`). A container somebody else creates in between claims ports of another
block, so it disturbs neither. Account edits do not matter, because a request keeps the row it
read. The hypothesis `~Overlap` is needed: section 8 has the counterexample.

The proofs about `Netdisk` are of its instance `N` in `RuntimeRefreshProofs`: they are the second half of
that module, and `NetdiskSafety` is `N!Init /\ [][N!Next]_N!vars`. `QuotaKept` says something of the step in which a
request ends, and what it needs was established when the request was checked, any number of steps of the same
user's other readers and scans before. `QuotaInv` carries it: as long as a request is one whose figure was
right and nobody else has written (`lone`), then before the check the figure it holds is the space in use, and from the check on
the bytes stored together with those it has still to write are within the quota (`Room`). Each
file it writes moves bytes from the second set to the first, whether it ends whole or short (`WriteHolds`).
The space in use is stated as the number of bytes in two sets, so that what a write does to it
follows from unions and subsets.

The proofs about `Disks` are of its instance `D`, the second half of `MCPProofs`. None of the three properties says
by itself why a name that was free when it was chosen is still free when it is written to, steps later. `Apart` does:
a request or a job claims the places it is going to write to from the step in which it begins (`Places`, `JobPlaces`),
the claims of any two are disjoint, and no claim is of what a move takes away. So what others do
leaves a claim as it was (`ReqStays`, `JobStays`), and what each action does to its own is shown once per action
(`ChooseCarries` to `EndCopyCarries`, `NameCarries` to `CancelCarries`). `ReqOK` says what a request relies on: the
destination it chose and the files still to be copied are not there (`Unused`, for all items of a restore, whose
plan names different ones), and a move has copied what it has gone past (`Copied`); `JobOK` says the same of a backup job.
Containers write into the source of a copy all the while. Writing the proof showed that it is not enough for
destinations to differ: if the source of a move is deleted and another request puts an older
file there, the move would remove a file it has not copied. `Moving` keeps that out under `~Overlap`. Section 8 shows
what overlapping work does.

Only model-checked: all liveness, which is out of the prover's reach, and the safety properties that no
theorem above states: `ServesAlike` (Schema), `FindsWhatIsThere`, `CopiesWhatWasThere` and `EditsAreWhole` (ContainerFiles). Schema's is about one fixed list of migrations, so
that TLC's run is the whole of it. ContainerFiles' are about what walks compute from the trees
they find: sequences that `SetToSeq` orders and folds build up, whose proofs are inductions over data, out of this prover's reach.

## 8. What TLC refutes

Each of these is a definition of its module, or the property of a run, that TLC finds violated
under the constants given (put it in a copy of the run's cfg). Where a comment or a document of the repository says otherwise it
is named.

| Property | Constants | Counterexample |
|---|---|---|
| `RemovedNotListed` (RuntimeRefresh) | RefreshSweep's with `MaxOps = 1`, `MaxFaults = 0`, `SPECIFICATION Safety` | a sweep that listed Docker before a removal stores its listing after the eviction (resources.go:118); the comment at 114-116 says the eviction prevents stale data |
| `OutageKeepsAll` (PortForward) | ForwardAdmin's with `Handlers = {}` | without Docker, `manualForwardRules` has no address for a row that names a container, and `Apply` stops its listener (portforward.go:86); docs/operations.md:51 says forwards already running are kept |
| `DeletedNotServed` | ForwardAdmin's with `MaxChanges = 1`, `MaxFaults = 0` | a sweep that read the rows before a delete applies them after it (portforward.go:367) |
| `OffServesNoContainer` | ForwardAdmin's with `MaxFaults = 0` | a labelled container is served although forwarding was switched off (forward.go:213; docs/operations.md:55 says otherwise) |
| `ReconcileIdempotent` | `Networks <- MCNetworksTwoNets`, `Decl <- MCDeclTwoNets`, `Places <- MCPlacesTwoNets`, `Containers = {c1}`, no rows or handlers, `MaxChanges = 1` | Go's map order picks another address (forward.go:403) and the listener is replaced |
| `RecoversAlways` (SelfUpgrade) | Upgrade's with `MaxFaults = 0`, `MaxCrashes = 0` | under a service manager, a release whose server cannot be built is restarted for ever (main.go:223); without one, the new process rolls the files back itself, and the watcher, finding no backup, exits without starting the old binary (upgrader.go:495) |
| `GoodVersionKept` | `Patient = FALSE`, `Fates = {"sick"}` | the pending commit of one upgrade deletes the marker and backup of the next (main.go:319) |
| `ExecutableInPlace` | Upgrade's with `Patient = FALSE`, `MaxUpgrades = 2` | the pending commit of one upgrade deletes the backup of the next between the two renames of its `Swap`; the second rename fails and there is nothing to put back (upgrader.go:380) |
| `ExecutableInPlace` and `GoodVersionKept` without `Undisturbed` | Upgrade's, no service manager | the watching process and its replacement roll back at once: the second parks what the first has restored, or drops what it has parked, and a rename that fails, or a power loss, leaves it so |
| `ExecutableInPlace` without `crashes = 0` | Upgrade's | a power loss between the two renames of `Swap` (upgrader.go:380) |
| `DestinationStays` (ChunkUpload) | Upload's with `Size <- SameSize`, `WholeFileCRC = FALSE` | a file edited to the same size between two page loads: chunks of both are assembled and answered ok, because the web client leaves `fileCRC32` empty (web/lib/chunkupload.js:160) |
| `DestinationStays` | Upload's with `Overlap = "anything"` | an init writes the record back after complete removed it; the next complete deletes the finished file (chunkupload.go:387) |
| `ReceivedIsStored` | Upload's with `Overlap = "chunks"`, no faults, crashes or aborts | an init reads and writes the record without its lock while a chunk of the page before a reload is still running (chunkupload.go:482) |
| `ReceivedIsStored` | Upload's with `CrashPoints <- AllPoints` | the clean-up removes segments before the record (chunkupload.go:394) |
| `ReceivedIsStored` | one page, `Overlap = "chunks"`, `MaxAborts = 1` | abort takes no lock and a running chunk request writes the record back (chunkupload.go:742) |
| `StackFitsCap` (Provision) | ProvisionBlocks' | the stack quota counts `ListContainers`, which shows no stack's containers (stacks.go:278); the comment above it says they must fit the cap |
| `ForwardClaimsDistinct` | ProvisionBlocks' with `Overlap = TRUE` | two tabs of one user read the ports before either creates: same forwarded port, and Docker does not object (docker.go:506) |
| `CapRespected` | ProvisionBlocks' with `Overlap = TRUE` | two requests pass `checkContainerCap` before either creates (server.go:1413) |
| `PartialRemoved` | ProvisionBlocks' | the failed container is removed with a cancelled context, or the removal fails, and it stays (docker.go:776; the comment above `createStream` says it is removed) |
| `VerifiedIsReplaced` (Sessions) | Sessions' | a reset by an administrator between the comparison and the transaction of `ChangeOwnPassword` (store.go:2155) is undone by the password change it should have refused |
| `SomebodyAdministers` | Sessions' with `Admins = {u1, u2}`, `Newcomers = {}`, `AdminsOverlap = TRUE` | two administrators demote each other |
| `OnlyOverwriteReplaces` (Disks) | `Netdisk = {home, sub}`, `Names = {"doc"}`, `Start <- Twice`, `Reqs = {}`, `Overlap = TRUE`, `MaxFaults = 0` | two jobs of one request for entries with one name choose the same free name (backup.go:236); the comment at backup.go:289-291 says its files cannot exist before |
| `MoveKeeps`, `BackupWhole` | Disks' with `Jobs = {j1}`, `Overlap = TRUE` | the copy is deleted or renamed before the move removes its source (netdisk.go:640), or before the job says it is done (backup.go:249) |
| `AlwaysInLine` (MCP) | `Savers = {"save", "other"}`, `MaxSaves = 2`, no edits, calls or restarts | `ApplyRemoteMCP` reads the configuration before it takes the lock: of two saves the older may be applied last (mcp_remote.go:136) |
| `NeverDangles` (Schema) | `Releases = {1}`, no crashes or faults | widening the check on roles renames the table, SQLite renames it in the references of others too, and they lead to a table that is gone (store.go:834) |
| `MigratedAlways` | `Releases = {1}`, no crashes or faults | two users share a port prefix: the unique index of migration 16 cannot be made (store.go:710), so that the process ends and, restarted, ends there again |
| `NotInherited`, `NothingLost` (Networks) | Networks' with `Overlap = TRUE` | two edits of one network, or two requests about one container, at once |
| `DecidedAtOnce` | Networks' | the preset is read before the grants and the list (networks.go:349-350, server.go:2419-2426), so what it no longer offers is still attached |
| `FreshIsRight` (Netdisk) | Netdisk's | transfers and restores do not invalidate the cached size, and an invalidation during a scan is overtaken by it (the comment at netdisk.go:1126-1129 says the figure is stale after a write) |
| `StaysListed` | Netdisk's | the list of tasks found a session without its record, because an init registers the one before it writes the other; it takes the session out when the record is there (netdisk.go:896-899, tasks.go:263-271) |
| `NamedByPath` (ContainerFiles) | ContainerFiles' | below the top, `glob` and `search_files` name files as the archive does and not where they are; the comment at tools_files.go:78-82 and the description at tools.go:216 say container paths |
| `ListedBelow` | ContainerFiles' | a folder below the top is listed from its archive, when the container is stopped or has no shell, as if its names were whole paths, and comes out empty (container_files.go:253-302; the comment at 49-54 says that it is listed) |
| `NothingUndone` | ContainerFiles' | `edit_file` writes back the whole file, and what was written since it was read is undone (tools_edit.go:60-64) |

Observed while reading, without a run:

* Networks: a container created without networks is put on Docker's default bridge even where that is restricted;
  `validateNetworkAttachment` takes an own network by its display name although it is outside the
  image's pool (server.go:1488-1494); a copy of a container drops granted and host networks; grants of a network that is
  removed with Docker's own tools stay.
* Container files: a link of the network disk that is selected is copied as what it leads to, under that name, and one that
  leads out fails the request, although comments say that links are skipped (container_files.go:171, 235-237); `search_files` is described as "text or regex" (tools.go:214) and matches text; a
  command that times out goes on in the container; copies to the network disk are not held against the quota.
* Disks: a move of a folder between the disks skips links and then removes them with the source; the
  schedule of backups fires only in a minute that the ticker sees (backup.go:1231-1254); a job shown as cancelled may turn to done.
* MCP: a request named `notifications/initialized` that has an id is never answered (mcp.go:133-135); when the second of two saves
  fails, the settings it puts back may be the ones the first could not apply.
* Schema: migrations 44, 46, 49 and 50 drop columns that the binary of before reads, so a roll back after them
  starts a release on a schema it does not know.
* Sessions: `VerifiedIsReplaced` aside, the access log's export asks for 5000 rows of which the store gives 100; the
  security settings are cached as the defaults after an error of the database.
* Relay: `Apply` rewrites fields of a live rule while relay goroutines read them without the lock (portfwd.go:272);
  connections that are open survive a switch of the login gate.
* Process watches: one that is set again between the listing and the notification is deleted.

## 9. Not modelled

* Pure code: raster previews, parsing, formatting, HTTP headers. Tests with data say more.
* Volumes, images, registries, settings pages: each request is one call of Docker or one row, with no state
  of mudp's own between calls.
* Bytes on connections: relays, terminals, log streams, listing and streaming of files.
* Lockout, captcha, rate limiting: counters changed in one statement or under one mutex.
* Process watches, the access log, the resource history.
* SQL: each module models the rows it uses; SQLite serialises transactions.
* Paths: that a path stays inside its directory is taken from the code's checks (`symlink.go`) and not modelled.
