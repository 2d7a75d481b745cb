----------------------------- MODULE SelfUpgrade ----------------------------
(***************************************************************************)
(* mudp's one-click upgrade.  The running process downloads a release,     *)
(* writes a marker, swaps the new binary in and restarts: under a service  *)
(* manager it exits, otherwise it spawns the new binary and watches it.    *)
(* The new process finds the marker, serves, and either commits or rolls   *)
(* the files back (internal/upgrader, server/selfupgrade.go, cmd/mudp).    *)
(*                                                                         *)
(* Several processes, and several goroutines of one process, act on the    *)
(* same four files; every file operation that matters is a step of its     *)
(* own.  Timeouts fire whenever the thing waited for is not there: a boot  *)
(* takes arbitrarily long, so their order is not fixed.                    *)
(***************************************************************************)
EXTENDS Integers, FiniteSets

CONSTANTS
  Versions,     \* releases; Installed is the one that runs at first
  Installed,
  Slots,        \* processes that may be alive at once
  Fates,        \* what may become of a release when it is started, see below
  Patient,      \* whether administrators wait for one upgrade to be over before the next
  MaxUpgrades,  \* bound on the upgrades an administrator starts
  MaxFaults,    \* bound on failed file or download operations
  MaxCrashes    \* bound on power losses

None == "none"

(***************************************************************************)
(* What a release does when it is started: serve; fail to execute, to open *)
(* the database, to migrate it or to build the server; hang before it      *)
(* listens; or listen without ever answering the health check.             *)
(***************************************************************************)
AllFates == {"good", "exec", "open", "migrate", "assemble", "stuck", "sick"}

ASSUME UpgradeAssumption ==
  /\ Installed \in Versions
  /\ None \notin Versions \cup Slots
  /\ Slots # {}
  /\ Patient \in BOOLEAN
  /\ Fates \subseteq AllFates
  /\ MaxUpgrades \in Nat /\ MaxFaults \in Nat /\ MaxCrashes \in Nat

Goroutines == {"main", "verify", "upgrade"}

RollbackSteps == {"check", "park", "restore", "unpark", "unmark"}

Process ==
  [ver : Versions \cup {None},  \* the binary it was started from
   main : {"off", "open", "migrate", "assemble", "bind", "serving", "stopped"} \cup RollbackSteps,
   verify : {"off", "wait", "settle", "drop"} \cup RollbackSteps,
   upgrade : {"off", "download", "mark", "backup", "stage", "unstage", "prepare", "restart",
              "watch", "respawn", "watch previous"} \cup RollbackSteps,
   phase : {"idle", "running:download", "running:restarting", "error"},
   tag : Versions \cup {None},  \* the release being upgraded to
   respawn : BOOLEAN]           \* whether a roll back of the watcher starts the old binary again

NoProcess == [ver |-> None, main |-> "off", verify |-> "off", upgrade |-> "off",
              phase |-> "idle", tag |-> None, respawn |-> FALSE]

VARIABLES
  file,      \* exe, bak, new and failed: the version each holds
  marker,    \* whether mudp-upgrade.json is there
  proc,      \* slot -> process
  port,      \* the process that holds the listener
  fate,      \* version -> what it does
  supervised,\* whether systemd or the Windows service controller runs mudp
  trusted,   \* versions that have served (history variable)
  upgrades, faults, crashes

world == <<fate, supervised>>
vars == <<file, marker, proc, port, world, trusted, upgrades, faults, crashes>>

Booting(v) == [NoProcess EXCEPT !.ver = v, !.main = "open"]

Init ==
  /\ file = [exe |-> Installed, bak |-> None, new |-> None, failed |-> None]
  /\ marker = FALSE
  /\ port = CHOOSE p \in Slots : TRUE
  /\ proc = [q \in Slots |-> IF q = port THEN [NoProcess EXCEPT !.ver = Installed, !.main = "serving"]
                             ELSE NoProcess]
  /\ supervised \in BOOLEAN
  /\ fate \in {f \in [Versions -> Fates \cup {"good"}] : f[Installed] = "good"}
  /\ trusted = {Installed}
  /\ upgrades = 0 /\ faults = 0 /\ crashes = 0

Alive(p) == proc[p].ver # None

Goto(p, g, label) == proc' = [proc EXCEPT ![p] = [@ EXCEPT ![g] = label]]

Exit(p) ==
  /\ proc' = [proc EXCEPT ![p] = NoProcess]
  /\ port' = IF port = p THEN None ELSE port

Fault == faults < MaxFaults /\ faults' = faults + 1

\* WaitHealthy asks whoever holds the address.
Healthy == port # None /\ fate[proc[port].ver] # "sick"

-----------------------------------------------------------------------------
(***************************************************************************)
(* program.run: open, migrate, build, listen.                              *)
(***************************************************************************)
OpenDatabase(p) ==
  /\ proc[p].main = "open"
  /\ fate[proc[p].ver] # "stuck"
  /\ IF fate[proc[p].ver] = "open" THEN Exit(p) ELSE Goto(p, "main", "migrate") /\ UNCHANGED port
  /\ UNCHANGED <<file, marker, world, trusted, upgrades, faults, crashes>>

\* The failure of an upgrade attempt rolls the files back before it dies.  The
\* main goroutine asks for its own path then: on Linux a binary that was parked
\* meanwhile finds no backup under its new name, on Windows it keeps its name.
DieRollingBack(p, g) ==
  \/ marker /\ Goto(p, g, "check") /\ UNCHANGED port
  \/ (~marker \/ (g = "main" /\ file.exe # proc[p].ver)) /\ Exit(p)

Migrate(p) ==
  /\ proc[p].main = "migrate"
  /\ IF fate[proc[p].ver] = "migrate" THEN DieRollingBack(p, "main")
     ELSE Goto(p, "main", "assemble") /\ UNCHANGED port
  /\ UNCHANGED <<file, marker, world, trusted, upgrades, faults, crashes>>

\* server.New; its failure does not roll back.
Assemble(p) ==
  /\ proc[p].main = "assemble"
  /\ IF fate[proc[p].ver] = "assemble" THEN Exit(p) ELSE Goto(p, "main", "bind") /\ UNCHANGED port
  /\ UNCHANGED <<file, marker, world, trusted, upgrades, faults, crashes>>

\* ListenAndServe.  A marker starts verifyUpgrade; when the address is taken
\* the process is gone long before that goroutine's first poll.
Bind(p) ==
  /\ proc[p].main = "bind"
  /\ \/ /\ port = None
        /\ port' = p
        /\ proc' = [proc EXCEPT ![p] = [@ EXCEPT !.main = "serving",
                                                 !.verify = IF marker THEN "wait" ELSE "off"]]
        /\ trusted' = IF fate[proc[p].ver] = "good" THEN trusted \cup {proc[p].ver} ELSE trusted
     \/ port # None /\ DieRollingBack(p, "main") /\ UNCHANGED trusted
  /\ UNCHANGED <<file, marker, world, upgrades, faults, crashes>>

MainStep(p) == OpenDatabase(p) \/ Migrate(p) \/ Assemble(p) \/ Bind(p)

-----------------------------------------------------------------------------
(***************************************************************************)
(* verifyUpgrade: healthy, then stable for 20 s, then Commit in two steps. *)
(***************************************************************************)
\* Mutant: the new process takes its own health for granted.
VerifyHealthAssumed(p) ==
  /\ proc[p].verify = "wait"
  /\ Goto(p, "verify", "settle")
  /\ UNCHANGED <<file, marker, port, world, trusted, upgrades, faults, crashes>>

VerifyHealth(p) ==
  /\ proc[p].verify = "wait"
  /\ IF Healthy THEN Goto(p, "verify", "settle") /\ UNCHANGED port ELSE DieRollingBack(p, "verify")
  /\ UNCHANGED <<file, marker, world, trusted, upgrades, faults, crashes>>

CommitMarker(p) ==
  /\ proc[p].verify = "settle"
  /\ \/ marker' = FALSE /\ Goto(p, "verify", "drop") /\ UNCHANGED faults
     \/ Fault /\ Goto(p, "verify", "off") /\ UNCHANGED marker
  /\ UNCHANGED <<file, port, world, trusted, upgrades, crashes>>

CommitBackup(p) ==
  /\ proc[p].verify = "drop"
  /\ \/ file' = [file EXCEPT !.bak = None] /\ UNCHANGED faults
     \/ Fault /\ UNCHANGED file
  /\ Goto(p, "verify", "off")
  /\ UNCHANGED <<marker, port, world, trusted, upgrades, crashes>>

VerifyStep(p) == VerifyHealth(p) \/ CommitMarker(p) \/ CommitBackup(p)

-----------------------------------------------------------------------------
(***************************************************************************)
(* Rollback, called by any goroutine.  What follows it depends on the      *)
(* caller: only the watcher goes on living, and only if it succeeded after *)
(* the replacement had been started.                                       *)
(***************************************************************************)
RollbackFailed(p) == Exit(p)

RollbackDone(p, g) ==
  IF g = "upgrade" /\ proc[p].respawn
  THEN Goto(p, "upgrade", "respawn") /\ UNCHANGED port
  ELSE Exit(p)

RollbackCheck(p, g) ==
  /\ proc[p][g] = "check"
  /\ IF file.bak # None THEN Goto(p, g, "park") /\ UNCHANGED port ELSE RollbackFailed(p)
  /\ UNCHANGED <<file, marker, world, trusted, upgrades, faults, crashes>>

\* .failed is removed first, whether or not the rename then works.
RollbackPark(p, g) ==
  /\ proc[p][g] = "park"
  /\ \/ /\ file.exe # None
        /\ file' = [file EXCEPT !.failed = file.exe, !.exe = None]
        /\ Goto(p, g, "restore")
        /\ UNCHANGED <<port, faults>>
     \/ /\ IF file.exe = None THEN UNCHANGED faults ELSE Fault
        /\ file' = [file EXCEPT !.failed = None]
        /\ RollbackFailed(p)
  /\ UNCHANGED <<marker, world, trusted, upgrades, crashes>>

RollbackRestore(p, g) ==
  /\ proc[p][g] = "restore"
  /\ \/ /\ file.bak # None
        /\ file' = [file EXCEPT !.exe = file.bak, !.bak = None]
        /\ Goto(p, g, "unmark")
        /\ UNCHANGED faults
     \/ /\ IF file.bak = None THEN UNCHANGED faults ELSE Fault
        /\ Goto(p, g, "unpark")
        /\ UNCHANGED file
  /\ UNCHANGED <<marker, port, world, trusted, upgrades, crashes>>

RollbackUnpark(p, g) ==
  /\ proc[p][g] = "unpark"
  /\ file' = IF file.failed = None THEN file ELSE [file EXCEPT !.exe = file.failed, !.failed = None]
  /\ RollbackFailed(p)
  /\ UNCHANGED <<marker, world, trusted, upgrades, faults, crashes>>

RollbackUnmark(p, g) ==
  /\ proc[p][g] = "unmark"
  /\ marker' = FALSE
  /\ RollbackDone(p, g)
  /\ UNCHANGED <<file, world, trusted, upgrades, faults, crashes>>

RollbackStep(p, g) ==
  RollbackCheck(p, g) \/ RollbackPark(p, g) \/ RollbackRestore(p, g)
    \/ RollbackUnpark(p, g) \/ RollbackUnmark(p, g)

-----------------------------------------------------------------------------
(***************************************************************************)
(* startUpgrade and runUpgrade.                                            *)
(***************************************************************************)
\* A process whose own binary was parked meanwhile resolves other paths; it is
\* not modelled as starting upgrades.
StartUpgrade(p, v) ==
  /\ proc[p].main = "serving" /\ fate[proc[p].ver] = "good"
  /\ file.exe = proc[p].ver
  /\ Patient => proc[p].verify = "off" /\ \A q \in Slots : Alive(q) => q = p
  /\ upgrades < MaxUpgrades /\ upgrades' = upgrades + 1
  /\ proc[p].phase \notin {"running:download", "running:restarting"}
  /\ proc' = [proc EXCEPT ![p] = [@ EXCEPT !.phase = "running:download", !.tag = v, !.upgrade = "download"]]
  /\ UNCHANGED <<file, marker, port, world, trusted, faults, crashes>>

\* fail(): the phase says error and a new upgrade may be started.
Fail(p) == proc' = [proc EXCEPT ![p] = [@ EXCEPT !.phase = "error", !.upgrade = "off"]]

\* Download and ExtractBinary.
Download(p) ==
  /\ proc[p].upgrade = "download"
  /\ \/ /\ file' = [file EXCEPT !.new = proc[p].tag]
        /\ Goto(p, "upgrade", "mark")
        /\ UNCHANGED faults
     \/ Fault /\ Fail(p) /\ UNCHANGED file
  /\ UNCHANGED <<marker, port, world, trusted, upgrades, crashes>>

WriteMarker(p) ==
  /\ proc[p].upgrade = "mark"
  /\ \/ marker' = TRUE /\ Goto(p, "upgrade", "backup") /\ UNCHANGED faults
     \/ Fault /\ Fail(p) /\ UNCHANGED marker
  /\ UNCHANGED <<file, port, world, trusted, upgrades, crashes>>

\* Swap: the old backup goes, the executable becomes the backup, the new file
\* the executable.
SwapBackup(p) ==
  /\ proc[p].upgrade = "backup"
  /\ \/ /\ file.exe # None
        /\ file' = [file EXCEPT !.bak = file.exe, !.exe = None]
        /\ Goto(p, "upgrade", "stage")
        /\ UNCHANGED faults
     \/ /\ IF file.exe = None THEN UNCHANGED faults ELSE Fault
        /\ file' = [file EXCEPT !.bak = None]
        /\ Fail(p)
  /\ UNCHANGED <<marker, port, world, trusted, upgrades, crashes>>

SwapStage(p) ==
  /\ proc[p].upgrade = "stage"
  /\ \/ /\ file.new # None
        /\ file' = [file EXCEPT !.exe = file.new, !.new = None]
        /\ proc' = [proc EXCEPT ![p] = [@ EXCEPT !.upgrade = "prepare", !.phase = "running:restarting"]]
        /\ UNCHANGED faults
     \/ /\ IF file.new = None THEN UNCHANGED faults ELSE Fault
        /\ Goto(p, "upgrade", "unstage")
        /\ UNCHANGED file
  /\ UNCHANGED <<marker, port, world, trusted, upgrades, crashes>>

\* Mutant: a Swap that cannot stage the new file leaves the old one in .bak.
SwapUnstageForgotten(p) ==
  /\ proc[p].upgrade = "unstage"
  /\ Fail(p)
  /\ UNCHANGED <<file, marker, port, world, trusted, upgrades, faults, crashes>>

SwapUnstage(p) ==
  /\ proc[p].upgrade = "unstage"
  /\ file' = IF file.bak = None THEN file ELSE [file EXCEPT !.exe = file.bak, !.bak = None]
  /\ Fail(p)
  /\ UNCHANGED <<marker, port, world, trusted, upgrades, faults, crashes>>

\* restartPrepare: the listener is released; run() returns, the process lives.
Prepare(p) ==
  /\ proc[p].upgrade = "prepare"
  /\ proc' = [proc EXCEPT ![p] = [@ EXCEPT !.upgrade = "restart", !.main = "stopped"]]
  /\ port' = IF port = p THEN None ELSE port
  /\ UNCHANGED <<file, marker, world, trusted, upgrades, faults, crashes>>

\* exec of the current executable fails when it is missing or not runnable.
Runnable == file.exe # None /\ fate[file.exe] # "exec"

\* Slots are interchangeable: a new process takes the first that is free.
FreeSlot == CHOOSE q \in Slots : ~Alive(q)

\* Process p starts another one and its upgrade goroutine goes on at label.
SpawnBy(p, label) ==
  LET q == FreeSlot IN
  /\ \E r \in Slots : ~Alive(r)
  /\ proc' = [proc EXCEPT ![p] = [@ EXCEPT !.upgrade = label], ![q] = Booting(file.exe)]

\* Under a supervisor the process exits; otherwise RestartAndWatch spawns.
Restart(p) ==
  /\ proc[p].upgrade = "restart"
  /\ IF supervised THEN Exit(p)
     ELSE /\ IF Runnable THEN SpawnBy(p, "watch") ELSE Goto(p, "upgrade", "check")
          /\ UNCHANGED port
  /\ UNCHANGED <<file, marker, world, trusted, upgrades, faults, crashes>>

\* Mutant: the watcher rolls back and exits without starting the old binary.
WatchGivesUp(p) ==
  /\ proc[p].upgrade = "watch"
  /\ IF Healthy THEN Exit(p) ELSE Goto(p, "upgrade", "check") /\ UNCHANGED port
  /\ UNCHANGED <<file, marker, world, trusted, upgrades, faults, crashes>>

Watch(p) ==
  /\ proc[p].upgrade = "watch"
  /\ IF Healthy THEN Exit(p)
     ELSE /\ proc' = [proc EXCEPT ![p] = [@ EXCEPT !.upgrade = "check", !.respawn = TRUE]]
          /\ UNCHANGED port
  /\ UNCHANGED <<file, marker, world, trusted, upgrades, faults, crashes>>

Respawn(p) ==
  /\ proc[p].upgrade = "respawn"
  /\ IF Runnable THEN SpawnBy(p, "watch previous") /\ UNCHANGED port ELSE Exit(p)
  /\ UNCHANGED <<file, marker, world, trusted, upgrades, faults, crashes>>

\* Healthy or not, the watcher exits.
WatchPrevious(p) ==
  /\ proc[p].upgrade = "watch previous"
  /\ Exit(p)
  /\ UNCHANGED <<file, marker, world, trusted, upgrades, faults, crashes>>

UpgradeStep(p) ==
  \/ Download(p) \/ WriteMarker(p)
  \/ SwapBackup(p) \/ SwapStage(p) \/ SwapUnstage(p)
  \/ Prepare(p) \/ Restart(p) \/ Watch(p) \/ Respawn(p) \/ WatchPrevious(p)

-----------------------------------------------------------------------------
(***************************************************************************)
(* The service manager (or, without one, the operator), and power losses.  *)
(***************************************************************************)
ServiceStart ==
  /\ \A p \in Slots : ~Alive(p)
  /\ Runnable
  /\ proc' = [proc EXCEPT ![FreeSlot] = Booting(file.exe)]
  /\ UNCHANGED <<file, marker, port, world, trusted, upgrades, faults, crashes>>

Crash ==
  /\ crashes < MaxCrashes /\ crashes' = crashes + 1
  /\ proc' = [p \in Slots |-> NoProcess]
  /\ port' = None
  /\ UNCHANGED <<file, marker, world, trusted, upgrades, faults>>

Step(p) ==
  MainStep(p) \/ VerifyStep(p) \/ UpgradeStep(p) \/ \E g \in Goroutines : RollbackStep(p, g)

Next ==
  \/ \E p \in Slots : Step(p) \/ \E v \in Versions : StartUpgrade(p, v)
  \/ ServiceStart
  \/ Crash

Safety == Init /\ [][Next]_vars

(***************************************************************************)
(* Every goroutine that can run does, and a service manager restarts the   *)
(* service.  An operator may never come.                                   *)
(***************************************************************************)
Fairness ==
  /\ \A p \in Slots : /\ WF_vars(MainStep(p)) /\ WF_vars(VerifyStep(p)) /\ WF_vars(UpgradeStep(p))
                      /\ \A g \in Goroutines : WF_vars(RollbackStep(p, g))
  /\ WF_vars(supervised /\ ServiceStart)

Spec == Safety /\ Fairness

-----------------------------------------------------------------------------
TypeOK ==
  /\ file \in [exe : Versions \cup {None}, bak : Versions \cup {None},
               new : Versions \cup {None}, failed : Versions \cup {None}]
  /\ marker \in BOOLEAN
  /\ proc \in [Slots -> Process]
  /\ \A p \in Slots : proc[p].ver = None => proc[p] = NoProcess
  /\ port \in Slots \cup {None}
  /\ port # None => proc[port].main = "serving"
  /\ fate \in [Versions -> AllFates]
  /\ trusted \subseteq Versions
  /\ upgrades \in Nat /\ faults \in Nat /\ crashes \in Nat

\* Between the two renames of a Swap or a Rollback the executable is away.
Renaming ==
  \E p \in Slots, g \in Goroutines : proc[p][g] \in {"stage", "unstage", "restore", "unpark"}

\* Without a service manager the watching process and its replacement may roll back
\* at once, and each parks what the other restored: together with a rename that
\* fails, or a power loss, no binary is left in place.
Undisturbed == supervised \/ faults + crashes = 0

\* Whatever goroutines and processes swap, commit and roll back the same files,
\* and whichever of their operations fail, an executable is in place once they
\* are through (Swap and Rollback put back what they moved).  A power loss between
\* two renames is the exception.
ExecutableInPlace == ~Renaming /\ crashes = 0 /\ Undisturbed => file.exe # None

\* A version that has served is always at hand: it is the executable or the
\* backup a roll back would restore (Commit only drops the backup of a
\* replacement that turned out healthy).
GoodVersionKept == ~Renaming /\ Undisturbed => file.exe \in trusted \/ file.bak \in trusted

\* Under a supervisor an upgrade that can serve is never rolled back: what is
\* parked as .failed is a version that could not (verifyUpgrade, rollbackFatal).
OnlyFailuresParked == supervised /\ ~Renaming => file.failed = None \/ fate[file.failed] # "good"

\* The failures somebody acts on: under a service manager those the new process
\* sees itself (rollbackFatal, verifyUpgrade), otherwise those only the watching
\* process sees (RestartAndWatch).
HandledFates ==
  {"good"} \cup IF supervised THEN {"migrate", "sick"} ELSE {"open", "assemble", "stuck"}

\* A healthy process serves in the end and the executable on disk is a version
\* that has served.
EndsServing == <>[](Healthy /\ file.exe \in trusted)

\* When every release either serves or fails in a handled way, and the power stays
\* on, upgrades end with a version that serves, whatever operations failed on the
\* way under a service manager; the watching process alone makes up for none.
Recovers ==
  (\A v \in Versions : fate[v] \in HandledFates) /\ [](crashes = 0 /\ Undisturbed) => EndsServing

\* However the new version fails, the old one is back in the end (the README's
\* "rolls back to the previous binary automatically if the new one fails to start").
RecoversAlways == EndsServing
=============================================================================
