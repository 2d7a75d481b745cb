-------------------------- MODULE SelfUpgradeProofs -------------------------
(***************************************************************************)
(* Proofs about SelfUpgrade, for any releases, number of processes and     *)
(* bounds: its types, and, for administrators who wait for one upgrade to  *)
(* be over, that an executable is in place and a version that served is    *)
(* at hand.                                                                *)
(***************************************************************************)
EXTENDS SelfUpgrade, TLAPS

\* What a process is about: to start, to change the files on behalf of an upgrade, or to
\* watch its replacement and roll back.
Boots == {"open", "migrate", "assemble", "bind"}
Swapping == {"download", "mark", "backup", "stage", "unstage", "prepare", "restart"}
Watching == {"watch", "respawn"} \cup RollbackSteps

Swaps(p) == proc[p].upgrade \in Swapping
Watches(p) == proc[p].upgrade \in Watching
Doing(p, steps) == proc[p].main \in steps \/ proc[p].verify \in steps \/ proc[p].upgrade \in steps
Company(p) == {q \in Slots : Alive(q) /\ q # p}

\* One process by itself: its goroutines take turns, and one that serves has the
\* listener and does not fail to start; one that upgrades has served.
Proper(p) ==
  /\ proc[p].upgrade \in Swapping \ {"restart"} => proc[p].main = "serving"
  /\ proc[p].upgrade \in Watching \cup {"restart", "watch previous"} => proc[p].main = "stopped"
  /\ proc[p].upgrade # "off" => proc[p].verify = "off" /\ proc[p].ver \in trusted
  /\ proc[p].verify # "off" => proc[p].main = "serving"
  /\ proc[p].verify \in {"settle", "drop"} => proc[p].ver \in trusted
  /\ proc[p].main = "serving" =>
       port = p /\ fate[proc[p].ver] \in {"good", "sick"} /\ (fate[proc[p].ver] = "good" => proc[p].ver \in trusted)
  /\ proc[p].main \in Boots => fate[proc[p].ver] # "exec"
  /\ proc[p].main \in {"migrate", "assemble", "bind"} => fate[proc[p].ver] \notin {"open", "stuck"}
  /\ proc[p].main \in {"assemble", "bind"} => fate[proc[p].ver] # "migrate"
  /\ proc[p].main = "bind" => fate[proc[p].ver] # "assemble"

\* Who is alive together.  Under a service manager nobody watches, and who runs is alone;
\* so is who swaps.  Who watches has one replacement, and
\* as long as there is something to roll back all the others are watching.
Alone ==
  /\ supervised => \A p \in Slots : Alive(p) => Company(p) = {} /\ ~Watches(p)
  /\ \A p \in Slots : Swaps(p) => Company(p) = {}
Watched ==
  \A p \in Slots : Watches(p) => \A q, r \in Company(p) : q = r /\ proc[q].upgrade = "off"
OneTrial ==
  marker \/ file.bak # None =>
    \A p, q \in Slots : Alive(p) /\ Alive(q) /\ ~Watches(p) /\ ~Watches(q) => p = q
RolledBack ==
  \A p \in Slots : /\ proc[p].upgrade \in {"unmark", "respawn"} => file.bak = None
                   /\ proc[p].upgrade = "respawn" => ~marker

Inv1 == TypeOK /\ (\A p \in Slots : Proper(p)) /\ Alone /\ Watched /\ OneTrial /\ RolledBack
-----------------------------------------------------------------------------
\* The executable is away while the one process that moved it goes on.
Away(p) == Doing(p, {"restore", "unpark"}) \/ proc[p].upgrade \in {"stage", "unstage"}
Taken ==
  /\ \A p \in Slots : Away(p) => file.exe = None
  /\ \A p, q \in Slots : Away(p) /\ Away(q) => p = q
  /\ file.exe = None /\ crashes = 0 => \E p \in Slots : Away(p)

\* What a roll back would restore has served, and without it the executable has.
Trusty ==
  /\ file.bak # None => file.bak \in trusted
  /\ file.bak = None => \/ file.exe \in trusted
                        \/ ~supervised /\ file.failed \in trusted /\ \E p \in Slots : Away(p)
  /\ \A p \in Slots : proc[p].upgrade \in {"stage", "unstage"} => file.bak # None

\* What a roll back has parked is there to be put back, or else the backup is and nobody
\* can take it away.
Parked ==
  \A p \in Slots :
    /\ Doing(p, {"unpark"}) => file.failed # None /\ (supervised \/ file.bak = None)
    /\ Doing(p, {"restore"}) /\ file.failed = None => ~supervised /\ file.bak # None /\ Company(p) = {}

\* Once the backup is gone, at most one roll back is still to find that out.
Late(p) == Doing(p, {"park", "restore", "unpark"})
OneLate ==
  /\ file.bak = None => \A p, q \in Slots : Late(p) /\ Late(q) => p = q
  /\ supervised => \A p \in Slots : Late(p) => file.bak # None

\* While there is a backup the release on trial is the executable, or has been parked.
Trial(p) == proc[p].main \in Boots \/ proc[p].verify \in {"wait", "settle", "drop"}
OnTrial ==
  file.bak # None => \A p \in Slots : Trial(p) =>
    \/ file.exe = proc[p].ver
    \/ file.failed = proc[p].ver /\ \E q \in Slots : Away(q)

\* Before its Swap the upgrading process is what the executable is.
Ready == \A p \in Slots : proc[p].upgrade \in {"download", "mark", "backup"} => file.exe = proc[p].ver

Files == Taken /\ Trusty /\ Parked /\ OneLate /\ OnTrial /\ Ready
Inv2 == Undisturbed => Files
-----------------------------------------------------------------------------
(***************************************************************************)
(* Types, and what a step does to the processes.                           *)
(***************************************************************************)

Others(p) == \A q \in Slots \ {p} : proc'[q] = proc[q]

\* The goroutine g of process p goes to label, and nothing else happens to a process.
Moves(p, g, label) ==
  /\ Others(p)
  /\ proc'[p].ver = proc[p].ver /\ proc'[p].phase = proc[p].phase
  /\ proc'[p].tag = proc[p].tag /\ proc'[p].respawn = proc[p].respawn
  /\ proc'[p].main = IF g = "main" THEN label ELSE proc[p].main
  /\ proc'[p].verify = IF g = "verify" THEN label ELSE proc[p].verify
  /\ proc'[p].upgrade = IF g = "upgrade" THEN label ELSE proc[p].upgrade

Ends(p) == Others(p) /\ proc'[p] = NoProcess

Labels(g) ==
  RollbackSteps \cup
    IF g = "main" THEN {"off", "open", "migrate", "assemble", "bind", "serving", "stopped"}
    ELSE IF g = "verify" THEN {"off", "wait", "settle", "drop"}
    ELSE {"off", "download", "mark", "backup", "stage", "unstage", "prepare", "restart", "watch",
          "respawn", "watch previous"}

Procs ==
  /\ proc \in [Slots -> Process]
  /\ \A p \in Slots : proc[p].ver = None => proc[p] = NoProcess
  /\ port \in Slots \cup {None}
  /\ port # None => proc[port].main = "serving"
Rest ==
  /\ file \in [exe : Versions \cup {None}, bak : Versions \cup {None},
               new : Versions \cup {None}, failed : Versions \cup {None}]
  /\ marker \in BOOLEAN
  /\ fate \in [Versions -> AllFates]
  /\ trusted \subseteq Versions
  /\ upgrades \in Nat /\ faults \in Nat /\ crashes \in Nat

LEMMA TypeParts == TypeOK <=> Procs /\ Rest
BY DEF TypeOK, Procs, Rest

LEMMA NextParts == Procs' /\ Rest' => TypeOK'
BY DEF TypeOK, Procs, Rest

LEMMA NothingThere ==
  /\ NoProcess \in Process
  /\ NoProcess.ver = None /\ NoProcess.main = "off" /\ NoProcess.verify = "off" /\ NoProcess.upgrade = "off"
BY DEF NoProcess, Process, None

\* A process of which a goroutine runs is alive.
LEMMA Busy ==
  ASSUME Procs, NEW p \in Slots,
         proc[p].main # "off" \/ proc[p].verify # "off" \/ proc[p].upgrade # "off"
  PROVE  Alive(p) /\ proc[p] \in Process /\ proc[p].ver \in Versions
BY NothingThere DEF Procs, Alive, Process

LEMMA GotoMoves ==
  ASSUME Procs, NEW p \in Slots, NEW g \in Goroutines, NEW label \in Labels(g), Goto(p, g, label)
  PROVE  Moves(p, g, label) /\ proc' \in [Slots -> Process]
<1>1. proc[p] \in Process /\ proc \in [Slots -> Process]
  BY DEF Procs
<1>2. CASE g = "main"
  <2>1. Goto(p, "main", label) /\ label \in Labels("main")
    BY <1>2
  <2>2. [proc[p] EXCEPT !.main = label] \in Process
    BY <1>1, <2>1 DEF Process, Labels
  <2>3. proc' = [proc EXCEPT ![p] = [proc[p] EXCEPT !.main = label]]
    BY <2>1 DEF Goto
  <2>4. Moves(p, "main", label)
    BY <1>1, <2>3 DEF Moves, Others, Process
  <2> QED
    BY <1>1, <1>2, <2>2, <2>3, <2>4
<1>3. CASE g = "verify"
  <2>1. Goto(p, "verify", label) /\ label \in Labels("verify")
    BY <1>3
  <2>2. [proc[p] EXCEPT !.verify = label] \in Process
    BY <1>1, <2>1 DEF Process, Labels
  <2>3. proc' = [proc EXCEPT ![p] = [proc[p] EXCEPT !.verify = label]]
    BY <2>1 DEF Goto
  <2>4. Moves(p, "verify", label)
    BY <1>1, <2>3 DEF Moves, Others, Process
  <2> QED
    BY <1>1, <1>3, <2>2, <2>3, <2>4
<1>4. CASE g = "upgrade"
  <2>1. Goto(p, "upgrade", label) /\ label \in Labels("upgrade")
    BY <1>4
  <2>2. [proc[p] EXCEPT !.upgrade = label] \in Process
    BY <1>1, <2>1 DEF Process, Labels
  <2>3. proc' = [proc EXCEPT ![p] = [proc[p] EXCEPT !.upgrade = label]]
    BY <2>1 DEF Goto
  <2>4. Moves(p, "upgrade", label)
    BY <1>1, <2>3 DEF Moves, Others, Process
  <2> QED
    BY <1>1, <1>4, <2>2, <2>3, <2>4
<1> QED
  BY <1>2, <1>3, <1>4 DEF Goroutines

\* A goroutine other than a serving main moves, and the listener stays.
LEMMA GotoTyped ==
  ASSUME Procs, NEW p \in Slots, NEW g \in Goroutines, NEW label \in Labels(g), Goto(p, g, label),
         Alive(p), g = "main" => proc[p].main # "serving", port' = port
  PROVE  Procs' /\ Moves(p, g, label)
<1>1. Moves(p, g, label) /\ proc' \in [Slots -> Process]
  BY GotoMoves
<1>2. \A q \in Slots : proc'[q].ver = None => proc'[q] = NoProcess
  BY <1>1 DEF Moves, Others, Procs, Alive
<1>3. port' # None => proc'[port'].main = "serving"
  BY <1>1 DEF Moves, Others, Procs
<1> QED
  BY <1>1, <1>2, <1>3 DEF Procs

LEMMA ExitTyped ==
  ASSUME Procs, NEW p \in Slots, Exit(p), UpgradeAssumption
  PROVE  Procs' /\ Ends(p) /\ port' = IF port = p THEN None ELSE port
<1>1. proc' = [proc EXCEPT ![p] = NoProcess] /\ port' = IF port = p THEN None ELSE port
  BY DEF Exit
<1>2. proc' \in [Slots -> Process] /\ Ends(p)
  BY <1>1, NothingThere DEF Procs, Ends, Others
<1>3. \A q \in Slots : proc'[q].ver = None => proc'[q] = NoProcess
  BY <1>2 DEF Ends, Others, Procs
<1>4. port' # None => proc'[port'].main = "serving"
  BY <1>1, <1>2 DEF Ends, Others, Procs
<1> QED
  BY <1>1, <1>2, <1>3, <1>4 DEF Procs

\* Any other change of one process.
LEMMA SetTyped ==
  ASSUME Procs, NEW p \in Slots, NEW P \in Process, proc' = [proc EXCEPT ![p] = P], P.ver # None,
         \/ port' = port /\ (port = p => P.main = "serving")
         \/ port' = p /\ P.main = "serving"
         \/ port' = None
  PROVE  Procs' /\ Others(p) /\ proc'[p] = P
<1>1. proc' \in [Slots -> Process] /\ Others(p) /\ proc'[p] = P
  BY DEF Procs, Others
<1>2. \A q \in Slots : proc'[q].ver = None => proc'[q] = NoProcess
  BY <1>1 DEF Others, Procs
<1>3. port' # None => proc'[port'].main = "serving"
  BY <1>1 DEF Others, Procs
<1> QED
  BY <1>1, <1>2, <1>3 DEF Procs
-----------------------------------------------------------------------------
(***************************************************************************)
(* What each action does.                                                  *)
(***************************************************************************)

PortLeft(p) == port' = IF port = p THEN None ELSE port
Still == UNCHANGED <<file, marker, world, trusted, upgrades, faults, crashes>>
Dies(p) == Ends(p) /\ PortLeft(p)
Goes(p, g, label) == Moves(p, g, label) /\ port' = port

LEMMA StillTyped ==
  ASSUME TypeOK, Procs', Still
  PROVE  TypeOK'
BY TypeParts DEF TypeOK, Procs, Rest, Still, world

LEMMA ExitDies ==
  ASSUME TypeOK, NEW p \in Slots, Exit(p)
  PROVE  Procs' /\ Dies(p)
BY TypeParts, ExitTyped, UpgradeAssumption DEF Dies, PortLeft

LEMMA GotoGoes ==
  ASSUME TypeOK, NEW p \in Slots, NEW g \in Goroutines, NEW label \in Labels(g), Goto(p, g, label),
         Alive(p), g = "main" => proc[p].main # "serving", port' = port
  PROVE  Procs' /\ Goes(p, g, label)
BY TypeParts, GotoTyped DEF Goes

LEMMA DieEffect ==
  ASSUME TypeOK, NEW p \in Slots, NEW g \in {"main", "verify"}, DieRollingBack(p, g), Alive(p),
         g = "main" => proc[p].main # "serving"
  PROVE  Procs' /\ (Dies(p) \/ (marker /\ Goes(p, g, "check")))
<1>1. CASE marker /\ Goto(p, g, "check") /\ port' = port
  BY <1>1, GotoGoes DEF Goroutines, Labels, RollbackSteps
<1>2. CASE Exit(p)
  BY <1>2, ExitDies
<1> QED
  BY <1>1, <1>2 DEF DieRollingBack

LEMMA BootAlive ==
  ASSUME TypeOK, NEW p \in Slots, proc[p].main # "off"
  PROVE  Alive(p) /\ proc[p].ver \in Versions
BY TypeParts, Busy

LEMMA OpenEffect ==
  ASSUME TypeOK, NEW p \in Slots, OpenDatabase(p)
  PROVE  /\ TypeOK' /\ Still /\ proc[p].main = "open" /\ fate[proc[p].ver] # "stuck"
         /\ Dies(p) \/ (Goes(p, "main", "migrate") /\ fate[proc[p].ver] # "open")
<1>1. /\ Still /\ proc[p].main = "open" /\ fate[proc[p].ver] # "stuck"
      /\ Exit(p) \/ (Goto(p, "main", "migrate") /\ port' = port /\ fate[proc[p].ver] # "open")
  BY DEF OpenDatabase, Still, world
<1>2. "migrate" \in Labels("main") /\ "main" \in Goroutines
  BY DEF Labels, Goroutines
<1>3. Procs' /\ (Dies(p) \/ (Goes(p, "main", "migrate") /\ fate[proc[p].ver] # "open"))
  BY <1>1, <1>2, ExitDies, GotoGoes, BootAlive
<1> QED
  BY <1>1, <1>3, StillTyped

LEMMA MigrateEffect ==
  ASSUME TypeOK, NEW p \in Slots, Migrate(p)
  PROVE  /\ TypeOK' /\ Still /\ proc[p].main = "migrate"
         /\ \/ Dies(p)
            \/ marker /\ Goes(p, "main", "check")
            \/ Goes(p, "main", "assemble") /\ fate[proc[p].ver] # "migrate"
<1>1. /\ Still /\ proc[p].main = "migrate"
      /\ \/ DieRollingBack(p, "main")
         \/ Goto(p, "main", "assemble") /\ port' = port /\ fate[proc[p].ver] # "migrate"
  BY DEF Migrate, Still, world
<1>2. "assemble" \in Labels("main") /\ "main" \in Goroutines
  BY DEF Labels, Goroutines
<1>3. Procs' /\ (\/ Dies(p)
                 \/ marker /\ Goes(p, "main", "check")
                 \/ Goes(p, "main", "assemble") /\ fate[proc[p].ver] # "migrate")
  BY <1>1, <1>2, DieEffect, GotoGoes, BootAlive
<1> QED
  BY <1>1, <1>3, StillTyped

LEMMA AssembleEffect ==
  ASSUME TypeOK, NEW p \in Slots, Assemble(p)
  PROVE  /\ TypeOK' /\ Still /\ proc[p].main = "assemble"
         /\ Dies(p) \/ (Goes(p, "main", "bind") /\ fate[proc[p].ver] # "assemble")
<1>1. /\ Still /\ proc[p].main = "assemble"
      /\ Exit(p) \/ (Goto(p, "main", "bind") /\ port' = port /\ fate[proc[p].ver] # "assemble")
  BY DEF Assemble, Still, world
<1>2. "bind" \in Labels("main") /\ "main" \in Goroutines
  BY DEF Labels, Goroutines
<1>3. Procs' /\ (Dies(p) \/ (Goes(p, "main", "bind") /\ fate[proc[p].ver] # "assemble"))
  BY <1>1, <1>2, ExitDies, GotoGoes, BootAlive
<1> QED
  BY <1>1, <1>3, StillTyped

\* A process that listens: if its release does, it has served now.
Serves(p) ==
  /\ Others(p)
  /\ proc'[p] \in Process
  /\ proc'[p].ver = proc[p].ver /\ proc'[p].main = "serving" /\ proc'[p].upgrade = proc[p].upgrade
  /\ proc'[p].verify = IF marker THEN "wait" ELSE "off"
  /\ port = None /\ port' = p
  /\ trusted' = IF fate[proc[p].ver] = "good" THEN trusted \cup {proc[p].ver} ELSE trusted

LEMMA BindEffect ==
  ASSUME TypeOK, NEW p \in Slots, Bind(p)
  PROVE  /\ TypeOK' /\ proc[p].main = "bind"
         /\ UNCHANGED <<file, marker, world, upgrades, faults, crashes>>
         /\ \/ Serves(p)
            \/ trusted' = trusted /\ port # None /\ (Dies(p) \/ (marker /\ Goes(p, "main", "check")))
<1>1. proc[p].main = "bind" /\ UNCHANGED <<file, marker, world, upgrades, faults, crashes>>
  BY DEF Bind
<1>2. Alive(p) /\ proc[p].ver \in Versions /\ proc[p] \in Process /\ proc[p].ver # None
  BY <1>1, BootAlive, TypeParts DEF Procs, Alive
<1>3. CASE /\ port = None /\ port' = p
           /\ proc' = [proc EXCEPT ![p] = [@ EXCEPT !.main = "serving",
                                                    !.verify = IF marker THEN "wait" ELSE "off"]]
           /\ trusted' = IF fate[proc[p].ver] = "good" THEN trusted \cup {proc[p].ver} ELSE trusted
  <2> DEFINE P == [proc[p] EXCEPT !.main = "serving", !.verify = IF marker THEN "wait" ELSE "off"]
  <2>1. /\ P \in Process /\ P.main = "serving" /\ P.ver = proc[p].ver /\ P.upgrade = proc[p].upgrade
        /\ P.verify = IF marker THEN "wait" ELSE "off"
    BY <1>2 DEF Process
  <2>2. proc' = [proc EXCEPT ![p] = P]
    BY <1>3
  <2> HIDE DEF P
  <2>3. Procs' /\ Others(p) /\ proc'[p] = P
    BY <1>2, <1>3, <2>1, <2>2, SetTyped, TypeParts
  <2>4. Serves(p)
    BY <1>3, <2>1, <2>3 DEF Serves
  <2>5. Rest'
    BY <1>1, <1>2, <1>3, TypeParts DEF Rest, world
  <2> QED
    BY <1>1, <2>3, <2>4, <2>5, TypeParts DEF TypeOK, Procs, Rest
<1>4. CASE port # None /\ DieRollingBack(p, "main") /\ trusted' = trusted
  <2>1. Procs' /\ (Dies(p) \/ (marker /\ Goes(p, "main", "check")))
    BY <1>1, <1>2, <1>4, DieEffect
  <2>2. Still
    BY <1>1, <1>4 DEF Still, world
  <2> QED
    BY <1>1, <1>4, <2>1, <2>2, StillTyped
<1> QED
  BY <1>3, <1>4 DEF Bind

LEMMA HealthEffect ==
  ASSUME TypeOK, NEW p \in Slots, VerifyHealth(p)
  PROVE  /\ TypeOK' /\ Still /\ proc[p].verify = "wait"
         /\ \/ Healthy /\ Goes(p, "verify", "settle")
            \/ marker /\ Goes(p, "verify", "check")
            \/ Dies(p)
<1>1. /\ Still /\ proc[p].verify = "wait"
      /\ \/ Healthy /\ Goto(p, "verify", "settle") /\ port' = port
         \/ DieRollingBack(p, "verify")
  BY DEF VerifyHealth, Still, world
<1>2. "settle" \in Labels("verify") /\ "verify" \in Goroutines /\ Alive(p)
  BY <1>1, Busy, TypeParts DEF Labels, Goroutines
<1>3. Procs' /\ (\/ Healthy /\ Goes(p, "verify", "settle")
                 \/ marker /\ Goes(p, "verify", "check")
                 \/ Dies(p))
  BY <1>1, <1>2, DieEffect, GotoGoes
<1> QED
  BY <1>1, <1>3, StillTyped

LEMMA MarkerEffect ==
  ASSUME TypeOK, NEW p \in Slots, CommitMarker(p)
  PROVE  /\ TypeOK' /\ proc[p].verify = "settle"
         /\ UNCHANGED <<file, world, trusted, upgrades, crashes>>
         /\ \/ Goes(p, "verify", "drop") /\ ~marker' /\ faults' = faults
            \/ Goes(p, "verify", "off") /\ marker' = marker /\ faults' = faults + 1
<1>1. /\ proc[p].verify = "settle" /\ port' = port
      /\ UNCHANGED <<file, world, trusted, upgrades, crashes>>
      /\ \/ Goto(p, "verify", "drop") /\ marker' = FALSE /\ faults' = faults
         \/ Goto(p, "verify", "off") /\ marker' = marker /\ faults' = faults + 1
  BY DEF CommitMarker, Fault
<1>2. {"drop", "off"} \subseteq Labels("verify") /\ "verify" \in Goroutines /\ Alive(p)
  BY <1>1, Busy, TypeParts DEF Labels, Goroutines
<1>3. Procs' /\ (\/ Goes(p, "verify", "drop") /\ ~marker' /\ faults' = faults
                 \/ Goes(p, "verify", "off") /\ marker' = marker /\ faults' = faults + 1)
  BY <1>1, <1>2, GotoGoes
<1>4. marker' \in BOOLEAN /\ faults' \in Nat
  <2>1. marker \in BOOLEAN /\ faults \in Nat /\ faults + 1 \in Nat
    BY TypeParts DEF Rest
  <2> QED
    BY <1>1, <2>1, Zenon
<1>5. Rest'
  BY <1>1, <1>4, TypeParts DEF Rest, world
<1> QED
  BY <1>1, <1>3, <1>5, NextParts

LEMMA DropEffect ==
  ASSUME TypeOK, NEW p \in Slots, CommitBackup(p)
  PROVE  /\ TypeOK' /\ proc[p].verify = "drop" /\ Goes(p, "verify", "off")
         /\ UNCHANGED <<marker, world, trusted, upgrades, crashes>>
         /\ file'.exe = file.exe /\ file'.failed = file.failed
         /\ \/ file'.bak = None /\ faults' = faults
            \/ file'.bak = file.bak /\ faults' = faults + 1
<1>1. /\ proc[p].verify = "drop" /\ Goto(p, "verify", "off") /\ port' = port
      /\ UNCHANGED <<marker, world, trusted, upgrades, crashes>>
      /\ \/ file' = [file EXCEPT !.bak = None] /\ faults' = faults
         \/ file' = file /\ faults' = faults + 1
  BY DEF CommitBackup, Fault
<1>2. "off" \in Labels("verify") /\ "verify" \in Goroutines /\ Alive(p)
  BY <1>1, Busy, TypeParts DEF Labels, Goroutines
<1>3. Procs' /\ Goes(p, "verify", "off")
  BY <1>1, <1>2, GotoGoes
<1>4. /\ file'.exe = file.exe /\ file'.failed = file.failed
      /\ \/ file'.bak = None /\ faults' = faults
         \/ file'.bak = file.bak /\ faults' = faults + 1
  BY <1>1, TypeParts DEF Rest
<1>5. Rest'
  BY <1>1, TypeParts DEF Rest, world
<1> QED
  BY <1>1, <1>3, <1>4, <1>5, NextParts
-----------------------------------------------------------------------------
\* Where a goroutine is, by its name.
At(p, g, label) ==
  \/ g = "main" /\ proc[p].main = label
  \/ g = "verify" /\ proc[p].verify = label
  \/ g = "upgrade" /\ proc[p].upgrade = label

LEMMA WhoIsAt ==
  ASSUME Procs, NEW p \in Slots, NEW g \in Goroutines, NEW label \in RollbackSteps, proc[p][g] = label
  PROVE  At(p, g, label) /\ Alive(p) /\ (g = "main" => proc[p].main # "serving")
<1>1. At(p, g, label)
  BY DEF At, Goroutines, Procs, Process
<1> QED
  BY <1>1, Busy DEF At, RollbackSteps

LEMMA StepLabels == \A g \in Goroutines : RollbackSteps \subseteq Labels(g)
BY DEF Labels

LEMMA CheckEffect ==
  ASSUME TypeOK, NEW p \in Slots, NEW g \in Goroutines, RollbackCheck(p, g)
  PROVE  /\ TypeOK' /\ Still /\ At(p, g, "check")
         /\ Dies(p) \/ (file.bak # None /\ Goes(p, g, "park"))
<1>1. /\ proc[p][g] = "check" /\ Still
      /\ Exit(p) \/ (file.bak # None /\ Goto(p, g, "park") /\ port' = port)
  BY DEF RollbackCheck, RollbackFailed, Still, world
<1>2. At(p, g, "check") /\ Alive(p) /\ (g = "main" => proc[p].main # "serving") /\ "park" \in Labels(g)
  BY <1>1, WhoIsAt, TypeParts, StepLabels DEF RollbackSteps
<1>3. Procs' /\ (Dies(p) \/ (file.bak # None /\ Goes(p, g, "park")))
  BY <1>1, <1>2, ExitDies, GotoGoes
<1> QED
  BY <1>1, <1>2, <1>3, StillTyped

LEMMA ParkEffect ==
  ASSUME TypeOK, NEW p \in Slots, NEW g \in Goroutines, RollbackPark(p, g)
  PROVE  /\ TypeOK' /\ At(p, g, "park")
         /\ UNCHANGED <<marker, world, trusted, upgrades, crashes>>
         /\ file'.bak = file.bak
         /\ \/ /\ file.exe # None /\ file'.failed = file.exe /\ file'.exe = None
               /\ Goes(p, g, "restore") /\ faults' = faults
            \/ /\ file'.exe = file.exe /\ file'.failed = None /\ Dies(p)
               /\ (file.exe = None /\ faults' = faults) \/ faults' = faults + 1
<1>1. /\ proc[p][g] = "park"
      /\ UNCHANGED <<marker, world, trusted, upgrades, crashes>>
      /\ \/ /\ file.exe # None /\ file' = [file EXCEPT !.failed = file.exe, !.exe = None]
            /\ Goto(p, g, "restore") /\ port' = port /\ faults' = faults
         \/ /\ file' = [file EXCEPT !.failed = None] /\ Exit(p)
            /\ (file.exe = None /\ faults' = faults) \/ faults' = faults + 1
  BY DEF RollbackPark, RollbackFailed, Fault
<1>2. At(p, g, "park") /\ Alive(p) /\ (g = "main" => proc[p].main # "serving") /\ "restore" \in Labels(g)
  BY <1>1, WhoIsAt, TypeParts, StepLabels DEF RollbackSteps
<1>3. CASE /\ file.exe # None /\ file' = [file EXCEPT !.failed = file.exe, !.exe = None]
           /\ Goto(p, g, "restore") /\ port' = port /\ faults' = faults
  <2>1. Procs' /\ Goes(p, g, "restore")
    BY <1>2, <1>3, GotoGoes
  <2>2. file'.bak = file.bak /\ file'.failed = file.exe /\ file'.exe = None
    BY <1>3, TypeParts DEF Rest
  <2>3. Rest'
    BY <1>1, <1>3, TypeParts DEF Rest, world
  <2> QED
    BY <1>1, <1>2, <1>3, <2>1, <2>2, <2>3, NextParts
<1>4. CASE /\ file' = [file EXCEPT !.failed = None] /\ Exit(p)
           /\ (file.exe = None /\ faults' = faults) \/ faults' = faults + 1
  <2>1. Procs' /\ Dies(p)
    BY <1>4, ExitDies
  <2>2. file'.bak = file.bak /\ file'.failed = None /\ file'.exe = file.exe
    BY <1>4, TypeParts DEF Rest
  <2>3. Rest'
    BY <1>1, <1>4, TypeParts DEF Rest, world
  <2> QED
    BY <1>1, <1>2, <1>4, <2>1, <2>2, <2>3, NextParts
<1> QED
  BY <1>1, <1>3, <1>4

LEMMA RestoreEffect ==
  ASSUME TypeOK, NEW p \in Slots, NEW g \in Goroutines, RollbackRestore(p, g)
  PROVE  /\ TypeOK' /\ At(p, g, "restore")
         /\ UNCHANGED <<marker, world, trusted, upgrades, crashes>>
         /\ file'.failed = file.failed
         /\ \/ /\ file.bak # None /\ file'.exe = file.bak /\ file'.bak = None
               /\ Goes(p, g, "unmark") /\ faults' = faults
            \/ /\ file'.exe = file.exe /\ file'.bak = file.bak /\ Goes(p, g, "unpark")
               /\ (file.bak = None /\ faults' = faults) \/ faults' = faults + 1
<1>1. /\ proc[p][g] = "restore" /\ port' = port
      /\ UNCHANGED <<marker, world, trusted, upgrades, crashes>>
      /\ \/ /\ file.bak # None /\ file' = [file EXCEPT !.exe = file.bak, !.bak = None]
            /\ Goto(p, g, "unmark") /\ faults' = faults
         \/ /\ file' = file /\ Goto(p, g, "unpark")
            /\ (file.bak = None /\ faults' = faults) \/ faults' = faults + 1
  BY DEF RollbackRestore, Fault
<1>2. At(p, g, "restore") /\ Alive(p) /\ (g = "main" => proc[p].main # "serving")
  BY <1>1, WhoIsAt, TypeParts DEF RollbackSteps
<1>3. "unmark" \in Labels(g) /\ "unpark" \in Labels(g)
  BY StepLabels DEF RollbackSteps
<1>4. CASE /\ file.bak # None /\ file' = [file EXCEPT !.exe = file.bak, !.bak = None]
           /\ Goto(p, g, "unmark") /\ faults' = faults
  <2>1. Procs' /\ Goes(p, g, "unmark")
    BY <1>1, <1>2, <1>3, <1>4, GotoGoes
  <2>2. file'.bak = None /\ file'.failed = file.failed /\ file'.exe = file.bak
    BY <1>4, TypeParts DEF Rest
  <2>3. Rest'
    BY <1>1, <1>4, TypeParts DEF Rest, world
  <2> QED
    BY <1>1, <1>2, <1>4, <2>1, <2>2, <2>3, NextParts
<1>5. CASE /\ file' = file /\ Goto(p, g, "unpark")
           /\ (file.bak = None /\ faults' = faults) \/ faults' = faults + 1
  <2>1. Procs' /\ Goes(p, g, "unpark")
    BY <1>1, <1>2, <1>3, <1>5, GotoGoes
  <2>2. Rest'
    BY <1>1, <1>5, TypeParts DEF Rest, world
  <2> QED
    BY <1>1, <1>2, <1>5, <2>1, <2>2, NextParts
<1> QED
  BY <1>1, <1>4, <1>5

LEMMA UnparkEffect ==
  ASSUME TypeOK, NEW p \in Slots, NEW g \in Goroutines, RollbackUnpark(p, g)
  PROVE  /\ TypeOK' /\ At(p, g, "unpark") /\ Dies(p)
         /\ UNCHANGED <<marker, world, trusted, upgrades, faults, crashes>>
         /\ file'.bak = file.bak
         /\ file.failed # None => file'.exe = file.failed /\ file'.failed = None
<1>1. /\ proc[p][g] = "unpark" /\ Exit(p)
      /\ UNCHANGED <<marker, world, trusted, upgrades, faults, crashes>>
      /\ file' = IF file.failed = None THEN file ELSE [file EXCEPT !.exe = file.failed, !.failed = None]
  BY DEF RollbackUnpark, RollbackFailed
<1>2. At(p, g, "unpark")
  BY <1>1, WhoIsAt, TypeParts DEF RollbackSteps
<1>3. Procs' /\ Dies(p)
  BY <1>1, ExitDies
<1>4. /\ file'.bak = file.bak
      /\ file.failed # None => file'.exe = file.failed /\ file'.failed = None
  BY <1>1, TypeParts DEF Rest
<1>5. Rest'
  BY <1>1, TypeParts DEF Rest, world
<1> QED
  BY <1>1, <1>2, <1>3, <1>4, <1>5, NextParts

LEMMA UnmarkEffect ==
  ASSUME TypeOK, NEW p \in Slots, NEW g \in Goroutines, RollbackUnmark(p, g)
  PROVE  /\ TypeOK' /\ At(p, g, "unmark") /\ ~marker'
         /\ UNCHANGED <<file, world, trusted, upgrades, faults, crashes>>
         /\ Dies(p) \/ (g = "upgrade" /\ Goes(p, "upgrade", "respawn"))
<1>1. /\ proc[p][g] = "unmark" /\ marker' = FALSE
      /\ UNCHANGED <<file, world, trusted, upgrades, faults, crashes>>
      /\ Exit(p) \/ (g = "upgrade" /\ Goto(p, "upgrade", "respawn") /\ port' = port)
  BY DEF RollbackUnmark, RollbackDone
<1>2. At(p, g, "unmark") /\ Alive(p)
  BY <1>1, WhoIsAt, TypeParts DEF RollbackSteps
<1>3. "respawn" \in Labels("upgrade") /\ "upgrade" \in Goroutines
  BY DEF Labels, Goroutines
<1>4. Procs' /\ (Dies(p) \/ (g = "upgrade" /\ Goes(p, "upgrade", "respawn")))
  BY <1>1, <1>2, <1>3, ExitDies, GotoGoes
<1>5. Rest'
  BY <1>1, TypeParts DEF Rest, world
<1> QED
  BY <1>1, <1>2, <1>4, <1>5, NextParts
-----------------------------------------------------------------------------
\* The upgrade goroutine of p goes to label; its phase and tag do not matter below.
Upgrades(p, label) ==
  /\ Others(p)
  /\ proc'[p].ver = proc[p].ver /\ proc'[p].main = proc[p].main /\ proc'[p].verify = proc[p].verify
  /\ proc'[p].upgrade = label

LEMMA UpgradeAlive ==
  ASSUME TypeOK, NEW p \in Slots, proc[p].upgrade # "off"
  PROVE  Alive(p) /\ proc[p] \in Process /\ proc[p].ver \in Versions /\ proc[p].ver # None
BY TypeParts, Busy DEF Alive

LEMMA GotoUpgrades ==
  ASSUME TypeOK, NEW p \in Slots, NEW label \in Labels("upgrade"), Goto(p, "upgrade", label),
         Alive(p), port' = port
  PROVE  Procs' /\ Upgrades(p, label)
BY GotoGoes DEF Goes, Moves, Upgrades, Goroutines

\* A step of the upgrade goroutine that also says how the upgrade stands.
LEMMA PhaseUpgrades ==
  ASSUME TypeOK, NEW p \in Slots, Alive(p), port' = port, NEW label \in Labels("upgrade"),
         NEW phase \in {"idle", "running:download", "running:restarting", "error"},
         proc' = [proc EXCEPT ![p] = [@ EXCEPT !.phase = phase, !.upgrade = label]]
  PROVE  Procs' /\ Upgrades(p, label)
<1> DEFINE P == [proc[p] EXCEPT !.phase = phase, !.upgrade = label]
<1>1. proc[p] \in Process
  BY TypeParts DEF Procs
<1>2. P \in Process /\ P.ver = proc[p].ver /\ P.main = proc[p].main /\ P.verify = proc[p].verify /\ P.upgrade = label
  BY <1>1 DEF Process, Labels
<1>3. proc' = [proc EXCEPT ![p] = P]
  OBVIOUS
<1> HIDE DEF P
<1>4. P.ver # None /\ (port = p => P.main = "serving")
  BY <1>2, TypeParts, UpgradeAssumption DEF Alive, Procs, UpgradeAssumption
<1>5. Procs' /\ Others(p) /\ proc'[p] = P
  BY <1>2, <1>3, <1>4, SetTyped, TypeParts
<1> QED
  BY <1>2, <1>5 DEF Upgrades

LEMMA StartEffect ==
  ASSUME TypeOK, NEW p \in Slots, NEW v \in Versions, StartUpgrade(p, v)
  PROVE  /\ TypeOK' /\ UNCHANGED <<file, marker, port, world, trusted, faults, crashes>>
         /\ Upgrades(p, "download") /\ proc[p].main = "serving" /\ fate[proc[p].ver] = "good"
         /\ file.exe = proc[p].ver
         /\ Patient => proc[p].verify = "off" /\ Company(p) = {}
<1>1. /\ proc[p].main = "serving" /\ fate[proc[p].ver] = "good" /\ file.exe = proc[p].ver
      /\ Patient => proc[p].verify = "off" /\ \A q \in Slots : Alive(q) => q = p
      /\ upgrades' = upgrades + 1
      /\ proc' = [proc EXCEPT ![p] = [@ EXCEPT !.phase = "running:download", !.tag = v, !.upgrade = "download"]]
      /\ UNCHANGED <<file, marker, port, world, trusted, faults, crashes>>
  BY DEF StartUpgrade
<1> DEFINE P == [proc[p] EXCEPT !.phase = "running:download", !.tag = v, !.upgrade = "download"]
<1>2. proc[p] \in Process /\ Alive(p)
  BY <1>1, TypeParts, BootAlive DEF Procs
<1>3. /\ P \in Process /\ P.ver = proc[p].ver /\ P.main = proc[p].main /\ P.verify = proc[p].verify
      /\ P.upgrade = "download"
  BY <1>2 DEF Process
<1>4. proc' = [proc EXCEPT ![p] = P]
  BY <1>1
<1> HIDE DEF P
<1>5. P.ver # None /\ port' = port /\ P.main = "serving"
  BY <1>1, <1>2, <1>3 DEF Alive
<1>10. Procs' /\ Others(p) /\ proc'[p] = P
  BY <1>3, <1>4, <1>5, SetTyped, TypeParts
<1>6. Upgrades(p, "download")
  BY <1>3, <1>10 DEF Upgrades
<1>7. Rest'
  BY <1>1, TypeParts DEF Rest, world
<1>8. Patient => proc[p].verify = "off" /\ Company(p) = {}
  BY <1>1 DEF Company
<1> QED
  BY <1>1, <1>10, <1>6, <1>7, <1>8, NextParts

LEMMA FailUpgrades ==
  ASSUME TypeOK, NEW p \in Slots, Alive(p), port' = port, Fail(p)
  PROVE  Procs' /\ Upgrades(p, "off")
BY PhaseUpgrades DEF Fail, Labels

LEMMA DownloadEffect ==
  ASSUME TypeOK, NEW p \in Slots, Download(p)
  PROVE  /\ TypeOK' /\ proc[p].upgrade = "download"
         /\ UNCHANGED <<marker, port, world, trusted, upgrades, crashes>>
         /\ file'.exe = file.exe /\ file'.bak = file.bak /\ file'.failed = file.failed
         /\ \/ Upgrades(p, "mark") /\ faults' = faults
            \/ Upgrades(p, "off") /\ faults' = faults + 1
<1>1. /\ proc[p].upgrade = "download"
      /\ UNCHANGED <<marker, port, world, trusted, upgrades, crashes>>
      /\ \/ file' = [file EXCEPT !.new = proc[p].tag] /\ Goto(p, "upgrade", "mark") /\ faults' = faults
         \/ file' = file /\ Fail(p) /\ faults' = faults + 1
  BY DEF Download, Fault
<1>2. Alive(p) /\ proc[p].tag \in Versions \cup {None} /\ "mark" \in Labels("upgrade")
  BY <1>1, UpgradeAlive DEF Process, Labels
<1>3. Procs' /\ (\/ Upgrades(p, "mark") /\ faults' = faults
                 \/ Upgrades(p, "off") /\ faults' = faults + 1)
  BY <1>1, <1>2, GotoUpgrades, FailUpgrades
<1>4. file'.exe = file.exe /\ file'.bak = file.bak /\ file'.failed = file.failed
  BY <1>1, TypeParts DEF Rest
<1>5. Rest'
  BY <1>1, <1>2, TypeParts DEF Rest, world
<1> QED
  BY <1>1, <1>3, <1>4, <1>5, NextParts

LEMMA WriteEffect ==
  ASSUME TypeOK, NEW p \in Slots, WriteMarker(p)
  PROVE  /\ TypeOK' /\ proc[p].upgrade = "mark"
         /\ UNCHANGED <<file, port, world, trusted, upgrades, crashes>>
         /\ \/ Upgrades(p, "backup") /\ faults' = faults
            \/ Upgrades(p, "off") /\ marker' = marker /\ faults' = faults + 1
<1>1. /\ proc[p].upgrade = "mark"
      /\ UNCHANGED <<file, port, world, trusted, upgrades, crashes>>
      /\ \/ marker' = TRUE /\ Goto(p, "upgrade", "backup") /\ faults' = faults
         \/ marker' = marker /\ Fail(p) /\ faults' = faults + 1
  BY DEF WriteMarker, Fault
<1>2. Alive(p) /\ "backup" \in Labels("upgrade")
  BY <1>1, UpgradeAlive DEF Labels
<1>3. Procs' /\ (\/ Upgrades(p, "backup") /\ faults' = faults
                 \/ Upgrades(p, "off") /\ marker' = marker /\ faults' = faults + 1)
  BY <1>1, <1>2, GotoUpgrades, FailUpgrades
<1>4. marker' \in BOOLEAN /\ faults' \in Nat
  <2>1. marker \in BOOLEAN /\ faults \in Nat /\ faults + 1 \in Nat
    BY TypeParts DEF Rest
  <2> QED
    BY <1>1, <2>1, Zenon
<1>5. Rest'
  BY <1>1, <1>4, TypeParts DEF Rest, world
<1> QED
  BY <1>1, <1>3, <1>5, NextParts

LEMMA BackupEffect ==
  ASSUME TypeOK, NEW p \in Slots, SwapBackup(p)
  PROVE  /\ TypeOK' /\ proc[p].upgrade = "backup"
         /\ UNCHANGED <<marker, port, world, trusted, upgrades, crashes>>
         /\ file'.failed = file.failed
         /\ \/ /\ file.exe # None /\ file'.bak = file.exe /\ file'.exe = None
               /\ Upgrades(p, "stage") /\ faults' = faults
            \/ /\ file'.exe = file.exe /\ file'.bak = None /\ Upgrades(p, "off")
               /\ (file.exe = None /\ faults' = faults) \/ faults' = faults + 1
<1>1. /\ proc[p].upgrade = "backup"
      /\ UNCHANGED <<marker, port, world, trusted, upgrades, crashes>>
      /\ \/ /\ file.exe # None /\ file' = [file EXCEPT !.bak = file.exe, !.exe = None]
            /\ Goto(p, "upgrade", "stage") /\ faults' = faults
         \/ /\ file' = [file EXCEPT !.bak = None] /\ Fail(p)
            /\ (file.exe = None /\ faults' = faults) \/ faults' = faults + 1
  BY DEF SwapBackup, Fault
<1>2. Alive(p) /\ "stage" \in Labels("upgrade")
  BY <1>1, UpgradeAlive DEF Labels
<1>3. CASE /\ file.exe # None /\ file' = [file EXCEPT !.bak = file.exe, !.exe = None]
           /\ Goto(p, "upgrade", "stage") /\ faults' = faults
  <2>1. Procs' /\ Upgrades(p, "stage")
    BY <1>1, <1>2, <1>3, GotoUpgrades
  <2>2. file'.bak = file.exe /\ file'.exe = None /\ file'.failed = file.failed
    BY <1>3, TypeParts DEF Rest
  <2>3. Rest'
    BY <1>1, <1>3, TypeParts DEF Rest, world
  <2> QED
    BY <1>1, <1>3, <2>1, <2>2, <2>3, NextParts
<1>4. CASE /\ file' = [file EXCEPT !.bak = None] /\ Fail(p)
           /\ (file.exe = None /\ faults' = faults) \/ faults' = faults + 1
  <2>1. Procs' /\ Upgrades(p, "off")
    BY <1>1, <1>2, <1>4, FailUpgrades
  <2>2. file'.bak = None /\ file'.exe = file.exe /\ file'.failed = file.failed
    BY <1>4, TypeParts DEF Rest
  <2>3. Rest'
    BY <1>1, <1>4, TypeParts DEF Rest, world
  <2> QED
    BY <1>1, <1>4, <2>1, <2>2, <2>3, NextParts
<1> QED
  BY <1>1, <1>3, <1>4

LEMMA StageEffect ==
  ASSUME TypeOK, NEW p \in Slots, SwapStage(p)
  PROVE  /\ TypeOK' /\ proc[p].upgrade = "stage"
         /\ UNCHANGED <<marker, port, world, trusted, upgrades, crashes>>
         /\ file'.failed = file.failed /\ file'.bak = file.bak
         /\ \/ file'.exe # None /\ Upgrades(p, "prepare") /\ faults' = faults
            \/ /\ file'.exe = file.exe /\ Upgrades(p, "unstage")
               /\ faults' = faults \/ faults' = faults + 1
<1>1. /\ proc[p].upgrade = "stage"
      /\ UNCHANGED <<marker, port, world, trusted, upgrades, crashes>>
      /\ \/ /\ file.new # None /\ file' = [file EXCEPT !.exe = file.new, !.new = None]
            /\ proc' = [proc EXCEPT ![p] = [@ EXCEPT !.upgrade = "prepare", !.phase = "running:restarting"]]
            /\ faults' = faults
         \/ /\ file' = file /\ Goto(p, "upgrade", "unstage")
            /\ faults' = faults \/ faults' = faults + 1
  BY DEF SwapStage, Fault
<1>2. Alive(p) /\ {"prepare", "unstage"} \subseteq Labels("upgrade")
  BY <1>1, UpgradeAlive DEF Labels
<1>3. CASE /\ file.new # None /\ file' = [file EXCEPT !.exe = file.new, !.new = None]
           /\ proc' = [proc EXCEPT ![p] = [@ EXCEPT !.upgrade = "prepare", !.phase = "running:restarting"]]
           /\ faults' = faults
  <2>1. proc[p] \in Process
    BY TypeParts DEF Procs
  <2>2. [proc[p] EXCEPT !.upgrade = "prepare", !.phase = "running:restarting"]
          = [proc[p] EXCEPT !.phase = "running:restarting", !.upgrade = "prepare"]
    BY <2>1 DEF Process
  <2>3. Procs' /\ Upgrades(p, "prepare")
    BY <1>1, <1>2, <1>3, <2>2, PhaseUpgrades
  <2>4. file'.exe # None /\ file'.bak = file.bak /\ file'.failed = file.failed
    BY <1>3, TypeParts DEF Rest
  <2>5. Rest'
    BY <1>1, <1>3, TypeParts DEF Rest, world
  <2> QED
    BY <1>1, <1>3, <2>3, <2>4, <2>5, NextParts
<1>4. CASE /\ file' = file /\ Goto(p, "upgrade", "unstage")
           /\ faults' = faults \/ faults' = faults + 1
  <2>1. Procs' /\ Upgrades(p, "unstage")
    BY <1>1, <1>2, <1>4, GotoUpgrades
  <2>2. Rest'
    BY <1>1, <1>4, TypeParts DEF Rest, world
  <2> QED
    BY <1>1, <1>4, <2>1, <2>2, NextParts
<1> QED
  BY <1>1, <1>3, <1>4

LEMMA UnstageEffect ==
  ASSUME TypeOK, NEW p \in Slots, SwapUnstage(p)
  PROVE  /\ TypeOK' /\ proc[p].upgrade = "unstage" /\ Upgrades(p, "off")
         /\ UNCHANGED <<marker, port, world, trusted, upgrades, faults, crashes>>
         /\ file'.failed = file.failed
         /\ IF file.bak = None THEN file' = file ELSE file'.exe = file.bak /\ file'.bak = None
<1>1. /\ proc[p].upgrade = "unstage" /\ Fail(p)
      /\ UNCHANGED <<marker, port, world, trusted, upgrades, faults, crashes>>
      /\ file' = IF file.bak = None THEN file ELSE [file EXCEPT !.exe = file.bak, !.bak = None]
  BY DEF SwapUnstage
<1>2. Procs' /\ Upgrades(p, "off")
  BY <1>1, UpgradeAlive, FailUpgrades
<1>3. /\ file'.failed = file.failed
      /\ IF file.bak = None THEN file' = file ELSE file'.exe = file.bak /\ file'.bak = None
  BY <1>1, TypeParts DEF Rest
<1>4. Rest'
  BY <1>1, TypeParts DEF Rest, world
<1> QED
  BY <1>1, <1>2, <1>3, <1>4, NextParts

LEMMA PrepareEffect ==
  ASSUME TypeOK, NEW p \in Slots, Prepare(p)
  PROVE  /\ TypeOK' /\ Still /\ proc[p].upgrade = "prepare" /\ PortLeft(p)
         /\ Others(p) /\ proc'[p].ver = proc[p].ver /\ proc'[p].verify = proc[p].verify
         /\ proc'[p].main = "stopped" /\ proc'[p].upgrade = "restart"
<1>1. /\ proc[p].upgrade = "prepare" /\ Still /\ PortLeft(p)
      /\ proc' = [proc EXCEPT ![p] = [@ EXCEPT !.upgrade = "restart", !.main = "stopped"]]
  BY DEF Prepare, Still, PortLeft, world
<1> DEFINE P == [proc[p] EXCEPT !.upgrade = "restart", !.main = "stopped"]
<1>2. proc[p] \in Process /\ proc[p].ver # None
  BY <1>1, UpgradeAlive
<1>3. /\ P \in Process /\ P.ver = proc[p].ver /\ P.main = "stopped" /\ P.verify = proc[p].verify
      /\ P.upgrade = "restart"
  BY <1>2 DEF Process
<1>4. proc' = [proc EXCEPT ![p] = P]
  BY <1>1
<1> HIDE DEF P
<1>5. Procs' /\ Others(p) /\ proc'[p] = P
  BY <1>1, <1>2, <1>3, <1>4, SetTyped, TypeParts DEF PortLeft
<1> QED
  BY <1>1, <1>3, <1>5, StillTyped
-----------------------------------------------------------------------------
\* Process q is started from the executable.
Starts(q) ==
  /\ ~Alive(q)
  /\ proc'[q].ver = file.exe /\ proc'[q].main = "open"
  /\ proc'[q].verify = "off" /\ proc'[q].upgrade = "off"

\* Process p starts q, and its upgrade goroutine goes to label.
Spawns(p, label, q) ==
  /\ p # q /\ Starts(q)
  /\ \A r \in Slots \ {p, q} : proc'[r] = proc[r]
  /\ proc'[p].ver = proc[p].ver /\ proc'[p].main = proc[p].main /\ proc'[p].verify = proc[p].verify
  /\ proc'[p].upgrade = label

LEMMA Boots1 ==
  ASSUME NEW v \in Versions
  PROVE  /\ Booting(v) \in Process /\ Booting(v).ver = v /\ Booting(v).main = "open"
         /\ Booting(v).verify = "off" /\ Booting(v).upgrade = "off"
BY DEF Booting, NoProcess, Process, None

LEMMA FreeIsFree ==
  ASSUME \E r \in Slots : ~Alive(r)
  PROVE  FreeSlot \in Slots /\ ~Alive(FreeSlot)
BY DEF FreeSlot

LEMMA SpawnEffect ==
  ASSUME TypeOK, NEW p \in Slots, NEW label \in Labels("upgrade"), Alive(p), Runnable, SpawnBy(p, label),
         port' = port
  PROVE  Procs' /\ \E q \in Slots : Spawns(p, label, q)
<1> DEFINE q == FreeSlot
           P == [proc[p] EXCEPT !.upgrade = label]
           Q == Booting(file.exe)
<1>1. q \in Slots /\ ~Alive(q) /\ proc' = [proc EXCEPT ![p] = P, ![q] = Q]
  BY FreeIsFree DEF SpawnBy
<1>2. proc[p] \in Process /\ proc \in [Slots -> Process]
  BY TypeParts DEF Procs
<1>3. /\ P \in Process /\ P.ver = proc[p].ver /\ P.main = proc[p].main /\ P.verify = proc[p].verify
      /\ P.upgrade = label
  BY <1>2 DEF Process, Labels
<1>4. file.exe \in Versions
  BY TypeParts DEF Rest, Runnable
<1>5. /\ Q \in Process /\ Q.ver = file.exe /\ Q.main = "open" /\ Q.verify = "off" /\ Q.upgrade = "off"
      /\ Q.ver # None
  BY <1>4, Boots1, UpgradeAssumption DEF UpgradeAssumption
<1>6. p # q
  BY <1>1
<1> HIDE DEF q, P, Q
<1>7. /\ proc' \in [Slots -> Process] /\ proc'[p] = P /\ proc'[q] = Q
      /\ \A r \in Slots \ {p, q} : proc'[r] = proc[r]
  BY <1>1, <1>2, <1>3, <1>5, <1>6
<1>8. \A r \in Slots : proc'[r].ver = None => proc'[r] = NoProcess
  BY <1>3, <1>5, <1>7, TypeParts DEF Procs, Alive
<1>9. port' # None => proc'[port'].main = "serving"
  <2>1. port # None => proc[port].main = "serving" /\ port \in Slots /\ port # q
    BY <1>1, TypeParts, NothingThere DEF Procs, Alive
  <2> QED
    BY <1>3, <1>7, <2>1
<1>10. Procs'
  BY <1>7, <1>8, <1>9, TypeParts DEF Procs
<1>11. Spawns(p, label, q)
  BY <1>1, <1>3, <1>5, <1>6, <1>7 DEF Spawns, Starts
<1> QED
  BY <1>1, <1>10, <1>11

LEMMA RestartEffect ==
  ASSUME TypeOK, NEW p \in Slots, Restart(p)
  PROVE  /\ TypeOK' /\ Still /\ proc[p].upgrade = "restart"
         /\ \/ Dies(p)
            \/ ~supervised /\ port' = port /\ Upgrades(p, "check")
            \/ /\ ~supervised /\ port' = port /\ Runnable
               /\ \E q \in Slots : Spawns(p, "watch", q)
<1>1. /\ Still /\ proc[p].upgrade = "restart"
      /\ \/ Exit(p)
         \/ ~supervised /\ port' = port /\ Goto(p, "upgrade", "check")
         \/ ~supervised /\ port' = port /\ Runnable /\ SpawnBy(p, "watch")
  BY DEF Restart, Still, world
<1>2. Alive(p) /\ {"check", "watch"} \subseteq Labels("upgrade")
  BY <1>1, UpgradeAlive DEF Labels, RollbackSteps
<1>3. /\ Procs'
      /\ \/ Dies(p)
         \/ ~supervised /\ port' = port /\ Upgrades(p, "check")
         \/ /\ ~supervised /\ port' = port /\ Runnable
            /\ \E q \in Slots : Spawns(p, "watch", q)
  BY <1>1, <1>2, ExitDies, GotoUpgrades, SpawnEffect
<1> QED
  BY <1>1, <1>3, StillTyped

LEMMA WatchEffect ==
  ASSUME TypeOK, NEW p \in Slots, Watch(p)
  PROVE  /\ TypeOK' /\ Still /\ proc[p].upgrade = "watch"
         /\ Dies(p) \/ (port' = port /\ Upgrades(p, "check"))
<1>1. /\ Still /\ proc[p].upgrade = "watch"
      /\ \/ Exit(p)
         \/ /\ port' = port
            /\ proc' = [proc EXCEPT ![p] = [@ EXCEPT !.upgrade = "check", !.respawn = TRUE]]
  BY DEF Watch, Still, world
<1>2. CASE Exit(p)
  BY <1>1, <1>2, ExitDies, StillTyped
<1>3. CASE /\ port' = port
           /\ proc' = [proc EXCEPT ![p] = [@ EXCEPT !.upgrade = "check", !.respawn = TRUE]]
  <2> DEFINE P == [proc[p] EXCEPT !.upgrade = "check", !.respawn = TRUE]
  <2>1. proc[p] \in Process /\ proc[p].ver # None
    BY <1>1, UpgradeAlive
  <2>2. /\ P \in Process /\ P.ver = proc[p].ver /\ P.main = proc[p].main /\ P.verify = proc[p].verify
        /\ P.upgrade = "check"
    BY <2>1 DEF Process, RollbackSteps
  <2>3. proc' = [proc EXCEPT ![p] = P]
    BY <1>3
  <2> HIDE DEF P
  <2>4. port = p => P.main = "serving"
    BY <2>2, TypeParts, UpgradeAssumption DEF Procs, UpgradeAssumption
  <2>5. Procs' /\ Others(p) /\ proc'[p] = P
    BY <1>3, <2>1, <2>2, <2>3, <2>4, SetTyped, TypeParts
  <2>6. Upgrades(p, "check")
    BY <2>2, <2>5 DEF Upgrades
  <2> QED
    BY <1>1, <1>3, <2>5, <2>6, StillTyped
<1> QED
  BY <1>1, <1>2, <1>3

LEMMA RespawnEffect ==
  ASSUME TypeOK, NEW p \in Slots, Respawn(p)
  PROVE  /\ TypeOK' /\ Still /\ proc[p].upgrade = "respawn"
         /\ \/ Dies(p)
            \/ /\ port' = port /\ Runnable
               /\ \E q \in Slots : Spawns(p, "watch previous", q)
<1>1. /\ Still /\ proc[p].upgrade = "respawn"
      /\ \/ Exit(p)
         \/ port' = port /\ Runnable /\ SpawnBy(p, "watch previous")
  BY DEF Respawn, Still, world
<1>2. Alive(p) /\ "watch previous" \in Labels("upgrade")
  BY <1>1, UpgradeAlive DEF Labels
<1>3. /\ Procs'
      /\ \/ Dies(p)
         \/ /\ port' = port /\ Runnable
            /\ \E q \in Slots : Spawns(p, "watch previous", q)
  BY <1>1, <1>2, ExitDies, SpawnEffect
<1> QED
  BY <1>1, <1>3, StillTyped

LEMMA PreviousEffect ==
  ASSUME TypeOK, NEW p \in Slots, WatchPrevious(p)
  PROVE  TypeOK' /\ Still /\ proc[p].upgrade = "watch previous" /\ Dies(p)
<1>1. Still /\ proc[p].upgrade = "watch previous" /\ Exit(p)
  BY DEF WatchPrevious, Still, world
<1> QED
  BY <1>1, ExitDies, StillTyped

\* Somebody starts the binary when nothing runs.
LEMMA ServiceEffect ==
  ASSUME TypeOK, ServiceStart
  PROVE  /\ TypeOK' /\ Still /\ port' = port /\ Runnable
         /\ \A r \in Slots : ~Alive(r)
         /\ \E q \in Slots : Starts(q) /\ Others(q)
<1>1. /\ Still /\ port' = port /\ Runnable /\ \A r \in Slots : ~Alive(r)
      /\ proc' = [proc EXCEPT ![FreeSlot] = Booting(file.exe)]
  BY DEF ServiceStart, Still, world
<1>2. FreeSlot \in Slots /\ ~Alive(FreeSlot)
  BY <1>1, FreeIsFree, UpgradeAssumption DEF UpgradeAssumption
<1>3. file.exe \in Versions
  BY <1>1, TypeParts DEF Rest, Runnable
<1> DEFINE q == FreeSlot
           Q == Booting(file.exe)
<1>4. /\ Q \in Process /\ Q.ver = file.exe /\ Q.main = "open" /\ Q.verify = "off" /\ Q.upgrade = "off"
      /\ Q.ver # None
  BY <1>3, Boots1, UpgradeAssumption DEF UpgradeAssumption
<1>5. q \in Slots /\ ~Alive(q) /\ proc' = [proc EXCEPT ![q] = Q]
  BY <1>1, <1>2
<1> HIDE DEF q, Q
<1>6. port = q => Q.main = "serving"
  BY <1>5, TypeParts, NothingThere, UpgradeAssumption DEF Procs, Alive, UpgradeAssumption
<1>7. Procs' /\ Others(q) /\ proc'[q] = Q
  BY <1>1, <1>4, <1>5, <1>6, SetTyped, TypeParts
<1>8. Starts(q)
  BY <1>4, <1>5, <1>7 DEF Starts
<1> QED
  BY <1>1, <1>5, <1>7, <1>8, StillTyped

LEMMA CrashEffect ==
  ASSUME TypeOK, Crash
  PROVE  /\ TypeOK' /\ crashes' = crashes + 1
         /\ UNCHANGED <<file, marker, world, trusted, upgrades, faults>>
         /\ \A p \in Slots : proc'[p] = NoProcess
<1>1. /\ proc' = [p \in Slots |-> NoProcess] /\ port' = None /\ crashes' = crashes + 1
      /\ UNCHANGED <<file, marker, world, trusted, upgrades, faults>>
  BY DEF Crash
<1>2. Procs'
  BY <1>1, NothingThere DEF Procs
<1>3. Rest'
  BY <1>1, TypeParts DEF Rest, world
<1> QED
  BY <1>1, <1>2, <1>3, NextParts
-----------------------------------------------------------------------------
LEMMA InitTyped == Init => TypeOK
<1> SUFFICES ASSUME Init
             PROVE  TypeOK
  OBVIOUS
<1>1. port \in Slots
  BY UpgradeAssumption DEF Init, UpgradeAssumption
<1> DEFINE P == [NoProcess EXCEPT !.ver = Installed, !.main = "serving"]
<1>2. P \in Process /\ P.ver # None /\ P.main = "serving"
  BY UpgradeAssumption DEF NoProcess, Process, UpgradeAssumption
<1>3. proc = [q \in Slots |-> IF q = port THEN P ELSE NoProcess]
  BY DEF Init
<1> HIDE DEF P
<1>4. Procs
  BY <1>1, <1>2, <1>3, NothingThere DEF Procs
<1>5. Rest
  BY UpgradeAssumption DEF Init, Rest, UpgradeAssumption, AllFates
<1> QED
  BY <1>4, <1>5, TypeParts

LEMMA MainTyped ==
  ASSUME TypeOK, NEW p \in Slots, MainStep(p) \/ VerifyStep(p) \/ UpgradeStep(p)
  PROVE  TypeOK'
<1>1. CASE MainStep(p)
  BY <1>1, OpenEffect, MigrateEffect, AssembleEffect, BindEffect DEF MainStep
<1>2. CASE VerifyStep(p)
  BY <1>2, HealthEffect, MarkerEffect, DropEffect DEF VerifyStep
<1>3. CASE UpgradeStep(p)
  BY <1>3, DownloadEffect, WriteEffect, BackupEffect, StageEffect, UnstageEffect, PrepareEffect,
     RestartEffect, WatchEffect, RespawnEffect, PreviousEffect DEF UpgradeStep
<1> QED
  BY <1>1, <1>2, <1>3

LEMMA NextTyped == TypeOK /\ [Next]_vars => TypeOK'
<1> SUFFICES ASSUME TypeOK, [Next]_vars
             PROVE  TypeOK'
  OBVIOUS
<1>1. CASE \E p \in Slots : Step(p)
  <2> PICK p \in Slots : Step(p)
    BY <1>1
  <2>1. CASE MainStep(p) \/ VerifyStep(p) \/ UpgradeStep(p)
    BY <2>1, MainTyped
  <2>2. CASE \E g \in Goroutines : RollbackStep(p, g)
    BY <2>2, CheckEffect, ParkEffect, RestoreEffect, UnparkEffect, UnmarkEffect DEF RollbackStep
  <2> QED
    BY <2>1, <2>2 DEF Step
<1>2. CASE \E p \in Slots, v \in Versions : StartUpgrade(p, v)
  BY <1>2, StartEffect
<1>3. CASE ServiceStart
  BY <1>3, ServiceEffect
<1>4. CASE Crash
  BY <1>4, CrashEffect
<1>5. CASE UNCHANGED vars
  BY <1>5 DEF vars, world, TypeOK
<1> QED
  BY <1>1, <1>2, <1>3, <1>4, <1>5 DEF Next

\* The files, the processes and the counters keep their types, for any releases, number of
\* processes and bounds, and whether or not administrators wait: in particular a process that
\* is gone leaves nothing behind, and who has the listener serves.
THEOREM TypeCorrect == Safety => []TypeOK
BY InitTyped, NextTyped, PTL DEF Safety
-----------------------------------------------------------------------------
(***************************************************************************)
(* Who is alive together.                                                  *)
(***************************************************************************)

\* The processes other than p stay proper while p gets or leaves the listener.
LEMMA ProperOthers ==
  ASSUME Inv1, NEW p \in Slots, Others(p), trusted \subseteq trusted', fate' = fate,
         port' = port \/ port \in {p, None}
  PROVE  \A q \in Slots \ {p} : Proper(q)'
<1> SUFFICES ASSUME NEW q \in Slots \ {p}
             PROVE  Proper(q)'
  OBVIOUS
<1>1. Proper(q) /\ proc'[q] = proc[q]
  BY DEF Inv1, Others
<1>2. proc[q].main = "serving" => port' = q
  BY <1>1, UpgradeAssumption DEF Proper, UpgradeAssumption
<1> QED
  BY <1>1, <1>2 DEF Proper

LEMMA ProperNone ==
  ASSUME NEW p \in Slots, proc'[p] = NoProcess
  PROVE  Proper(p)'
BY NothingThere DEF Proper, Swapping, Watching, Boots, RollbackSteps

\* A process that dies leaves the others as they were.
LEMMA DiesProper ==
  ASSUME Inv1, NEW p \in Slots, Dies(p), trusted' = trusted, fate' = fate
  PROVE  \A q \in Slots : Proper(q)'
<1>1. Others(p) /\ proc'[p] = NoProcess /\ (port' = port \/ port = p)
  BY DEF Dies, Ends, PortLeft
<1> QED
  BY <1>1, ProperNone, ProperOthers

\* A step of p that takes on nothing new.
Meek(p) ==
  /\ Others(p) /\ supervised' = supervised
  /\ Alive(p)' => Alive(p)
  /\ Swaps(p)' => Swaps(p)
  /\ Watches(p)' => Watches(p)
  /\ Watches(p) /\ Alive(p)' => Watches(p)'
  /\ proc'[p].upgrade # "off" => proc[p].upgrade # "off"
  /\ marker' \/ file'.bak # None => marker \/ file.bak # None

LEMMA MeekKeeps ==
  ASSUME Inv1, NEW p \in Slots, Meek(p)
  PROVE  Alone' /\ Watched' /\ OneTrial'
<1>1. \A q \in Slots : /\ Alive(q)' => Alive(q)
                       /\ Swaps(q)' => Swaps(q)
                       /\ Watches(q)' => Watches(q)
                       /\ Watches(q) /\ Alive(q)' => Watches(q)'
                       /\ proc'[q].upgrade # "off" => proc[q].upgrade # "off"
  BY DEF Meek, Others, Alive, Swaps, Watches
<1>2. \A q \in Slots : Company(q)' \subseteq Company(q)
  BY <1>1 DEF Company
<1>3. Alone'
  BY <1>1, <1>2 DEF Inv1, Alone, Meek
<1>4. Watched'
  <2>1. \A q \in Slots : \A r \in Company(q)' : r \in Slots /\ r \in Company(q)
    BY <1>2 DEF Company
  <2> QED
    BY <1>1, <2>1 DEF Inv1, Watched
<1>5. OneTrial'
  BY <1>1 DEF Inv1, OneTrial, Meek
<1> QED
  BY <1>3, <1>4, <1>5

\* A step of a process that is alone.
LEMMA AloneKeeps ==
  ASSUME TypeOK', NEW p \in Slots, Others(p), Company(p) = {}, Watches(p)' => ~supervised'
  PROVE  Alone' /\ Watched' /\ OneTrial'
<1>1. \A q \in Slots : Alive(q)' => q = p
  BY DEF Others, Alive, Company
<1>2. \A q \in Slots : (Alive(q)' \/ q = p) => Company(q)' = {}
  BY <1>1 DEF Company
<1>3. \A q \in Slots : ~Alive(q)' => proc'[q].upgrade = "off"
  BY NothingThere DEF TypeOK, Alive
<1>4. \A q \in Slots : (Swaps(q)' \/ Watches(q)') => Company(q)' = {}
  BY <1>2, <1>3 DEF Swaps, Watches, Swapping, Watching, RollbackSteps
<1>5. Alone'
  BY <1>1, <1>2, <1>4 DEF Alone
<1>6. Watched'
  BY <1>4 DEF Watched
<1>7. OneTrial'
  BY <1>1 DEF OneTrial
<1> QED
  BY <1>5, <1>6, <1>7

\* Nothing more to roll back than before.
Less ==
  /\ supervised' = supervised /\ fate' = fate
  /\ marker' => marker
  /\ file'.bak # None => file.bak # None

LEMMA Assemble1 ==
  ASSUME Inv1, TypeOK', NEW p \in Slots, Meek(p), \A q \in Slots : Proper(q)', RolledBack'
  PROVE  Inv1'
BY MeekKeeps DEF Inv1

LEMMA DiesKeeps ==
  ASSUME Inv1, TypeOK', NEW p \in Slots, Dies(p), Less, trusted' = trusted
  PROVE  Inv1'
<1>1. Others(p) /\ proc'[p] = NoProcess
  BY DEF Dies, Ends
<1>2. Meek(p)
  BY <1>1, NothingThere DEF Less, Meek, Alive, Swaps, Watches, Swapping, Watching, RollbackSteps
<1>3. RolledBack'
  BY <1>1, NothingThere DEF Less, RolledBack, Others, Inv1
<1>4. \A q \in Slots : Proper(q)'
  BY DiesProper DEF Less
<1> QED
  BY <1>2, <1>3, <1>4, Assemble1

\* A goroutine other than the upgrading one goes on.
LEMMA MovesKeeps ==
  ASSUME Inv1, TypeOK', NEW p \in Slots, NEW g \in {"main", "verify"}, NEW label, Goes(p, g, label), Less,
         trusted' = trusted, Alive(p), Proper(p)'
  PROVE  Inv1'
<1>1. /\ Others(p) /\ proc'[p].ver = proc[p].ver /\ proc'[p].upgrade = proc[p].upgrade /\ port' = port
  BY DEF Goes, Moves
<1>2. Meek(p)
  BY <1>1 DEF Less, Meek, Alive, Swaps, Watches
<1>3. RolledBack'
  BY <1>1 DEF Less, RolledBack, Others, Inv1
<1>4. \A q \in Slots : Proper(q)'
  BY <1>1, ProperOthers DEF Less
<1> QED
  BY <1>2, <1>3, <1>4, Assemble1

\* The upgrading goroutine goes on, swapping or watching as it did.
LEMMA UpgradesKeeps ==
  ASSUME Inv1, TypeOK', NEW p \in Slots, NEW label, Upgrades(p, label), Less, trusted' = trusted,
         port' = port, proc[p].upgrade # "off",
         label \in Swapping => Swaps(p),
         label \in Watching <=> Watches(p),
         label \in {"unmark", "respawn"} => file'.bak = None,
         label = "respawn" => ~marker',
         Proper(p)'
  PROVE  Inv1'
<1>1. /\ Others(p) /\ proc'[p].ver = proc[p].ver /\ proc'[p].upgrade = label
  BY DEF Upgrades
<1>2. Meek(p)
  BY <1>1 DEF Less, Meek, Alive, Swaps, Watches
<1>3. RolledBack'
  BY <1>1 DEF Less, RolledBack, Others, Inv1
<1>4. \A q \in Slots : Proper(q)'
  BY <1>1, ProperOthers DEF Less
<1> QED
  BY <1>2, <1>3, <1>4, Assemble1

LEMMA GoesUpgrades ==
  ASSUME NEW p \in Slots, NEW label, Goes(p, "upgrade", label)
  PROVE  Upgrades(p, label) /\ port' = port
BY DEF Goes, Moves, Upgrades

\* A roll back goes on, in whichever goroutine it is.
LEMMA RollsOn ==
  ASSUME Inv1, TypeOK', NEW p \in Slots, NEW g \in Goroutines, NEW old \in RollbackSteps, At(p, g, old),
         NEW label \in RollbackSteps, Goes(p, g, label), Less, trusted' = trusted,
         label = "unmark" => file'.bak = None
  PROVE  Inv1'
<1>1. Proper(p) /\ Alive(p) /\ TypeOK
  BY Busy, TypeParts DEF Inv1, At, RollbackSteps
<1>2. CASE g \in {"main", "verify"}
  <2>1. Proper(p)'
    BY <1>1, <1>2 DEF Less, Goes, Moves, At, Proper, RollbackSteps, Boots, Swapping, Watching
  <2> QED
    BY <1>1, <1>2, <2>1, MovesKeeps
<1>3. CASE g = "upgrade"
  <2>1. proc[p].upgrade = old /\ Upgrades(p, label) /\ port' = port
    BY <1>3, GoesUpgrades DEF At
  <2>2. Proper(p)'
    BY <1>1, <2>1 DEF Less, Upgrades, Proper, RollbackSteps, Boots, Swapping, Watching
  <2>3. /\ label \in Watching /\ Watches(p) /\ label \notin Swapping /\ label # "respawn"
        /\ proc[p].upgrade # "off"
    BY <2>1 DEF Watching, Watches, Swapping, RollbackSteps
  <2> QED
    BY <2>1, <2>2, <2>3, UpgradesKeeps
<1> QED
  BY <1>2, <1>3 DEF Goroutines

\* A process that is alone may take on anything but a roll back that is done.
LEMMA AloneInv ==
  ASSUME Inv1, TypeOK', NEW p \in Slots, Others(p), Company(p) = {}, Proper(p)',
         port' = port \/ port \in {p, None}, fate' = fate, trusted' = trusted,
         Watches(p)' => ~supervised', proc'[p].upgrade \notin {"unmark", "respawn"}
  PROVE  Inv1'
<1>1. Alone' /\ Watched' /\ OneTrial'
  BY AloneKeeps
<1>2. \A q \in Slots : Proper(q)'
  BY ProperOthers
<1>3. \A q \in Slots \ {p} : proc'[q].upgrade = "off"
  BY NothingThere DEF Inv1, TypeOK, Others, Company, Alive
<1>4. RolledBack'
  BY <1>3 DEF RolledBack
<1> QED
  BY <1>1, <1>2, <1>4 DEF Inv1

LEMMA InvParts ==
  ASSUME Inv1, NEW p \in Slots
  PROVE  /\ TypeOK /\ Proper(p)
         /\ (proc[p].main # "off" \/ proc[p].verify # "off" \/ proc[p].upgrade # "off" => Alive(p))
BY Busy, TypeParts DEF Inv1

LEMMA StillLess == Still => Less /\ trusted' = trusted
BY DEF Still, Less, world

LEMMA OpenInv == ASSUME Inv1, NEW p \in Slots, OpenDatabase(p) PROVE Inv1'
<1>1. TypeOK' /\ Less /\ trusted' = trusted /\ proc[p].main = "open" /\ fate[proc[p].ver] # "stuck"
      /\ (Dies(p) \/ (Goes(p, "main", "migrate") /\ fate[proc[p].ver] # "open"))
  BY OpenEffect, InvParts, StillLess
<1>2. ASSUME Goes(p, "main", "migrate"), fate[proc[p].ver] # "open"
      PROVE  Inv1'
  <2>1. Proper(p)'
    BY <1>1, <1>2, InvParts DEF Goes, Moves, Less, Proper, Boots, Swapping, Watching, RollbackSteps
  <2> QED
    BY <1>1, <1>2, <2>1, MovesKeeps, InvParts
<1> QED
  BY <1>1, <1>2, DiesKeeps

LEMMA CheckProper ==
  ASSUME Inv1, NEW p \in Slots, proc[p].main \in {"migrate", "bind"}, Goes(p, "main", "check"), Less,
         trusted' = trusted
  PROVE  Proper(p)'
BY InvParts DEF Goes, Moves, Less, Proper, Boots, Swapping, Watching, RollbackSteps

LEMMA MigrateInv == ASSUME Inv1, NEW p \in Slots, Migrate(p) PROVE Inv1'
<1>1. /\ TypeOK' /\ Less /\ trusted' = trusted /\ proc[p].main = "migrate"
      /\ \/ Dies(p)
         \/ Goes(p, "main", "check")
         \/ Goes(p, "main", "assemble") /\ fate[proc[p].ver] # "migrate"
  BY MigrateEffect, InvParts, StillLess
<1>2. ASSUME Goes(p, "main", "assemble"), fate[proc[p].ver] # "migrate"
      PROVE  Inv1'
  <2>1. Proper(p)'
    BY <1>1, <1>2, InvParts DEF Goes, Moves, Less, Proper, Boots, Swapping, Watching, RollbackSteps
  <2> QED
    BY <1>1, <1>2, <2>1, MovesKeeps, InvParts
<1>3. ASSUME Goes(p, "main", "check")
      PROVE  Inv1'
  BY <1>1, <1>3, CheckProper, MovesKeeps, InvParts
<1> QED
  BY <1>1, <1>2, <1>3, DiesKeeps

LEMMA AssembleInv == ASSUME Inv1, NEW p \in Slots, Assemble(p) PROVE Inv1'
<1>1. /\ TypeOK' /\ Less /\ trusted' = trusted /\ proc[p].main = "assemble"
      /\ Dies(p) \/ (Goes(p, "main", "bind") /\ fate[proc[p].ver] # "assemble")
  BY AssembleEffect, InvParts, StillLess
<1>2. ASSUME Goes(p, "main", "bind"), fate[proc[p].ver] # "assemble"
      PROVE  Inv1'
  <2>1. Proper(p)'
    BY <1>1, <1>2, InvParts DEF Goes, Moves, Less, Proper, Boots, Swapping, Watching, RollbackSteps
  <2> QED
    BY <1>1, <1>2, <2>1, MovesKeeps, InvParts
<1> QED
  BY <1>1, <1>2, DiesKeeps

LEMMA BindInv == ASSUME Inv1, NEW p \in Slots, Bind(p) PROVE Inv1'
<1>1. /\ TypeOK' /\ proc[p].main = "bind"
      /\ UNCHANGED <<file, marker, world, upgrades, faults, crashes>>
      /\ \/ Serves(p)
         \/ trusted' = trusted /\ (Dies(p) \/ Goes(p, "main", "check"))
  BY BindEffect, InvParts
<1>2. Less
  BY <1>1 DEF Less, world
<1>3. Proper(p) /\ Alive(p)
  BY <1>1, InvParts
<1>4. CASE Serves(p)
  <2>1. /\ Others(p) /\ proc'[p].ver = proc[p].ver /\ proc'[p].upgrade = proc[p].upgrade
        /\ port = None /\ trusted \subseteq trusted'
    BY <1>4 DEF Serves
  <2>2. Meek(p)
    BY <1>2, <1>3, <2>1 DEF Meek, Alive, Swaps, Watches, Less
  <2>3. RolledBack'
    BY <1>2, <2>1 DEF Less, RolledBack, Others, Inv1
  <2>4. fate[proc[p].ver] \in {"good", "sick"}
    <3>1. fate[proc[p].ver] \in AllFates
      BY <1>1, BootAlive, InvParts DEF TypeOK
    <3> QED
      BY <1>1, <1>3, <3>1 DEF Proper, Boots, AllFates
  <2>5. Proper(p)'
    <3>1. /\ proc'[p].main = "serving" /\ proc'[p].verify \in {"wait", "off"} /\ port' = p
          /\ (fate[proc[p].ver] = "good" => proc[p].ver \in trusted')
      BY <1>4 DEF Serves
    <3>2. proc[p].upgrade = "off"
      BY <1>1, <1>3 DEF Proper, Swapping, Watching, Boots, RollbackSteps, Inv1, TypeOK, Process
    <3> QED
      BY <1>2, <2>1, <2>4, <3>1, <3>2 DEF Proper, Boots, Swapping, Watching, RollbackSteps, Less
  <2>6. \A q \in Slots : Proper(q)'
    BY <1>2, <2>1, <2>5, ProperOthers DEF Less
  <2> QED
    BY <1>1, <2>2, <2>3, <2>6, Assemble1
<1>5. CASE trusted' = trusted /\ Goes(p, "main", "check")
  BY <1>1, <1>2, <1>3, <1>5, CheckProper, MovesKeeps
<1> QED
  BY <1>1, <1>2, <1>4, <1>5, DiesKeeps

LEMMA HealthInv == ASSUME Inv1, NEW p \in Slots, VerifyHealth(p) PROVE Inv1'
<1>1. /\ TypeOK' /\ Less /\ trusted' = trusted /\ proc[p].verify = "wait"
      /\ \/ Healthy /\ Goes(p, "verify", "settle")
         \/ Goes(p, "verify", "check")
         \/ Dies(p)
  BY HealthEffect, InvParts, StillLess
<1>2. Proper(p) /\ Alive(p)
  BY <1>1, InvParts
<1>3. ASSUME Healthy, Goes(p, "verify", "settle")
      PROVE  Inv1'
  <2>1. proc[p].ver \in trusted
    BY <1>1, <1>2, <1>3 DEF Healthy, Proper
  <2>2. Proper(p)'
    BY <1>1, <1>2, <1>3, <2>1 DEF Goes, Moves, Less, Proper, Boots, Swapping, Watching, RollbackSteps
  <2> QED
    BY <1>1, <1>2, <1>3, <2>2, MovesKeeps
<1>4. ASSUME Goes(p, "verify", "check")
      PROVE  Inv1'
  <2>1. Proper(p)'
    BY <1>1, <1>2, <1>4 DEF Goes, Moves, Less, Proper, Boots, Swapping, Watching, RollbackSteps
  <2> QED
    BY <1>1, <1>2, <1>4, <2>1, MovesKeeps
<1> QED
  BY <1>1, <1>3, <1>4, DiesKeeps

LEMMA MarkerInv == ASSUME Inv1, NEW p \in Slots, CommitMarker(p) PROVE Inv1'
<1>1. /\ TypeOK' /\ proc[p].verify = "settle"
      /\ UNCHANGED <<file, world, trusted, upgrades, crashes>>
      /\ \/ Goes(p, "verify", "drop") /\ ~marker'
         \/ Goes(p, "verify", "off") /\ marker' = marker
  BY MarkerEffect, InvParts
<1>2. Less /\ trusted' = trusted
  BY <1>1 DEF Less, world
<1>3. Proper(p) /\ Alive(p)
  BY <1>1, InvParts
<1>4. PICK label \in {"drop", "off"} : Goes(p, "verify", label)
  BY <1>1
<1>5. Proper(p)'
  BY <1>1, <1>2, <1>3, <1>4 DEF Goes, Moves, Less, Proper, Boots, Swapping, Watching, RollbackSteps
<1> QED
  BY <1>1, <1>2, <1>3, <1>4, <1>5, MovesKeeps

LEMMA DropInv == ASSUME Inv1, NEW p \in Slots, CommitBackup(p) PROVE Inv1'
<1>1. /\ TypeOK' /\ proc[p].verify = "drop" /\ Goes(p, "verify", "off")
      /\ UNCHANGED <<marker, world, trusted, upgrades, crashes>>
      /\ file'.bak = None \/ file'.bak = file.bak
  BY DropEffect, InvParts
<1>2. Less /\ trusted' = trusted
  BY <1>1 DEF Less, world
<1>3. Proper(p) /\ Alive(p)
  BY <1>1, InvParts
<1>4. Proper(p)'
  BY <1>1, <1>2, <1>3 DEF Goes, Moves, Less, Proper, Boots, Swapping, Watching, RollbackSteps
<1> QED
  BY <1>1, <1>2, <1>3, <1>4, MovesKeeps

LEMMA RollbackInv == ASSUME Inv1, NEW p \in Slots, NEW g \in Goroutines, RollbackStep(p, g) PROVE Inv1'
<1>0. {"check", "park", "restore", "unpark", "unmark"} \subseteq RollbackSteps
  BY DEF RollbackSteps
<1>1. CASE RollbackCheck(p, g)
  <2>1. TypeOK' /\ Less /\ trusted' = trusted /\ At(p, g, "check") /\ (Dies(p) \/ Goes(p, g, "park"))
    BY <1>1, CheckEffect, InvParts, StillLess
  <2> QED
    BY <1>0, <2>1, DiesKeeps, RollsOn
<1>2. CASE RollbackPark(p, g)
  <2>1. /\ TypeOK' /\ At(p, g, "park") /\ (Dies(p) \/ Goes(p, g, "restore"))
        /\ UNCHANGED <<marker, world, trusted>> /\ file'.bak = file.bak
    BY <1>2, ParkEffect, InvParts
  <2>2. Less /\ trusted' = trusted
    BY <2>1 DEF Less, world
  <2> QED
    BY <1>0, <2>1, <2>2, DiesKeeps, RollsOn
<1>3. CASE RollbackRestore(p, g)
  <2>1. /\ TypeOK' /\ At(p, g, "restore")
        /\ (Goes(p, g, "unmark") /\ file'.bak = None) \/ (Goes(p, g, "unpark") /\ file'.bak = file.bak)
        /\ UNCHANGED <<marker, world, trusted>>
    BY <1>3, RestoreEffect, InvParts
  <2>2. Less /\ trusted' = trusted
    BY <2>1 DEF Less, world
  <2> QED
    BY <1>0, <2>1, <2>2, RollsOn
<1>4. CASE RollbackUnpark(p, g)
  <2>1. TypeOK' /\ Dies(p) /\ UNCHANGED <<marker, world, trusted>> /\ file'.bak = file.bak
    BY <1>4, UnparkEffect, InvParts
  <2>2. Less /\ trusted' = trusted
    BY <2>1 DEF Less, world
  <2> QED
    BY <2>1, <2>2, DiesKeeps
<1>5. CASE RollbackUnmark(p, g)
  <2>1. /\ TypeOK' /\ At(p, g, "unmark") /\ ~marker' /\ UNCHANGED <<file, world, trusted>>
        /\ Dies(p) \/ (g = "upgrade" /\ Goes(p, "upgrade", "respawn"))
    BY <1>5, UnmarkEffect, InvParts
  <2>2. Less /\ trusted' = trusted
    BY <2>1 DEF Less, world
  <2>3. ASSUME g = "upgrade", Goes(p, "upgrade", "respawn")
        PROVE  Inv1'
    <3>1. proc[p].upgrade = "unmark" /\ Upgrades(p, "respawn") /\ port' = port
      BY <2>1, <2>3, GoesUpgrades DEF At
    <3>2. file'.bak = None
      BY <2>1, <3>1 DEF Inv1, RolledBack
    <3>3. Proper(p)'
      BY <2>2, <3>1, InvParts DEF Less, Upgrades, Proper, RollbackSteps, Boots, Swapping, Watching
    <3>4. Watches(p) /\ "respawn" \in Watching /\ "respawn" \notin Swapping
      BY <3>1 DEF Watches, Watching, Swapping, RollbackSteps
    <3> QED
      BY <2>1, <2>2, <3>1, <3>2, <3>3, <3>4, UpgradesKeeps
  <2> QED
    BY <2>1, <2>2, <2>3, DiesKeeps
<1> QED
  BY <1>1, <1>2, <1>3, <1>4, <1>5 DEF RollbackStep

LEMMA StartInv == ASSUME Patient, Inv1, NEW p \in Slots, NEW v \in Versions, StartUpgrade(p, v) PROVE Inv1'
<1>1. /\ TypeOK' /\ UNCHANGED <<file, marker, port, world, trusted, faults, crashes>>
      /\ Upgrades(p, "download") /\ proc[p].main = "serving" /\ fate[proc[p].ver] = "good"
      /\ proc[p].verify = "off" /\ Company(p) = {}
  BY StartEffect, InvParts
<1>2. Proper(p)'
  BY <1>1, InvParts DEF Upgrades, Proper, Boots, Swapping, Watching, RollbackSteps, world
<1>3. Others(p) /\ proc'[p].upgrade = "download"
  BY <1>1 DEF Upgrades
<1>4. ~Watches(p)'
  BY <1>3 DEF Watches, Watching, RollbackSteps
<1> QED
  BY <1>1, <1>2, <1>3, <1>4, AloneInv DEF world

\* A step of a Swap, or of what comes before it.
LEMMA SwapsInv ==
  ASSUME Inv1, TypeOK', NEW p \in Slots, NEW old \in {"download", "mark", "backup", "stage", "unstage"},
         NEW label \in {"off", "mark", "backup", "stage", "unstage", "prepare"},
         proc[p].upgrade = old, Upgrades(p, label), UNCHANGED <<port, world, trusted>>
  PROVE  Inv1'
<1>1. Swaps(p) /\ Proper(p) /\ Company(p) = {}
  BY InvParts DEF Inv1, Swaps, Swapping, Alone
<1>2. Others(p) /\ proc'[p].upgrade = label
  BY DEF Upgrades
<1>3. ~Watches(p)' /\ label \notin {"unmark", "respawn"}
  BY <1>2 DEF Watches, Watching, RollbackSteps
<1>4. Proper(p)'
  BY <1>1 DEF Upgrades, Proper, Boots, Swapping, Watching, RollbackSteps, world
<1> QED
  BY <1>1, <1>2, <1>3, <1>4, AloneInv DEF world

LEMMA PrepareInv == ASSUME Inv1, NEW p \in Slots, Prepare(p) PROVE Inv1'
<1>1. /\ TypeOK' /\ Still /\ proc[p].upgrade = "prepare" /\ PortLeft(p)
      /\ Others(p) /\ proc'[p].ver = proc[p].ver /\ proc'[p].verify = proc[p].verify
      /\ proc'[p].main = "stopped" /\ proc'[p].upgrade = "restart"
  BY PrepareEffect, InvParts
<1>2. Swaps(p) /\ Proper(p) /\ Company(p) = {}
  BY <1>1, InvParts DEF Inv1, Swaps, Swapping, Alone
<1>3. ~Watches(p)'
  BY <1>1 DEF Watches, Watching, RollbackSteps
<1>4. Proper(p)'
  BY <1>1, <1>2 DEF Proper, Boots, Swapping, Watching, RollbackSteps, Still, world
<1> QED
  BY <1>1, <1>2, <1>3, <1>4, AloneInv DEF Still, world, PortLeft

\* The process that was started, and those that were there.
LEMMA SpawnProper ==
  ASSUME Inv1, NEW p \in Slots, NEW q \in Slots, NEW label \in {"watch", "watch previous"},
         Spawns(p, label, q), Runnable, Still, port' = port, proc[p].upgrade \in {"restart", "respawn"}
  PROVE  \A r \in Slots : Proper(r)'
<1>1. proc[p].main = "stopped" /\ proc[p].verify = "off" /\ proc[p].ver \in trusted
  BY InvParts DEF Proper, Watching
<1>2. Proper(p)'
  BY <1>1 DEF Spawns, Still, world, Proper, Boots, Swapping, Watching, RollbackSteps
<1>3. Proper(q)'
  BY DEF Spawns, Starts, Runnable, Still, world, Proper, Boots, Swapping, Watching, RollbackSteps
<1>4. ASSUME NEW r \in Slots \ {p, q}
      PROVE  Proper(r)'
  <2>1. Proper(r) /\ proc'[r] = proc[r]
    BY InvParts DEF Spawns
  <2> QED
    BY <2>1 DEF Still, world, Proper
<1> QED
  BY <1>2, <1>3, <1>4

LEMMA RestartInv == ASSUME Inv1, NEW p \in Slots, Restart(p) PROVE Inv1'
<1>1. /\ TypeOK' /\ Still /\ proc[p].upgrade = "restart"
      /\ \/ Dies(p)
         \/ ~supervised /\ port' = port /\ Upgrades(p, "check")
         \/ /\ ~supervised /\ port' = port /\ Runnable
            /\ \E q \in Slots : Spawns(p, "watch", q)
  BY RestartEffect, InvParts
<1>2. Swaps(p) /\ Proper(p) /\ Company(p) = {} /\ Alive(p)
  BY <1>1, InvParts DEF Inv1, Swaps, Swapping, Alone
<1>3. ASSUME ~supervised, port' = port, Upgrades(p, "check")
      PROVE  Inv1'
  <2>1. Others(p) /\ proc'[p].upgrade = "check"
    BY <1>3 DEF Upgrades
  <2>2. Proper(p)'
    BY <1>1, <1>2, <1>3 DEF Upgrades, Proper, Boots, Swapping, Watching, RollbackSteps, Still, world
  <2> QED
    BY <1>1, <1>2, <1>3, <2>1, <2>2, AloneInv DEF Still, world
<1>4. ASSUME ~supervised, port' = port, Runnable, NEW q \in Slots, Spawns(p, "watch", q)
      PROVE  Inv1'
  <2>1. \A r \in Slots \ {p, q} : ~Alive(r)' /\ proc'[r].upgrade = "off"
    BY <1>2, <1>4, NothingThere DEF Inv1, TypeOK, Spawns, Company, Alive
  <2>2. /\ proc'[p].upgrade = "watch" /\ proc'[q].upgrade = "off" /\ p # q
        /\ supervised' = supervised
    BY <1>1, <1>4 DEF Spawns, Starts, Still, world
  <2>3. Company(p)' \subseteq {q}
    BY <2>1 DEF Company
  <2>4. Alone'
    BY <1>4, <2>1, <2>2 DEF Alone, Swaps, Swapping
  <2>5. Watched'
    BY <2>1, <2>2, <2>3 DEF Watched, Watches, Watching, RollbackSteps
  <2>6. OneTrial'
    BY <2>1, <2>2 DEF OneTrial, Watches, Watching
  <2>7. RolledBack'
    BY <2>1, <2>2 DEF RolledBack
  <2>8. \A r \in Slots : Proper(r)'
    BY <1>1, <1>4, SpawnProper
  <2> QED
    BY <1>1, <2>4, <2>5, <2>6, <2>7, <2>8 DEF Inv1
<1> QED
  BY <1>1, <1>3, <1>4, DiesKeeps, StillLess

LEMMA WatchInv == ASSUME Inv1, NEW p \in Slots, Watch(p) PROVE Inv1'
<1>1. /\ TypeOK' /\ Less /\ trusted' = trusted /\ proc[p].upgrade = "watch"
      /\ Dies(p) \/ (port' = port /\ Upgrades(p, "check"))
  BY WatchEffect, InvParts, StillLess
<1>2. ASSUME port' = port, Upgrades(p, "check")
      PROVE  Inv1'
  <2>1. Watches(p) /\ "check" \in Watching /\ "check" \notin Swapping
    BY <1>1 DEF Watches, Watching, Swapping, RollbackSteps
  <2>2. Proper(p)'
    BY <1>1, <1>2, InvParts DEF Less, Upgrades, Proper, RollbackSteps, Boots, Swapping, Watching
  <2> QED
    BY <1>1, <1>2, <2>1, <2>2, UpgradesKeeps
<1> QED
  BY <1>1, <1>2, DiesKeeps

LEMMA RespawnInv == ASSUME Inv1, NEW p \in Slots, Respawn(p) PROVE Inv1'
<1>1. /\ TypeOK' /\ Still /\ proc[p].upgrade = "respawn"
      /\ \/ Dies(p)
         \/ /\ port' = port /\ Runnable
            /\ \E q \in Slots : Spawns(p, "watch previous", q)
  BY RespawnEffect, InvParts
<1>2. ASSUME port' = port, Runnable, NEW q \in Slots, Spawns(p, "watch previous", q)
      PROVE  Inv1'
  <2>1. Watches(p) /\ Alive(p) /\ file.bak = None /\ ~marker
    BY <1>1, InvParts DEF Watches, Watching, Inv1, RolledBack
  <2>2. ~supervised
    BY <2>1 DEF Inv1, Alone
  <2>3. \A r \in Slots \ {p} : Alive(r) => proc[r].upgrade = "off"
    BY <2>1 DEF Inv1, Watched, Company
  <2>4. ASSUME NEW r \in Slots
        PROVE  proc'[r].upgrade \in {"off", "watch previous"}
    <3>1. CASE r \in {p, q}
      BY <1>2, <3>1 DEF Spawns, Starts
    <3>2. CASE r \notin {p, q} /\ Alive(r)
      BY <1>2, <2>3, <3>2 DEF Spawns
    <3>3. CASE r \notin {p, q} /\ ~Alive(r)
      <4>1. proc[r] = NoProcess /\ proc'[r] = proc[r]
        BY <1>2, <3>3 DEF Spawns, Inv1, TypeOK, Alive
      <4> QED
        BY <4>1, NothingThere
    <3> QED
      BY <3>1, <3>2, <3>3
  <2>5. /\ \A r \in Slots : ~Swaps(r)' /\ ~Watches(r)'
        /\ supervised' = supervised /\ file' = file /\ marker' = marker
    BY <1>1, <2>4 DEF Swaps, Swapping, Watches, Watching, RollbackSteps, Still, world
  <2>6. Alone' /\ Watched'
    BY <2>2, <2>5 DEF Alone, Watched
  <2>7. OneTrial' /\ RolledBack'
    BY <2>1, <2>4, <2>5 DEF OneTrial, RolledBack
  <2>8. \A r \in Slots : Proper(r)'
    BY <1>1, <1>2, SpawnProper
  <2> QED
    BY <1>1, <2>6, <2>7, <2>8 DEF Inv1
<1> QED
  BY <1>1, <1>2, DiesKeeps, StillLess

LEMMA ServiceInv == ASSUME Inv1, ServiceStart PROVE Inv1'
<1>1. /\ TypeOK' /\ Still /\ port' = port /\ Runnable
      /\ \A r \in Slots : ~Alive(r)
  BY ServiceEffect DEF Inv1
<1>2. PICK q \in Slots : Starts(q) /\ Others(q)
  BY ServiceEffect DEF Inv1
<1>3. Company(q) = {} /\ proc'[q].upgrade = "off"
  BY <1>1, <1>2 DEF Company, Starts
<1>4. ~Watches(q)'
  BY <1>3 DEF Watches, Watching, RollbackSteps
<1>5. Proper(q)'
  BY <1>1, <1>2 DEF Starts, Runnable, Still, world, Proper, Boots, Swapping, Watching, RollbackSteps
<1> QED
  BY <1>1, <1>2, <1>3, <1>4, <1>5, AloneInv DEF Still, world

LEMMA GoneInv ==
  ASSUME TypeOK', \A p \in Slots : proc'[p] = NoProcess
  PROVE  Inv1'
<1>1. \A p \in Slots : /\ ~Alive(p)' /\ ~Swaps(p)' /\ ~Watches(p)'
                       /\ proc'[p].upgrade = "off"
  BY NothingThere DEF Alive, Swaps, Watches, Swapping, Watching, RollbackSteps
<1>2. Alone' /\ Watched' /\ OneTrial' /\ RolledBack'
  BY <1>1 DEF Alone, Watched, OneTrial, RolledBack
<1> QED
  BY <1>2, ProperNone DEF Inv1

LEMMA InitInv == Init => Inv1
<1> SUFFICES ASSUME Init
             PROVE  Inv1
  OBVIOUS
<1>1. TypeOK /\ port \in Slots
  BY InitTyped, UpgradeAssumption DEF Init, UpgradeAssumption
<1> DEFINE P == [NoProcess EXCEPT !.ver = Installed, !.main = "serving"]
<1>2. P.ver = Installed /\ P.main = "serving" /\ P.verify = "off" /\ P.upgrade = "off"
  BY DEF NoProcess
<1>3. proc = [q \in Slots |-> IF q = port THEN P ELSE NoProcess]
  BY DEF Init
<1> HIDE DEF P
<1>4. /\ \A q \in Slots : proc[q].upgrade = "off"
      /\ \A q \in Slots : Alive(q) => q = port
  BY <1>2, <1>3, NothingThere DEF Alive
<1>5. \A q \in Slots : ~Swaps(q) /\ ~Watches(q)
  BY <1>4 DEF Swaps, Watches, Swapping, Watching, RollbackSteps
<1>6. Alone /\ Watched /\ OneTrial /\ RolledBack
  BY <1>4, <1>5 DEF Alone, Watched, OneTrial, RolledBack, Company
<1>7. ASSUME NEW q \in Slots
      PROVE  Proper(q)
  <2>1. CASE q = port
    <3>1. fate[Installed] = "good" /\ Installed \in trusted
      BY DEF Init
    <3> QED
      BY <1>2, <1>3, <2>1, <3>1 DEF Proper, Boots, Swapping, Watching, RollbackSteps
  <2>2. CASE q # port
    BY <1>3, <2>2, NothingThere DEF Proper, Boots, Swapping, Watching, RollbackSteps
  <2> QED
    BY <2>1, <2>2
<1> QED
  BY <1>1, <1>6, <1>7 DEF Inv1

LEMMA NextInv == ASSUME Patient PROVE Inv1 /\ [Next]_vars => Inv1'
<1> SUFFICES ASSUME Inv1, [Next]_vars
             PROVE  Inv1'
  OBVIOUS
<1>1. ASSUME NEW p \in Slots, Step(p)
      PROVE  Inv1'
  <2>1. CASE MainStep(p)
    BY <2>1, OpenInv, MigrateInv, AssembleInv, BindInv DEF MainStep
  <2>2. CASE VerifyStep(p)
    BY <2>2, HealthInv, MarkerInv, DropInv DEF VerifyStep
  <2>3. CASE Download(p) \/ WriteMarker(p) \/ SwapBackup(p) \/ SwapStage(p) \/ SwapUnstage(p)
    <3>1. CASE Download(p)
      BY <3>1, DownloadEffect, SwapsInv, InvParts
    <3>2. CASE WriteMarker(p)
      BY <3>2, WriteEffect, SwapsInv, InvParts
    <3>3. CASE SwapBackup(p)
      BY <3>3, BackupEffect, SwapsInv, InvParts
    <3>4. CASE SwapStage(p)
      BY <3>4, StageEffect, SwapsInv, InvParts
    <3>5. CASE SwapUnstage(p)
      BY <3>5, UnstageEffect, SwapsInv, InvParts
    <3> QED
      BY <2>3, <3>1, <3>2, <3>3, <3>4, <3>5
  <2>4. CASE WatchPrevious(p)
    BY <2>4, PreviousEffect, DiesKeeps, StillLess, InvParts
  <2>5. CASE Prepare(p) \/ Restart(p) \/ Watch(p) \/ Respawn(p)
    BY <2>5, PrepareInv, RestartInv, WatchInv, RespawnInv
  <2>6. CASE \E g \in Goroutines : RollbackStep(p, g)
    BY <2>6, RollbackInv
  <2> QED
    BY <1>1, <2>1, <2>2, <2>3, <2>4, <2>5, <2>6 DEF Step, UpgradeStep
<1>2. CASE \E p \in Slots, v \in Versions : StartUpgrade(p, v)
  BY <1>2, StartInv
<1>3. CASE Crash
  BY <1>3, CrashEffect, GoneInv DEF Inv1
<1>4. CASE UNCHANGED vars
  <2>1. /\ UNCHANGED <<file, marker, proc, port, trusted, upgrades, faults, crashes>>
        /\ UNCHANGED <<fate, supervised>>
    BY <1>4 DEF vars, world
  <2>2. TypeOK'
    BY <2>1 DEF Inv1, TypeOK
  <2>3. \A p \in Slots : Proper(p)'
    BY <2>1 DEF Inv1, Proper
  <2>4. Alone' /\ Watched' /\ OneTrial' /\ RolledBack'
    BY <2>1 DEF Inv1, Alone, Watched, OneTrial, RolledBack, Swaps, Watches, Company, Alive
  <2> QED
    BY <2>2, <2>3, <2>4 DEF Inv1
<1> QED
  BY <1>1, <1>2, <1>3, <1>4, ServiceInv DEF Next
-----------------------------------------------------------------------------
(***************************************************************************)
(* What the files hold.                                                    *)
(***************************************************************************)

\* Faults and power losses are counted and never forgotten.
LEMMA CalmBefore ==
  ASSUME TypeOK, TypeOK', supervised' = supervised,
         faults' = faults \/ faults' = faults + 1, crashes' = crashes \/ crashes' = crashes + 1
  PROVE  /\ Undisturbed' => Undisturbed
         /\ Undisturbed' /\ (faults' = faults + 1 \/ crashes' = crashes + 1) => supervised
BY TypeParts DEF Rest, Undisturbed

\* What a process may be about has no part in a dead one.
LEMMA DeadIdle ==
  ASSUME Inv1, NEW p \in Slots
  PROVE  /\ Away(p) \/ Late(p) \/ Trial(p) => Alive(p)
         /\ Doing(p, {"restore"}) \/ Doing(p, {"unpark"}) => Away(p) /\ Late(p)
         /\ proc[p].upgrade \in {"download", "mark", "backup", "stage", "unstage"} => Alive(p) /\ Company(p) = {}
<1>1. proc[p].main # "off" \/ proc[p].verify # "off" \/ proc[p].upgrade # "off" => Alive(p)
  BY InvParts
<1>2. Away(p) \/ Late(p) \/ Trial(p) => Alive(p)
  BY <1>1 DEF Away, Late, Trial, Doing, Boots
<1>3. Doing(p, {"restore"}) \/ Doing(p, {"unpark"}) => Away(p) /\ Late(p)
  BY DEF Away, Late, Doing
<1>4. proc[p].upgrade \in {"download", "mark", "backup", "stage", "unstage"} => Swaps(p) /\ Alive(p)
  BY <1>1 DEF Swaps, Swapping
<1> QED
  BY <1>2, <1>3, <1>4 DEF Inv1, Alone

LEMMA DeadIdleNext ==
  ASSUME NEW p \in Slots, proc'[p] = NoProcess
  PROVE  /\ ~Away(p)' /\ ~Late(p)' /\ ~Trial(p)' /\ ~Alive(p)' /\ proc'[p].upgrade = "off"
         /\ ~Doing(p, {"restore"})' /\ ~Doing(p, {"unpark"})'
BY NothingThere DEF Away, Late, Trial, Doing, Boots, Alive

\* While there is something to roll back, no three processes are alive.
LEMMA AtMostTwo ==
  ASSUME Inv1, marker \/ file.bak # None, NEW p \in Slots, NEW q \in Slots, NEW r \in Slots,
         Alive(p), Alive(q), Alive(r)
  PROVE  p = q \/ q = r \/ p = r
<1>1. \A x, y \in Slots : Alive(x) /\ Alive(y) /\ ~Watches(x) /\ ~Watches(y) => x = y
  BY DEF Inv1, OneTrial
<1>2. \A x \in Slots : Watches(x) => \A y, z \in Slots : Alive(y) /\ Alive(z) /\ y # x /\ z # x => y = z
  BY DEF Inv1, Watched, Company
<1> QED
  BY <1>1, <1>2

\* What a goroutine that rolls back says about its process.
LEMMA RollsOnly ==
  ASSUME Inv1, NEW p \in Slots, NEW g \in Goroutines, NEW old \in RollbackSteps, At(p, g, old)
  PROVE  /\ Alive(p) /\ ~Trial(p)
         /\ Away(p) <=> old \in {"restore", "unpark"}
         /\ Late(p) <=> old \in {"park", "restore", "unpark"}
         /\ Doing(p, {"restore"}) <=> old = "restore"
         /\ Doing(p, {"unpark"}) <=> old = "unpark"
         /\ proc[p].upgrade \notin {"download", "mark", "backup", "stage", "unstage"}
<1>1. Proper(p) /\ Alive(p)
  BY InvParts DEF At, RollbackSteps
<1>2. CASE g = "main" /\ proc[p].main = old
  <2>1. proc[p].verify = "off" /\ proc[p].upgrade = "off"
    BY <1>1, <1>2, TypeParts DEF Proper, RollbackSteps, Swapping, Watching, Inv1, Procs, Process
  <2> QED
    BY <1>1, <1>2, <2>1 DEF Trial, Away, Late, Doing, Boots, RollbackSteps
<1>3. CASE g = "verify" /\ proc[p].verify = old
  <2>1. proc[p].main = "serving" /\ proc[p].upgrade = "off"
    BY <1>1, <1>3 DEF Proper, RollbackSteps
  <2> QED
    BY <1>1, <1>3, <2>1 DEF Trial, Away, Late, Doing, Boots, RollbackSteps
<1>4. CASE g = "upgrade" /\ proc[p].upgrade = old
  <2>1. proc[p].main = "stopped" /\ proc[p].verify = "off"
    BY <1>1, <1>4 DEF Proper, RollbackSteps, Watching
  <2> QED
    BY <1>1, <1>4, <2>1 DEF Trial, Away, Late, Doing, Boots, RollbackSteps
<1> QED
  BY <1>2, <1>3, <1>4 DEF At, Goroutines

LEMMA RollsOnlyNext ==
  ASSUME Inv1, NEW p \in Slots, NEW g \in Goroutines, NEW old \in RollbackSteps, At(p, g, old),
         NEW label \in RollbackSteps, Goes(p, g, label)
  PROVE  /\ ~Trial(p)' /\ Alive(p)'
         /\ Away(p)' <=> label \in {"restore", "unpark"}
         /\ Late(p)' <=> label \in {"park", "restore", "unpark"}
         /\ Doing(p, {"restore"})' <=> label = "restore"
         /\ Doing(p, {"unpark"})' <=> label = "unpark"
         /\ proc'[p].upgrade \notin {"download", "mark", "backup", "stage", "unstage"}
<1>1. Proper(p) /\ Alive(p)
  BY InvParts DEF At, RollbackSteps
<1>2. CASE g = "main" /\ proc[p].main = old
  <2>1. proc[p].verify = "off" /\ proc[p].upgrade = "off"
    BY <1>1, <1>2, TypeParts DEF Proper, RollbackSteps, Swapping, Watching, Inv1, Procs, Process
  <2>2. /\ proc'[p].main = label /\ proc'[p].verify = "off" /\ proc'[p].upgrade = "off"
        /\ proc'[p].ver = proc[p].ver
    BY <1>2, <2>1 DEF Goes, Moves
  <2> QED
    BY <1>1, <2>2 DEF Trial, Away, Late, Doing, Boots, RollbackSteps, Alive
<1>3. CASE g = "verify" /\ proc[p].verify = old
  <2>1. proc[p].main = "serving" /\ proc[p].upgrade = "off"
    BY <1>1, <1>3 DEF Proper, RollbackSteps
  <2>2. /\ proc'[p].main = "serving" /\ proc'[p].verify = label /\ proc'[p].upgrade = "off"
        /\ proc'[p].ver = proc[p].ver
    BY <1>3, <2>1 DEF Goes, Moves
  <2> QED
    BY <1>1, <2>2 DEF Trial, Away, Late, Doing, Boots, RollbackSteps, Alive
<1>4. CASE g = "upgrade" /\ proc[p].upgrade = old
  <2>1. proc[p].main = "stopped" /\ proc[p].verify = "off"
    BY <1>1, <1>4 DEF Proper, RollbackSteps, Watching
  <2>2. /\ proc'[p].main = "stopped" /\ proc'[p].verify = "off" /\ proc'[p].upgrade = label
        /\ proc'[p].ver = proc[p].ver
    BY <1>4, <2>1 DEF Goes, Moves
  <2> QED
    BY <1>1, <2>2 DEF Trial, Away, Late, Doing, Boots, RollbackSteps, Alive
<1> QED
  BY <1>2, <1>3, <1>4 DEF At, Goroutines
-----------------------------------------------------------------------------
SameFiles ==
  /\ file'.exe = file.exe /\ file'.bak = file.bak /\ file'.failed = file.failed
  /\ crashes' = crashes /\ supervised' = supervised

\* A step of p that takes no file in hand.
Quiet(p) ==
  /\ Others(p) /\ SameFiles /\ trusted \subseteq trusted'
  /\ Alive(p)' => Alive(p)
  /\ Away(p)' <=> Away(p)
  /\ proc'[p].upgrade \in {"stage", "unstage"} => proc[p].upgrade \in {"stage", "unstage"}
  /\ Doing(p, {"unpark"})' => Doing(p, {"unpark"})
  /\ Doing(p, {"restore"})' => Doing(p, {"restore"})
  /\ Late(p)' => Late(p) \/ file.bak # None
  /\ Trial(p)' => Trial(p) /\ proc'[p].ver = proc[p].ver
  /\ proc'[p].upgrade \in {"download", "mark", "backup"} =>
       proc[p].upgrade \in {"download", "mark", "backup"} /\ proc'[p].ver = proc[p].ver

LEMMA QuietKeeps ==
  ASSUME Files, NEW p \in Slots, Quiet(p)
  PROVE  Files'
<1>1. ASSUME NEW q \in Slots
      PROVE  /\ Away(q)' <=> Away(q)
             /\ Alive(q)' => Alive(q)
             /\ proc'[q].upgrade \in {"stage", "unstage"} => proc[q].upgrade \in {"stage", "unstage"}
             /\ Doing(q, {"unpark"})' => Doing(q, {"unpark"})
             /\ Doing(q, {"restore"})' => Doing(q, {"restore"})
             /\ Late(q)' => Late(q) \/ file.bak # None
             /\ Trial(q)' => Trial(q) /\ proc'[q].ver = proc[q].ver
             /\ proc'[q].upgrade \in {"download", "mark", "backup"} =>
                  proc[q].upgrade \in {"download", "mark", "backup"} /\ proc'[q].ver = proc[q].ver
  <2>1. CASE q = p
    BY <2>1 DEF Quiet
  <2>2. CASE q # p
    <3>1. proc'[q] = proc[q]
      BY <2>2 DEF Quiet, Others
    <3> QED
      BY <3>1 DEF Away, Late, Trial, Doing, Alive
  <2> QED
    BY <2>1, <2>2
<1>2. \A q \in Slots : Company(q)' \subseteq Company(q)
  BY <1>1 DEF Company
<1>3. SameFiles /\ trusted \subseteq trusted'
  BY DEF Quiet
<1>4. Taken'
  BY <1>1, <1>3 DEF Files, Taken, SameFiles
<1>5. Trusty'
  BY <1>1, <1>3 DEF Files, Trusty, SameFiles
<1>6. Parked'
  BY <1>1, <1>2, <1>3 DEF Files, Parked, SameFiles
<1>7. OneLate'
  BY <1>1, <1>3 DEF Files, OneLate, SameFiles
<1>8. OnTrial'
  BY <1>1, <1>3 DEF Files, OnTrial, SameFiles
<1>9. Ready'
  BY <1>1, <1>3 DEF Files, Ready, SameFiles
<1> QED
  BY <1>4, <1>5, <1>6, <1>7, <1>8, <1>9 DEF Files

\* The death of a process that holds no file.
LEMMA DeathKeeps ==
  ASSUME Files, NEW p \in Slots, Dies(p), ~Away(p), SameFiles, trusted' = trusted
  PROVE  Files'
<1>1. Others(p) /\ proc'[p] = NoProcess
  BY DEF Dies, Ends
<1>2. Quiet(p)
  BY <1>1, DeadIdleNext DEF Quiet
<1> QED
  BY <1>2, QuietKeeps

\* The step of a process that is alone and not rolling back.
LEMMA AloneFiles ==
  ASSUME TypeOK', NEW p \in Slots, Others(p), Company(p) = {}, ~Trial(p)', ~Late(p)',
         IF Away(p)' THEN file'.exe = None /\ file'.bak # None ELSE file'.exe = None => crashes' # 0,
         file'.bak # None => file'.bak \in trusted',
         file'.bak = None => file'.exe \in trusted',
         proc'[p].upgrade \in {"download", "mark", "backup"} => file'.exe = proc'[p].ver
  PROVE  Files'
<1>1. ASSUME NEW q \in Slots \ {p}
      PROVE  proc'[q] = NoProcess
  BY DEF Others, Company, Alive, TypeOK
<1>2. ASSUME NEW q \in Slots \ {p}
      PROVE  /\ ~Away(q)' /\ ~Late(q)' /\ ~Trial(q)' /\ proc'[q].upgrade = "off"
             /\ ~Doing(q, {"restore"})' /\ ~Doing(q, {"unpark"})'
  BY <1>1, DeadIdleNext
<1>3. ~Doing(p, {"restore"})' /\ ~Doing(p, {"unpark"})'
  BY DEF Late, Doing
<1>4. proc'[p].upgrade \in {"stage", "unstage"} => Away(p)'
  BY DEF Away
<1>5. Taken'
  BY <1>2 DEF Taken
<1>6. Trusty'
  BY <1>2, <1>4 DEF Trusty
<1>7. Parked'
  BY <1>2, <1>3 DEF Parked
<1>8. OneLate' /\ OnTrial' /\ Ready'
  BY <1>2 DEF OneLate, OnTrial, Ready
<1> QED
  BY <1>5, <1>6, <1>7, <1>8 DEF Files

\* A process is started from an executable that is in place.
LEMMA StartFiles ==
  ASSUME Files, SameFiles, trusted' = trusted, file.exe # None,
         \A r \in Slots : /\ ~Away(r)'
                          /\ Late(r)' => Late(r)
                          /\ Trial(r)' => proc'[r].ver = file.exe \/ (Trial(r) /\ proc'[r].ver = proc[r].ver)
                          /\ proc'[r].upgrade \notin {"download", "mark", "backup"}
  PROVE  Files'
<1>1. \A r \in Slots : ~Away(r)
  BY DEF Files, Taken
<1>2. ASSUME NEW r \in Slots
      PROVE  ~Doing(r, {"restore"})' /\ ~Doing(r, {"unpark"})' /\ proc'[r].upgrade \notin {"stage", "unstage"}
  BY DEF Away, Doing
<1>3. Taken'
  BY DEF Taken, SameFiles
<1>4. Trusty'
  BY <1>1, <1>2 DEF Files, Trusty, SameFiles
<1>5. Parked'
  BY <1>2 DEF Parked
<1>6. OneLate'
  BY DEF Files, OneLate, SameFiles
<1>7. OnTrial'
  BY <1>1 DEF Files, OnTrial, SameFiles
<1>8. Ready'
  BY DEF Ready
<1> QED
  BY <1>3, <1>4, <1>5, <1>6, <1>7, <1>8 DEF Files
-----------------------------------------------------------------------------
LEMMA StillFiles ==
  ASSUME Still, crashes' = crashes
  PROVE  SameFiles /\ trusted' = trusted
BY DEF Still, SameFiles, world

\* The main goroutine goes on starting, or gives up.
LEMMA MainQuiet ==
  ASSUME Inv1, NEW p \in Slots, NEW label \in Boots \cup {"check"}, Goes(p, "main", label),
         proc[p].main \in Boots, SameFiles, trusted' = trusted
  PROVE  Quiet(p)
<1>1. proc[p].verify = "off" /\ proc[p].upgrade = "off"
  BY InvParts, TypeParts DEF Proper, Boots, RollbackSteps, Swapping, Watching, Procs, Process
<1>2. /\ Others(p) /\ proc'[p].ver = proc[p].ver /\ proc'[p].main = label
      /\ proc'[p].verify = "off" /\ proc'[p].upgrade = "off"
  BY <1>1 DEF Goes, Moves
<1>3. ~Away(p) /\ ~Away(p)' /\ ~Late(p)' /\ Trial(p)
  BY <1>1, <1>2 DEF Away, Late, Trial, Doing, Boots
<1>4. ~Doing(p, {"unpark"})' /\ ~Doing(p, {"restore"})'
  BY <1>2 DEF Doing, Boots
<1>5. Alive(p)' => Alive(p)
  BY <1>2 DEF Alive
<1> QED
  BY <1>1, <1>2, <1>3, <1>4, <1>5 DEF Quiet

LEMMA BootNotAway ==
  ASSUME Inv1, NEW p \in Slots, proc[p].main \in Boots
  PROVE  ~Away(p)
<1>1. proc[p].verify = "off" /\ proc[p].upgrade = "off"
  BY InvParts, TypeParts DEF Proper, Boots, RollbackSteps, Swapping, Watching, Procs, Process
<1> QED
  BY <1>1 DEF Away, Doing, Boots

LEMMA MainFiles ==
  ASSUME Inv1, Files, NEW p \in Slots, MainStep(p)
  PROVE  Files'
<1>1. CASE OpenDatabase(p) \/ Migrate(p) \/ Assemble(p)
  <2>1. /\ Still /\ proc[p].main \in Boots
        /\ Dies(p) \/ \E label \in Boots \cup {"check"} : Goes(p, "main", label)
    BY <1>1, OpenEffect, MigrateEffect, AssembleEffect, InvParts DEF Boots
  <2>2. SameFiles /\ trusted' = trusted
    BY <2>1, StillFiles DEF Still
  <2> QED
    BY <2>1, <2>2, MainQuiet, QuietKeeps, BootNotAway, DeathKeeps
<1>2. CASE Bind(p)
  <2>1. /\ TypeOK' /\ proc[p].main = "bind" /\ UNCHANGED <<file, marker, world, upgrades, faults, crashes>>
        /\ \/ Serves(p)
           \/ trusted' = trusted /\ (Dies(p) \/ Goes(p, "main", "check"))
    BY <1>2, BindEffect, InvParts
  <2>2. SameFiles /\ proc[p].main \in Boots
    BY <2>1 DEF SameFiles, world, Boots
  <2>3. CASE Serves(p)
    <3>1. proc[p].upgrade = "off"
      BY <2>2, InvParts, TypeParts DEF Proper, Boots, RollbackSteps, Swapping, Watching, Procs, Process
    <3>2. /\ Others(p) /\ proc'[p].ver = proc[p].ver /\ proc'[p].main = "serving" /\ proc'[p].upgrade = "off"
          /\ proc'[p].verify \in {"wait", "off"} /\ trusted \subseteq trusted'
      BY <2>3, <3>1 DEF Serves
    <3>3. ~Away(p)' /\ ~Late(p)' /\ ~Doing(p, {"unpark"})' /\ ~Doing(p, {"restore"})'
      BY <3>2 DEF Away, Late, Doing
    <3>4. Trial(p) /\ (Alive(p)' => Alive(p))
      BY <2>2, <3>2 DEF Trial, Alive
    <3>5. Quiet(p)
      BY <2>2, <3>2, <3>3, <3>4, BootNotAway DEF Quiet
    <3> QED
      BY <3>5, QuietKeeps
  <2> QED
    BY <2>1, <2>2, <2>3, MainQuiet, QuietKeeps, BootNotAway, DeathKeeps
<1> QED
  BY <1>1, <1>2 DEF MainStep

\* The verifying goroutine before it rolls back.
LEMMA VerifyingIs ==
  ASSUME Inv1, NEW p \in Slots, proc[p].verify \in {"wait", "settle", "drop"}
  PROVE  proc[p].main = "serving" /\ proc[p].upgrade = "off" /\ ~Away(p) /\ ~Late(p) /\ Trial(p) /\ Alive(p)
<1>1. proc[p].main = "serving" /\ proc[p].upgrade = "off" /\ Alive(p)
  BY InvParts, TypeParts DEF Proper, RollbackSteps, Swapping, Watching, Procs, Process
<1> QED
  BY <1>1 DEF Away, Late, Trial, Doing

LEMMA VerifyQuiet ==
  ASSUME Inv1, NEW p \in Slots, proc[p].verify \in {"wait", "settle", "drop"},
         NEW label \in {"off", "settle", "drop", "check"}, Goes(p, "verify", label),
         SameFiles, trusted' = trusted
  PROVE  Quiet(p)
<1>1. proc[p].main = "serving" /\ proc[p].upgrade = "off" /\ ~Away(p) /\ Trial(p)
  BY VerifyingIs
<1>2. /\ Others(p) /\ proc'[p].ver = proc[p].ver /\ proc'[p].main = "serving"
      /\ proc'[p].verify = label /\ proc'[p].upgrade = "off"
  BY <1>1 DEF Goes, Moves
<1>3. ~Away(p)' /\ ~Late(p)' /\ ~Doing(p, {"unpark"})' /\ ~Doing(p, {"restore"})'
  BY <1>2 DEF Away, Late, Doing
<1>4. Alive(p)' => Alive(p)
  BY <1>2 DEF Alive
<1> QED
  BY <1>1, <1>2, <1>3, <1>4 DEF Quiet

LEMMA HealthFiles ==
  ASSUME Inv1, Files, NEW p \in Slots, VerifyHealth(p) \/ CommitMarker(p)
  PROVE  Files'
<1>1. /\ proc[p].verify \in {"wait", "settle"} /\ SameFiles /\ trusted' = trusted
      /\ Dies(p) \/ \E label \in {"off", "settle", "drop", "check"} : Goes(p, "verify", label)
  <2>1. CASE VerifyHealth(p)
    BY <2>1, HealthEffect, InvParts, StillFiles DEF Still
  <2>2. CASE CommitMarker(p)
    BY <2>2, MarkerEffect, InvParts DEF SameFiles, world
  <2> QED
    BY <2>1, <2>2
<1> QED
  BY <1>1, VerifyQuiet, QuietKeeps, VerifyingIs, DeathKeeps

\* Commit drops the backup of a release that serves and is the executable, or that the
\* watching process has just parked.
LEMMA DropFiles ==
  ASSUME Inv1, Files, Undisturbed', NEW p \in Slots, CommitBackup(p)
  PROVE  Files'
<1>1. /\ TypeOK' /\ proc[p].verify = "drop" /\ Goes(p, "verify", "off")
      /\ UNCHANGED <<marker, world, trusted, upgrades, crashes>>
      /\ file'.exe = file.exe /\ file'.failed = file.failed
      /\ file'.bak = None \/ file'.bak = file.bak
  BY DropEffect, InvParts
<1>2. /\ proc[p].main = "serving" /\ proc[p].upgrade = "off" /\ ~Away(p) /\ ~Late(p) /\ Trial(p) /\ Alive(p)
      /\ proc[p].ver \in trusted
  BY <1>1, VerifyingIs, InvParts DEF Proper
<1>3. CASE file'.bak = file.bak
  <2>1. SameFiles
    BY <1>1, <1>3 DEF SameFiles, world
  <2> QED
    BY <1>1, <2>1, VerifyQuiet, QuietKeeps
<1>4. CASE file.bak # None /\ file'.bak = None
  <2>1. /\ Others(p) /\ proc'[p].ver = proc[p].ver /\ proc'[p].main = "serving"
        /\ proc'[p].verify = "off" /\ proc'[p].upgrade = "off"
    BY <1>1, <1>2 DEF Goes, Moves
  <2>2. ~Away(p)' /\ ~Late(p)' /\ ~Doing(p, {"unpark"})' /\ ~Doing(p, {"restore"})'
    BY <2>1 DEF Away, Late, Doing
  <2>3. ASSUME NEW q \in Slots
        PROVE  /\ Away(q)' <=> Away(q)
               /\ Late(q)' => Late(q) /\ q # p
               /\ Doing(q, {"unpark"})' => Doing(q, {"unpark"})
               /\ Doing(q, {"restore"})' => Doing(q, {"restore"})
               /\ proc'[q].upgrade \notin {"download", "mark", "backup", "stage", "unstage"}
    <3>1. CASE q = p
      BY <1>2, <2>1, <2>2, <3>1
    <3>2. CASE q # p
      <4>1. proc'[q] = proc[q]
        BY <2>1, <3>2 DEF Others
      <4>2. p \in Company(q)
        BY <1>2, <3>2 DEF Company
      <4>3. proc[q].upgrade \notin {"download", "mark", "backup", "stage", "unstage"}
        BY <4>2, DeadIdle
      <4> QED
        BY <3>2, <4>1, <4>3 DEF Away, Late, Doing
    <3> QED
      BY <3>1, <3>2
  <2>4. ASSUME NEW q \in Slots \ {p}, Alive(q)
        PROVE  ~supervised
    BY <1>2, <2>4 DEF Inv1, Alone, Company
  <2>5. Taken'
    BY <1>1, <2>3 DEF Files, Taken
  <2>6. Trusty'
    <3>1. file.exe = proc[p].ver \/ (file.failed = proc[p].ver /\ \E y \in Slots : Away(y))
      BY <1>2, <1>4 DEF Files, OnTrial
    <3>2. (\E y \in Slots : Away(y)) => ~supervised /\ \E y \in Slots : Away(y)'
      BY <1>2, <2>3, <2>4, DeadIdle
    <3> QED
      BY <1>1, <1>2, <1>4, <2>3, <3>1, <3>2 DEF Trusty, world
  <2>7. Parked'
    <3>1. ASSUME NEW q \in Slots, Doing(q, {"restore"}), file.failed = None
          PROVE  FALSE
      <4>1. Company(q) = {}
        BY <3>1 DEF Files, Parked
      <4>2. q # p
        BY <1>2, <3>1, DeadIdle
      <4> QED
        BY <1>2, <4>1, <4>2 DEF Company
    <3> QED
      BY <1>1, <1>4, <2>3, <3>1 DEF Files, Parked
  <2>8. OneLate'
    <3>1. \A q, r \in Slots : Late(q)' /\ Late(r)' => q = r
      BY <1>2, <1>4, <2>3, AtMostTwo, DeadIdle
    <3>2. supervised => \A q \in Slots : ~Late(q)'
      BY <2>3, <2>4, DeadIdle
    <3> QED
      BY <1>1, <3>1, <3>2 DEF OneLate, world
  <2>9. OnTrial' /\ Ready'
    BY <1>4, <2>3 DEF OnTrial, Ready
  <2> QED
    BY <2>5, <2>6, <2>7, <2>8, <2>9 DEF Files
<1> QED
  BY <1>1, <1>3, <1>4
-----------------------------------------------------------------------------
\* A step of a roll back that leaves the files.
LEMMA RollsQuiet ==
  ASSUME Inv1, NEW p \in Slots, NEW g \in Goroutines, NEW old \in RollbackSteps, At(p, g, old),
         NEW label \in RollbackSteps, Goes(p, g, label), SameFiles, trusted' = trusted,
         old \notin {"restore", "unpark"}, label \notin {"restore", "unpark"},
         label = "park" => file.bak # None
  PROVE  Quiet(p)
<1>1. Others(p)
  BY DEF Goes, Moves
<1> QED
  BY <1>1, RollsOnly, RollsOnlyNext DEF Quiet

LEMMA CheckFiles ==
  ASSUME Inv1, Files, NEW p \in Slots, NEW g \in Goroutines, RollbackCheck(p, g)
  PROVE  Files'
<1>1. /\ Still /\ At(p, g, "check")
      /\ Dies(p) \/ (file.bak # None /\ Goes(p, g, "park"))
  BY CheckEffect, InvParts
<1>2. SameFiles /\ trusted' = trusted
  BY <1>1, StillFiles DEF Still
<1>3. {"check", "park"} \subseteq RollbackSteps
  BY DEF RollbackSteps
<1>4. ~Away(p)
  BY <1>1, <1>3, RollsOnly
<1>5. CASE file.bak # None /\ Goes(p, g, "park")
  <2>1. Quiet(p)
    BY <1>1, <1>2, <1>3, <1>5, RollsQuiet
  <2> QED
    BY <2>1, QuietKeeps
<1> QED
  BY <1>1, <1>2, <1>4, <1>5, DeathKeeps

LEMMA UnmarkFiles ==
  ASSUME Inv1, Files, NEW p \in Slots, NEW g \in Goroutines, RollbackUnmark(p, g)
  PROVE  Files'
<1>1. /\ At(p, g, "unmark") /\ UNCHANGED <<file, world, trusted, upgrades, faults, crashes>>
      /\ Dies(p) \/ (g = "upgrade" /\ Goes(p, "upgrade", "respawn"))
  BY UnmarkEffect, InvParts
<1>2. SameFiles
  BY <1>1 DEF SameFiles, world
<1>3. "unmark" \in RollbackSteps
  BY DEF RollbackSteps
<1>4. ~Away(p)
  BY <1>1, <1>3, RollsOnly
<1>5. CASE g = "upgrade" /\ Goes(p, "upgrade", "respawn")
  <2>1. proc[p].upgrade = "unmark"
    BY <1>1, <1>5 DEF At
  <2>2. proc[p].main = "stopped" /\ proc[p].verify = "off"
    BY <2>1, InvParts DEF Proper, Watching, RollbackSteps
  <2>3. /\ Others(p) /\ proc'[p].ver = proc[p].ver /\ proc'[p].main = "stopped"
        /\ proc'[p].verify = "off" /\ proc'[p].upgrade = "respawn"
    BY <1>5, <2>2 DEF Goes, Moves
  <2>4. ~Away(p)' /\ ~Late(p)' /\ ~Trial(p)' /\ ~Doing(p, {"unpark"})' /\ ~Doing(p, {"restore"})'
    BY <2>3 DEF Away, Late, Trial, Doing, Boots
  <2>5. Alive(p)' => Alive(p)
    BY <2>3 DEF Alive
  <2>6. Quiet(p)
    BY <1>1, <1>2, <1>4, <2>3, <2>4, <2>5 DEF Quiet
  <2> QED
    BY <2>6, QuietKeeps
<1> QED
  BY <1>1, <1>2, <1>4, <1>5, DeathKeeps

\* Under a service manager a process that rolls back is alone, and so is the one that
\* could restore what another has parked.
LEMMA ParkedAlone ==
  ASSUME Inv1, Files, NEW p \in Slots, Late(p), ~Away(p)
  PROVE  /\ supervised => Company(p) = {} /\ file.bak # None
         /\ ~supervised => \A y \in Slots : Away(y) =>
              /\ file.bak # None /\ Doing(y, {"restore"}) /\ ~Doing(y, {"unpark"})
              /\ y # p /\ \A r \in Slots : Alive(r) => r \in {y, p}
<1>1. Alive(p)
  BY DeadIdle
<1>2. supervised => Company(p) = {} /\ file.bak # None
  BY <1>1 DEF Inv1, Alone, Files, OneLate
<1>3. ASSUME ~supervised, NEW y \in Slots, Away(y)
      PROVE  /\ file.bak # None /\ Doing(y, {"restore"}) /\ ~Doing(y, {"unpark"})
             /\ y # p /\ \A r \in Slots : Alive(r) => r \in {y, p}
  <2>1. y # p /\ Alive(y)
    BY <1>3, DeadIdle
  <2>2. proc[y].upgrade \notin {"stage", "unstage"}
    BY <1>1, <2>1, DeadIdle DEF Company
  <2>3. Doing(y, {"restore"}) \/ Doing(y, {"unpark"})
    BY <1>3, <2>2 DEF Away, Doing
  <2>4. file.bak # None
    BY <2>1, <2>3, DeadIdle DEF Files, OneLate
  <2>5. ~Doing(y, {"unpark"})
    BY <1>3, <2>4 DEF Files, Parked
  <2> QED
    BY <1>1, <2>1, <2>3, <2>4, <2>5, AtMostTwo
<1> QED
  BY <1>2, <1>3

LEMMA ParkFiles ==
  ASSUME Inv1, Files, Undisturbed', NEW p \in Slots, NEW g \in Goroutines, RollbackPark(p, g)
  PROVE  Files'
<1>1. /\ TypeOK' /\ At(p, g, "park") /\ UNCHANGED <<marker, world, trusted, upgrades, crashes>>
      /\ file'.bak = file.bak
      /\ \/ file.exe # None /\ file'.failed = file.exe /\ file'.exe = None /\ Goes(p, g, "restore")
         \/ /\ file'.exe = file.exe /\ file'.failed = None /\ Dies(p)
            /\ (file.exe = None /\ faults' = faults) \/ faults' = faults + 1
  BY ParkEffect, InvParts
<1>2. {"park", "restore"} \subseteq RollbackSteps
  BY DEF RollbackSteps
<1>3. Alive(p) /\ ~Trial(p) /\ ~Away(p) /\ Late(p)
  BY <1>1, <1>2, RollsOnly
<1>4. CASE file.exe # None /\ file'.failed = file.exe /\ file'.exe = None /\ Goes(p, g, "restore")
  <2>1. /\ ~Trial(p)' /\ Away(p)' /\ Late(p)' /\ Doing(p, {"restore"})' /\ ~Doing(p, {"unpark"})'
        /\ proc'[p].upgrade \notin {"download", "mark", "backup", "stage", "unstage"}
    BY <1>1, <1>2, <1>4, RollsOnlyNext
  <2>2. Others(p)
    BY <1>4 DEF Goes, Moves
  <2>3. ASSUME NEW q \in Slots \ {p}
        PROVE  /\ ~Away(q) /\ ~Away(q)' /\ (Late(q)' <=> Late(q)) /\ (Trial(q)' <=> Trial(q))
               /\ proc'[q] = proc[q] /\ ~Doing(q, {"restore"})' /\ ~Doing(q, {"unpark"})'
               /\ proc'[q].upgrade \notin {"download", "mark", "backup", "stage", "unstage"}
    <3>1. proc'[q] = proc[q]
      BY <2>2 DEF Others
    <3>2. ~Away(q)
      BY <1>4 DEF Files, Taken
    <3>3. proc[q].upgrade \notin {"download", "mark", "backup", "stage", "unstage"}
      BY <1>3, DeadIdle DEF Company
    <3>4. ~Doing(q, {"restore"}) /\ ~Doing(q, {"unpark"})
      BY <3>2, DeadIdle
    <3> QED
      BY <3>1, <3>2, <3>3, <3>4 DEF Away, Late, Trial, Doing
  <2>4. \A q \in Slots : ~Away(q)
    BY <1>3, <2>3
  <2>5. Taken'
    BY <1>4, <2>1, <2>3 DEF Taken
  <2>6. Trusty'
    <3>1. file.bak = None => file.exe \in trusted /\ ~supervised
      BY <1>3, <2>4 DEF Files, Trusty, OneLate
    <3> QED
      BY <1>1, <1>4, <2>1, <2>3, <3>1 DEF Files, Trusty, world
  <2>7. Parked'
    BY <1>4, <2>1, <2>3 DEF Parked
  <2>8. OneLate'
    BY <1>1, <1>3, <2>1, <2>3 DEF Files, OneLate, world
  <2>9. OnTrial'
    BY <1>1, <1>4, <2>1, <2>3, <2>4 DEF Files, OnTrial
  <2>10. Ready'
    BY <2>1, <2>3 DEF Ready
  <2> QED
    BY <2>5, <2>6, <2>7, <2>8, <2>9, <2>10 DEF Files
<1>5. CASE /\ file'.exe = file.exe /\ file'.failed = None /\ Dies(p)
           /\ (file.exe = None /\ faults' = faults) \/ faults' = faults + 1
  <2>1. Others(p) /\ proc'[p] = NoProcess
    BY <1>5 DEF Dies, Ends
  <2>2. ~Away(p)' /\ ~Late(p)' /\ ~Trial(p)' /\ proc'[p].upgrade = "off" /\ ~Alive(p)'
    BY <2>1, DeadIdleNext
  <2>3. CASE supervised
    <3>1. Company(p) = {} /\ file.bak # None
      BY <1>3, <2>3, ParkedAlone
    <3>2. \A q \in Slots : ~Away(q)
      BY <1>3, <3>1, DeadIdle DEF Company
    <3>3. file.exe = None => crashes # 0
      BY <3>2 DEF Files, Taken
    <3>4. file'.bak # None => file'.bak \in trusted'
      BY <1>1 DEF Files, Trusty
    <3>5. file'.exe = None => crashes' # 0
      BY <1>1, <1>5, <3>3
    <3> QED
      BY <1>1, <2>1, <2>2, <3>1, <3>4, <3>5, AloneFiles
  <2>4. CASE ~supervised
    <3>1. file.exe = None /\ faults' = faults /\ crashes = 0
      BY <1>1, <1>5, <2>4, TypeParts DEF Undisturbed, world, Inv1, Rest
    <3>2. PICK y \in Slots : Away(y)
      BY <3>1 DEF Files, Taken
    <3>3. /\ file.bak # None /\ Doing(y, {"restore"}) /\ ~Doing(y, {"unpark"})
          /\ y # p /\ \A r \in Slots : Alive(r) => r \in {y, p}
      BY <1>3, <2>4, <3>2, ParkedAlone
    <3>4. \A q \in Slots : Away(q) => q = y
      BY <3>2 DEF Files, Taken
    <3>5. ASSUME NEW q \in Slots
          PROVE  /\ Away(q)' <=> q = y
                 /\ Alive(q)' => q = y
                 /\ Doing(q, {"restore"})' => q = y
                 /\ ~Doing(q, {"unpark"})' /\ ~Trial(q)'
                 /\ proc'[q].upgrade \notin {"download", "mark", "backup", "stage", "unstage"}
      <4>1. CASE q = p
        BY <2>1, <2>2, <3>3, <4>1, DeadIdleNext
      <4>2. CASE q # p
        <5>1. proc'[q] = proc[q]
          BY <2>1, <4>2 DEF Others
        <5>2. Alive(q) => q = y
          BY <3>3, <4>2
        <5>3. proc[q].upgrade \notin {"download", "mark", "backup", "stage", "unstage"}
          BY <1>3, <4>2, DeadIdle DEF Company
        <5>4. ~Trial(q)
          <6>1. q = y => proc[y].main = "restore" \/ proc[y].verify = "restore" \/ proc[y].upgrade = "restore"
            BY <3>3 DEF Doing
          <6>2. "restore" \in RollbackSteps
            BY <1>2
          <6>3. q = y => \E h \in Goroutines : At(y, h, "restore")
            BY <6>1 DEF At, Goroutines
          <6> QED
            BY <5>2, <6>2, <6>3, RollsOnly, DeadIdle
        <5>5. /\ Away(q) <=> q = y
              /\ Doing(q, {"restore"}) => q = y
              /\ ~Doing(q, {"unpark"})
          BY <3>2, <3>3, <3>4, DeadIdle
        <5> QED
          BY <5>1, <5>2, <5>3, <5>4, <5>5 DEF Away, Trial, Doing, Alive
      <4> QED
        BY <4>1, <4>2
    <3>6. Company(y)' = {}
      BY <3>5 DEF Company
    <3>7. Taken'
      BY <1>5, <3>1, <3>2, <3>5 DEF Taken
    <3>8. Trusty'
      BY <1>1, <3>3, <3>5 DEF Files, Trusty
    <3>9. Parked'
      BY <1>1, <2>4, <3>3, <3>5, <3>6 DEF Parked, world
    <3>10. OneLate' /\ OnTrial' /\ Ready'
      BY <1>1, <2>4, <3>3, <3>5 DEF OneLate, OnTrial, Ready, world
    <3> QED
      BY <3>7, <3>8, <3>9, <3>10 DEF Files
  <2> QED
    BY <2>3, <2>4
<1> QED
  BY <1>1, <1>4, <1>5
-----------------------------------------------------------------------------
\* The others of a process that holds the executable hold no file, and do not upgrade.
LEMMA OthersOf ==
  ASSUME Inv1, Files, NEW p \in Slots, Away(p), Others(p), NEW q \in Slots \ {p}
  PROVE  /\ ~Away(q)' /\ (Late(q)' <=> Late(q)) /\ (Trial(q)' <=> Trial(q)) /\ proc'[q] = proc[q]
         /\ ~Doing(q, {"restore"})' /\ ~Doing(q, {"unpark"})' /\ (Alive(q)' <=> Alive(q))
         /\ proc'[q].upgrade \notin {"download", "mark", "backup", "stage", "unstage"}
<1>1. proc'[q] = proc[q] /\ ~Away(q) /\ Alive(p)
  BY DeadIdle DEF Others, Files, Taken
<1>2. proc[q].upgrade \notin {"download", "mark", "backup", "stage", "unstage"}
  BY <1>1, DeadIdle DEF Company
<1>3. ~Doing(q, {"restore"}) /\ ~Doing(q, {"unpark"})
  BY <1>1, DeadIdle
<1> QED
  BY <1>1, <1>2, <1>3 DEF Away, Late, Trial, Doing, Alive

LEMMA RestoreFiles ==
  ASSUME Inv1, Files, Undisturbed', NEW p \in Slots, NEW g \in Goroutines, RollbackRestore(p, g)
  PROVE  Files'
<1>1. /\ TypeOK' /\ At(p, g, "restore") /\ UNCHANGED <<marker, world, trusted, upgrades, crashes>>
      /\ file'.failed = file.failed
      /\ \/ file.bak # None /\ file'.exe = file.bak /\ file'.bak = None /\ Goes(p, g, "unmark")
         \/ /\ file'.exe = file.exe /\ file'.bak = file.bak /\ Goes(p, g, "unpark")
            /\ (file.bak = None /\ faults' = faults) \/ faults' = faults + 1
  BY RestoreEffect, InvParts
<1>2. {"restore", "unmark", "unpark"} \subseteq RollbackSteps
  BY DEF RollbackSteps
<1>3. Alive(p) /\ ~Trial(p) /\ Away(p) /\ Late(p) /\ Doing(p, {"restore"})
  BY <1>1, <1>2, RollsOnly
<1>4. Others(p) /\ file.exe = None
  BY <1>1, <1>3 DEF Goes, Moves, Files, Taken
<1>5. supervised => Company(p) = {}
  BY <1>3 DEF Inv1, Alone
<1>6. CASE file.bak # None /\ file'.exe = file.bak /\ file'.bak = None /\ Goes(p, g, "unmark")
  <2>1. /\ ~Trial(p)' /\ ~Away(p)' /\ ~Late(p)' /\ ~Doing(p, {"restore"})' /\ ~Doing(p, {"unpark"})'
        /\ proc'[p].upgrade \notin {"download", "mark", "backup", "stage", "unstage"}
    BY <1>1, <1>2, <1>6, RollsOnlyNext
  <2>2. \A q \in Slots : /\ ~Away(q)' /\ ~Doing(q, {"restore"})' /\ ~Doing(q, {"unpark"})'
                         /\ Late(q)' => Late(q) /\ q # p
                         /\ proc'[q].upgrade \notin {"download", "mark", "backup", "stage", "unstage"}
    BY <1>3, <1>4, <2>1, OthersOf
  <2>3. Taken' /\ Parked' /\ OnTrial' /\ Ready'
    BY <1>6, <2>2 DEF Taken, Parked, OnTrial, Ready
  <2>4. Trusty'
    BY <1>1, <1>6, <2>2 DEF Files, Trusty
  <2>5. OneLate'
    <3>1. \A q, r \in Slots : Late(q)' /\ Late(r)' => q = r
      BY <1>3, <1>6, <2>2, AtMostTwo, DeadIdle
    <3>2. supervised => \A q \in Slots : ~Late(q)'
      BY <1>5, <2>2, DeadIdle DEF Company
    <3> QED
      BY <1>1, <3>1, <3>2 DEF OneLate, world
  <2> QED
    BY <2>3, <2>4, <2>5 DEF Files
<1>7. CASE /\ file'.exe = file.exe /\ file'.bak = file.bak /\ Goes(p, g, "unpark")
           /\ (file.bak = None /\ faults' = faults) \/ faults' = faults + 1
  <2>1. /\ ~Trial(p)' /\ Away(p)' /\ Late(p)' /\ ~Doing(p, {"restore"})' /\ Doing(p, {"unpark"})'
        /\ proc'[p].upgrade \notin {"download", "mark", "backup", "stage", "unstage"}
    BY <1>1, <1>2, <1>7, RollsOnlyNext
  <2>2. file.bak = None \/ supervised
    <3>1. faults' = faults + 1 => supervised
      BY <1>1, InvParts, CalmBefore DEF world
    <3> QED
      BY <1>7, <3>1
  <2>3. file.failed # None
    BY <1>3, <2>2 DEF Files, Parked
  <2>4. \A q \in Slots \ {p} :
           /\ ~Away(q)' /\ (Late(q)' <=> Late(q)) /\ (Trial(q)' <=> Trial(q)) /\ proc'[q] = proc[q]
           /\ ~Doing(q, {"restore"})' /\ ~Doing(q, {"unpark"})'
           /\ proc'[q].upgrade \notin {"download", "mark", "backup", "stage", "unstage"}
    BY <1>3, <1>4, OthersOf
  <2>5. Taken'
    BY <1>4, <1>7, <2>1, <2>4 DEF Taken
  <2>6. Trusty'
    BY <1>1, <1>4, <1>7, <2>1, <2>4 DEF Files, Trusty, world
  <2>7. Parked'
    BY <1>1, <1>7, <2>1, <2>2, <2>3, <2>4 DEF Parked, world
  <2>8. OneLate'
    BY <1>1, <1>3, <1>7, <2>1, <2>4 DEF Files, OneLate, world
  <2>9. OnTrial'
    BY <1>1, <1>7, <2>1, <2>4 DEF Files, OnTrial
  <2>10. Ready'
    BY <2>1, <2>4 DEF Ready
  <2> QED
    BY <2>5, <2>6, <2>7, <2>8, <2>9, <2>10 DEF Files
<1> QED
  BY <1>1, <1>6, <1>7

LEMMA UnparkFiles ==
  ASSUME Inv1, Files, NEW p \in Slots, NEW g \in Goroutines, RollbackUnpark(p, g)
  PROVE  Files'
<1>1. /\ TypeOK' /\ At(p, g, "unpark") /\ Dies(p) /\ UNCHANGED <<marker, world, trusted, upgrades, faults, crashes>>
      /\ file'.bak = file.bak
      /\ file.failed # None => file'.exe = file.failed /\ file'.failed = None
  BY UnparkEffect, InvParts
<1>2. "unpark" \in RollbackSteps
  BY DEF RollbackSteps
<1>3. Alive(p) /\ ~Trial(p) /\ Away(p) /\ Late(p) /\ Doing(p, {"unpark"})
  BY <1>1, <1>2, RollsOnly
<1>4. /\ Others(p) /\ proc'[p] = NoProcess /\ file.exe = None
      /\ file.failed # None /\ file'.exe = file.failed
  BY <1>1, <1>3 DEF Dies, Ends, Files, Taken, Parked
<1>5. \A q \in Slots : /\ ~Away(q)' /\ ~Doing(q, {"restore"})' /\ ~Doing(q, {"unpark"})'
                       /\ Late(q)' => Late(q)
                       /\ Trial(q)' => Trial(q) /\ proc'[q].ver = proc[q].ver
                       /\ proc'[q].upgrade \notin {"download", "mark", "backup", "stage", "unstage"}
  BY <1>3, <1>4, OthersOf, DeadIdleNext
<1>6. Taken' /\ Parked' /\ Ready'
  BY <1>4, <1>5 DEF Taken, Parked, Ready
<1>7. Trusty'
  <2>1. None \notin trusted
    BY UpgradeAssumption, TypeParts DEF Inv1, Rest, UpgradeAssumption
  <2> QED
    BY <1>1, <1>4, <1>5, <2>1 DEF Files, Trusty
<1>8. OneLate'
  BY <1>1, <1>5 DEF Files, OneLate, world
<1>9. OnTrial'
  <2>1. \A q \in Slots : Trial(q) => proc[q].ver # None
    BY DeadIdle DEF Alive
  <2> QED
    BY <1>1, <1>4, <1>5, <2>1 DEF Files, OnTrial
<1> QED
  BY <1>6, <1>7, <1>8, <1>9 DEF Files

LEMMA RollbackFiles ==
  ASSUME Inv1, Files, Undisturbed', NEW p \in Slots, NEW g \in Goroutines, RollbackStep(p, g)
  PROVE  Files'
BY CheckFiles, ParkFiles, RestoreFiles, UnparkFiles, UnmarkFiles DEF RollbackStep
-----------------------------------------------------------------------------
\* A process that upgrades or restarts, and a step of it.
LEMMA SwapIs ==
  ASSUME Inv1, Files, NEW p \in Slots, Swaps(p)
  PROVE  /\ Alive(p) /\ Company(p) = {} /\ proc[p].verify = "off" /\ proc[p].ver \in trusted
         /\ proc[p].ver # None /\ proc[p].main \in {"serving", "stopped"}
         /\ Away(p) <=> proc[p].upgrade \in {"stage", "unstage"}
         /\ ~Late(p) /\ ~Trial(p)
         /\ ~Away(p) => (file.exe = None => crashes # 0) /\ (file.bak = None => file.exe \in trusted)
         /\ Away(p) => file.exe = None /\ file.bak # None
         /\ file.bak # None => file.bak \in trusted
<1>1. /\ Alive(p) /\ Company(p) = {} /\ proc[p].verify = "off" /\ proc[p].ver \in trusted
      /\ proc[p].main \in {"serving", "stopped"}
  BY InvParts DEF Inv1, Alone, Swaps, Swapping, Proper
<1>2. /\ Away(p) <=> proc[p].upgrade \in {"stage", "unstage"}
      /\ ~Late(p) /\ ~Trial(p)
  BY <1>1 DEF Swaps, Swapping, Away, Late, Trial, Doing, Boots
<1>3. \A q \in Slots : Away(q) => q = p
  BY <1>1, DeadIdle DEF Company
<1>4. ~Away(p) => (file.exe = None => crashes # 0) /\ (file.bak = None => file.exe \in trusted)
  BY <1>3 DEF Files, Taken, Trusty
<1>5. Away(p) => file.exe = None /\ file.bak # None
  BY <1>2 DEF Files, Taken, Trusty
<1> QED
  BY <1>1, <1>2, <1>4, <1>5 DEF Files, Trusty, Alive

LEMMA SwapNext ==
  ASSUME NEW p \in Slots, NEW label, proc'[p].main \in {"serving", "stopped"}, proc'[p].verify = "off",
         proc'[p].upgrade = label, label \notin {"park", "restore", "unpark"}
  PROVE  ~Trial(p)' /\ ~Late(p)' /\ (Away(p)' <=> label \in {"stage", "unstage"})
BY DEF Trial, Late, Away, Doing, Boots

\* A step of the upgrading goroutine, with what it leaves behind.
LEMMA SwapsFiles ==
  ASSUME Inv1, Files, TypeOK', NEW p \in Slots, Swaps(p),
         NEW label \in {"off", "download", "mark", "backup", "stage", "unstage", "prepare", "check"},
         Upgrades(p, label), trusted' = trusted,
         IF label \in {"stage", "unstage"} THEN file'.exe = None /\ file'.bak # None
         ELSE file'.exe = None => crashes' # 0,
         file'.bak # None => file'.bak \in trusted,
         file'.bak = None => file'.exe \in trusted,
         label \in {"download", "mark", "backup"} => file'.exe = proc[p].ver
  PROVE  Files'
<1>1. /\ Others(p) /\ proc'[p].ver = proc[p].ver /\ proc'[p].main \in {"serving", "stopped"}
      /\ proc'[p].verify = "off" /\ proc'[p].upgrade = label
  BY SwapIs DEF Upgrades
<1>2. ~Trial(p)' /\ ~Late(p)' /\ (Away(p)' <=> label \in {"stage", "unstage"})
  BY <1>1, SwapNext
<1>3. Company(p) = {}
  BY SwapIs
<1> QED
  BY <1>1, <1>2, <1>3, AloneFiles

LEMMA StartFile ==
  ASSUME Patient, Inv1, Files, NEW p \in Slots, NEW v \in Versions, StartUpgrade(p, v)
  PROVE  Files'
<1>1. /\ TypeOK' /\ UNCHANGED <<file, marker, port, world, trusted, faults, crashes>>
      /\ Upgrades(p, "download") /\ proc[p].main = "serving" /\ fate[proc[p].ver] = "good"
      /\ file.exe = proc[p].ver /\ proc[p].verify = "off" /\ Company(p) = {}
  BY StartEffect, InvParts
<1>2. /\ Others(p) /\ proc'[p].ver = proc[p].ver /\ proc'[p].main \in {"serving", "stopped"}
      /\ proc'[p].verify = "off" /\ proc'[p].upgrade = "download"
  BY <1>1 DEF Upgrades
<1>3. ~Trial(p)' /\ ~Late(p)' /\ ~Away(p)'
  BY <1>2, SwapNext
<1>4. proc[p].ver \in trusted /\ proc[p].ver # None
  BY <1>1, InvParts DEF Proper, Alive
<1> QED
  BY <1>1, <1>2, <1>3, <1>4, AloneFiles DEF Files, Trusty

LEMMA SwapFiles ==
  ASSUME Inv1, Files, NEW p \in Slots,
         Download(p) \/ WriteMarker(p) \/ SwapBackup(p) \/ SwapStage(p) \/ SwapUnstage(p)
  PROVE  Files'
<1>1. CASE Download(p) \/ WriteMarker(p)
  <2>1. /\ TypeOK' /\ trusted' = trusted /\ crashes' = crashes /\ proc[p].upgrade \in {"download", "mark"}
        /\ file'.exe = file.exe /\ file'.bak = file.bak
        /\ \E label \in {"off", "mark", "backup"} : Upgrades(p, label)
    BY <1>1, DownloadEffect, WriteEffect, InvParts
  <2>2. Swaps(p) /\ file.exe = proc[p].ver
    BY <2>1 DEF Swaps, Swapping, Files, Ready
  <2> QED
    BY <2>1, <2>2, SwapIs, SwapsFiles
<1>2. CASE SwapBackup(p)
  <2>1. /\ TypeOK' /\ proc[p].upgrade = "backup" /\ trusted' = trusted /\ crashes' = crashes
        /\ \/ file.exe # None /\ file'.bak = file.exe /\ file'.exe = None /\ Upgrades(p, "stage")
           \/ file'.exe = file.exe /\ file'.bak = None /\ Upgrades(p, "off")
    BY <1>2, BackupEffect, InvParts
  <2>2. Swaps(p) /\ file.exe = proc[p].ver
    BY <2>1 DEF Swaps, Swapping, Files, Ready
  <2>3. file.exe \in trusted /\ file.exe # None
    BY <2>2, SwapIs
  <2> QED
    BY <2>1, <2>2, <2>3, SwapsFiles
<1>3. CASE SwapStage(p)
  <2>1. /\ TypeOK' /\ proc[p].upgrade = "stage" /\ trusted' = trusted /\ crashes' = crashes
        /\ file'.bak = file.bak
        /\ \/ file'.exe # None /\ Upgrades(p, "prepare")
           \/ file'.exe = file.exe /\ Upgrades(p, "unstage")
    BY <1>3, StageEffect, InvParts
  <2>2. Swaps(p)
    BY <2>1 DEF Swaps, Swapping
  <2>3. file.exe = None /\ file.bak # None /\ file.bak \in trusted
    BY <2>1, <2>2, SwapIs
  <2> QED
    BY <2>1, <2>2, <2>3, SwapsFiles
<1>4. CASE SwapUnstage(p)
  <2>1. /\ TypeOK' /\ proc[p].upgrade = "unstage" /\ trusted' = trusted /\ crashes' = crashes
        /\ Upgrades(p, "off")
        /\ file.bak # None => file'.exe = file.bak /\ file'.bak = None
    BY <1>4, UnstageEffect, InvParts
  <2>2. Swaps(p)
    BY <2>1 DEF Swaps, Swapping
  <2>3. file.bak # None /\ file.bak \in trusted
    BY <2>1, <2>2, SwapIs
  <2> QED
    BY <2>1, <2>2, <2>3, SwapsFiles
<1> QED
  BY <1>1, <1>2, <1>3, <1>4

LEMMA PrepareFiles == ASSUME Inv1, Files, NEW p \in Slots, Prepare(p) PROVE Files'
<1>1. /\ TypeOK' /\ Still /\ proc[p].upgrade = "prepare"
      /\ Others(p) /\ proc'[p].ver = proc[p].ver /\ proc'[p].verify = proc[p].verify
      /\ proc'[p].main = "stopped" /\ proc'[p].upgrade = "restart"
  BY PrepareEffect, InvParts
<1>2. Swaps(p)
  BY <1>1 DEF Swaps, Swapping
<1>3. Company(p) = {} /\ proc[p].verify = "off" /\ ~Away(p)
  BY <1>1, <1>2, SwapIs
<1>4. ~Trial(p)' /\ ~Late(p)' /\ ~Away(p)'
  BY <1>1, <1>3, SwapNext
<1> QED
  BY <1>1, <1>2, <1>3, <1>4, SwapIs, AloneFiles DEF Still, Files, Trusty

LEMMA RestartFiles == ASSUME Inv1, Files, NEW p \in Slots, Restart(p) PROVE Files'
<1>1. /\ TypeOK' /\ Still /\ proc[p].upgrade = "restart"
      /\ \/ Dies(p)
         \/ Upgrades(p, "check")
         \/ Runnable /\ \E q \in Slots : Spawns(p, "watch", q)
  BY RestartEffect, InvParts
<1>2. SameFiles /\ trusted' = trusted /\ Swaps(p)
  BY <1>1, StillFiles DEF Still, Swaps, Swapping
<1>3. /\ Company(p) = {} /\ proc[p].verify = "off" /\ proc[p].main \in {"serving", "stopped"} /\ ~Away(p)
      /\ file.exe = None => crashes # 0
      /\ file.bak = None => file.exe \in trusted
      /\ file.bak # None => file.bak \in trusted
  BY <1>1, <1>2, SwapIs
<1>4. CASE Upgrades(p, "check")
  BY <1>1, <1>2, <1>3, <1>4, SwapsFiles DEF SameFiles
<1>5. ASSUME Runnable, NEW q \in Slots, Spawns(p, "watch", q)
      PROVE  Files'
  <2>1. /\ proc'[p].main \in {"serving", "stopped"} /\ proc'[p].verify = "off" /\ proc'[p].upgrade = "watch"
        /\ proc'[q].ver = file.exe /\ proc'[q].main = "open" /\ proc'[q].verify = "off" /\ proc'[q].upgrade = "off"
        /\ file.exe # None
    BY <1>3, <1>5 DEF Spawns, Starts, Runnable
  <2>2. ~Trial(p)' /\ ~Late(p)' /\ ~Away(p)'
    BY <2>1, SwapNext
  <2>3. ~Late(q)' /\ ~Away(q)'
    BY <2>1 DEF Late, Away, Doing
  <2>4. ASSUME NEW r \in Slots \ {p, q}
        PROVE  proc'[r] = NoProcess
    BY <1>3, <1>5 DEF Spawns, Company, Alive, Inv1, TypeOK
  <2>5. ASSUME NEW r \in Slots
        PROVE  /\ ~Away(r)' /\ ~Late(r)'
               /\ Trial(r)' => proc'[r].ver = file.exe
               /\ proc'[r].upgrade \notin {"download", "mark", "backup"}
    BY <2>1, <2>2, <2>3, <2>4, DeadIdleNext
  <2> QED
    BY <1>2, <2>1, <2>5, StartFiles
<1> QED
  BY <1>1, <1>2, <1>3, <1>4, <1>5, DeathKeeps
-----------------------------------------------------------------------------
\* A process that watches, or rolled back and started the old binary again.
LEMMA WatchIs ==
  ASSUME Inv1, NEW p \in Slots, proc[p].upgrade \in {"watch", "respawn", "watch previous"}
  PROVE  /\ Alive(p) /\ proc[p].main = "stopped" /\ proc[p].verify = "off"
         /\ ~Away(p) /\ ~Late(p) /\ ~Trial(p)
<1>1. Alive(p) /\ proc[p].main = "stopped" /\ proc[p].verify = "off"
  BY InvParts DEF Proper, Watching
<1> QED
  BY <1>1 DEF Away, Late, Trial, Doing, Boots

LEMMA WatchFiles ==
  ASSUME Inv1, Files, NEW p \in Slots, Watch(p) \/ WatchPrevious(p)
  PROVE  Files'
<1>1. /\ Still /\ proc[p].upgrade \in {"watch", "watch previous"}
      /\ Dies(p) \/ Upgrades(p, "check")
  BY WatchEffect, PreviousEffect, InvParts
<1>2. SameFiles /\ trusted' = trusted /\ ~Away(p) /\ Alive(p) /\ proc[p].main = "stopped" /\ proc[p].verify = "off"
  BY <1>1, StillFiles, WatchIs DEF Still
<1>3. CASE Upgrades(p, "check")
  <2>1. /\ Others(p) /\ proc'[p].main = "stopped" /\ proc'[p].verify = "off" /\ proc'[p].upgrade = "check"
    BY <1>2, <1>3 DEF Upgrades
  <2>2. ~Trial(p)' /\ ~Late(p)' /\ ~Away(p)'
    BY <2>1, SwapNext
  <2>3. ~Doing(p, {"unpark"})' /\ ~Doing(p, {"restore"})'
    BY <2>1 DEF Doing
  <2>4. Quiet(p)
    BY <1>2, <2>1, <2>2, <2>3 DEF Quiet
  <2> QED
    BY <2>4, QuietKeeps
<1> QED
  BY <1>1, <1>2, <1>3, DeathKeeps

LEMMA RespawnFiles == ASSUME Inv1, Files, NEW p \in Slots, Respawn(p) PROVE Files'
<1>1. /\ TypeOK' /\ Still /\ proc[p].upgrade = "respawn"
      /\ Dies(p) \/ (Runnable /\ \E q \in Slots : Spawns(p, "watch previous", q))
  BY RespawnEffect, InvParts
<1>2. /\ SameFiles /\ trusted' = trusted /\ ~Away(p) /\ Alive(p)
      /\ proc[p].main = "stopped" /\ proc[p].verify = "off"
  BY <1>1, StillFiles, WatchIs DEF Still
<1>3. ASSUME Runnable, NEW q \in Slots, Spawns(p, "watch previous", q)
      PROVE  Files'
  <2>1. /\ proc'[p].main = "stopped" /\ proc'[p].verify = "off" /\ proc'[p].upgrade = "watch previous"
        /\ proc'[q].ver = file.exe /\ proc'[q].main = "open" /\ proc'[q].verify = "off" /\ proc'[q].upgrade = "off"
        /\ file.exe # None
    BY <1>2, <1>3 DEF Spawns, Starts, Runnable
  <2>2. ~Trial(p)' /\ ~Late(p)' /\ ~Away(p)'
    BY <2>1 DEF Trial, Late, Away, Doing, Boots
  <2>3. ~Late(q)' /\ ~Away(q)'
    BY <2>1 DEF Late, Away, Doing
  <2>4. ASSUME NEW r \in Slots \ {p, q}
        PROVE  /\ ~Away(r)' /\ (Late(r)' => Late(r)) /\ (Trial(r)' => Trial(r) /\ proc'[r].ver = proc[r].ver)
               /\ proc'[r].upgrade \notin {"download", "mark", "backup"}
    <3>1. proc'[r] = proc[r] /\ ~Away(r)
      BY <1>3, <2>1 DEF Spawns, Files, Taken
    <3>2. proc[r].upgrade \notin {"download", "mark", "backup"}
      BY <1>2, DeadIdle DEF Company
    <3> QED
      BY <3>1, <3>2 DEF Away, Late, Trial, Doing
  <2>5. ASSUME NEW r \in Slots
        PROVE  /\ ~Away(r)' /\ (Late(r)' => Late(r))
               /\ Trial(r)' => proc'[r].ver = file.exe \/ (Trial(r) /\ proc'[r].ver = proc[r].ver)
               /\ proc'[r].upgrade \notin {"download", "mark", "backup"}
    BY <2>1, <2>2, <2>3, <2>4
  <2> QED
    BY <1>2, <2>1, <2>5, StartFiles
<1> QED
  BY <1>1, <1>2, <1>3, DeathKeeps

LEMMA ServiceFiles == ASSUME Inv1, Files, ServiceStart PROVE Files'
<1>1. /\ TypeOK' /\ Still /\ file.exe # None
      /\ \A r \in Slots : ~Alive(r)
  BY ServiceEffect DEF Inv1, Runnable
<1>2. PICK q \in Slots : Starts(q) /\ Others(q)
  BY ServiceEffect DEF Inv1
<1>3. SameFiles /\ trusted' = trusted
  BY <1>1, StillFiles DEF Still
<1>4. /\ proc'[q].ver = file.exe /\ proc'[q].main = "open" /\ proc'[q].verify = "off" /\ proc'[q].upgrade = "off"
  BY <1>2 DEF Starts
<1>5. ~Late(q)' /\ ~Away(q)'
  BY <1>4 DEF Late, Away, Doing
<1>6. ASSUME NEW r \in Slots \ {q}
      PROVE  proc'[r] = NoProcess
  BY <1>1, <1>2 DEF Others, Alive, Inv1, TypeOK
<1>7. ASSUME NEW r \in Slots
      PROVE  /\ ~Away(r)' /\ ~Late(r)'
             /\ Trial(r)' => proc'[r].ver = file.exe
             /\ proc'[r].upgrade \notin {"download", "mark", "backup"}
  BY <1>4, <1>5, <1>6, DeadIdleNext
<1> QED
  BY <1>1, <1>3, <1>7, StartFiles

\* Under a service manager a power loss leaves the backup, or a release that served.
LEMMA CrashFiles == ASSUME Inv1, Files, Undisturbed', Crash PROVE Files'
<1>1. /\ TypeOK' /\ crashes' = crashes + 1 /\ UNCHANGED <<file, marker, world, trusted, upgrades, faults>>
      /\ \A p \in Slots : proc'[p] = NoProcess
  BY CrashEffect DEF Inv1
<1>2. supervised /\ crashes' # 0
  BY <1>1, TypeParts DEF Undisturbed, world, Inv1, Rest
<1>3. \A q \in Slots : /\ ~Away(q)' /\ ~Late(q)' /\ ~Trial(q)' /\ proc'[q].upgrade = "off"
                       /\ ~Doing(q, {"restore"})' /\ ~Doing(q, {"unpark"})'
  BY <1>1, DeadIdleNext
<1>4. Taken' /\ Parked' /\ OneLate' /\ OnTrial' /\ Ready'
  BY <1>2, <1>3 DEF Taken, Parked, OneLate, OnTrial, Ready
<1>5. Trusty'
  BY <1>1, <1>2, <1>3 DEF Files, Trusty
<1> QED
  BY <1>4, <1>5 DEF Files
-----------------------------------------------------------------------------
\* Faults and crashes are only counted, and whether there is a service manager stays.
LEMMA StepCounts ==
  ASSUME NEW p \in Slots, Step(p)
  PROVE  supervised' = supervised /\ crashes' = crashes /\ (faults' = faults \/ faults' = faults + 1)
<1>1. CASE MainStep(p)
  BY <1>1 DEF MainStep, OpenDatabase, Migrate, Assemble, Bind, world
<1>2. CASE VerifyStep(p)
  BY <1>2 DEF VerifyStep, VerifyHealth, CommitMarker, CommitBackup, Fault, world
<1>3. CASE UpgradeStep(p)
  <2>1. CASE Download(p) \/ WriteMarker(p) \/ SwapBackup(p) \/ SwapStage(p) \/ SwapUnstage(p)
    BY <2>1 DEF Download, WriteMarker, SwapBackup, SwapStage, SwapUnstage, Fault, world
  <2>2. CASE Prepare(p) \/ Restart(p) \/ Watch(p) \/ Respawn(p) \/ WatchPrevious(p)
    BY <2>2 DEF Prepare, Restart, Watch, Respawn, WatchPrevious, world
  <2> QED
    BY <1>3, <2>1, <2>2 DEF UpgradeStep
<1>4. ASSUME NEW g \in Goroutines, RollbackStep(p, g)
      PROVE  supervised' = supervised /\ crashes' = crashes /\ (faults' = faults \/ faults' = faults + 1)
  <2>1. CASE RollbackCheck(p, g) \/ RollbackUnpark(p, g) \/ RollbackUnmark(p, g)
    BY <2>1 DEF RollbackCheck, RollbackUnpark, RollbackUnmark, world
  <2>2. CASE RollbackPark(p, g) \/ RollbackRestore(p, g)
    BY <2>2 DEF RollbackPark, RollbackRestore, Fault, world
  <2> QED
    BY <1>4, <2>1, <2>2 DEF RollbackStep
<1> QED
  BY <1>1, <1>2, <1>3, <1>4 DEF Step

LEMMA NextCounts ==
  ASSUME [Next]_vars
  PROVE  /\ supervised' = supervised
         /\ faults' = faults \/ faults' = faults + 1
         /\ crashes' = crashes \/ crashes' = crashes + 1
<1>1. CASE ServiceStart \/ Crash \/ UNCHANGED vars
  BY <1>1 DEF ServiceStart, Crash, vars, world
<1>2. CASE \E p \in Slots, v \in Versions : StartUpgrade(p, v)
  BY <1>2 DEF StartUpgrade, world
<1> QED
  BY <1>1, <1>2, StepCounts DEF Next

LEMMA NextFiles ==
  ASSUME Patient, Inv1, Inv2, [Next]_vars
  PROVE  Inv2'
<1>1. TypeOK /\ TypeOK'
  BY NextTyped DEF Inv1
<1> SUFFICES ASSUME Undisturbed'
             PROVE  Files'
  BY DEF Inv2
<1>2. Files
  BY <1>1, NextCounts, CalmBefore DEF Inv2
<1>3. ASSUME NEW p \in Slots, Step(p)
      PROVE  Files'
  <2>1. CASE MainStep(p)
    BY <1>2, <2>1, MainFiles
  <2>2. CASE VerifyStep(p)
    BY <1>2, <2>2, HealthFiles, DropFiles DEF VerifyStep
  <2>3. CASE UpgradeStep(p)
    BY <1>2, <2>3, SwapFiles, PrepareFiles, RestartFiles, WatchFiles, RespawnFiles DEF UpgradeStep
  <2>4. CASE \E g \in Goroutines : RollbackStep(p, g)
    BY <1>2, <2>4, RollbackFiles
  <2> QED
    BY <1>3, <2>1, <2>2, <2>3, <2>4 DEF Step
<1>4. CASE \E p \in Slots, v \in Versions : StartUpgrade(p, v)
  BY <1>2, <1>4, StartFile
<1>5. CASE UNCHANGED vars
  <2>1. UNCHANGED <<file, proc, trusted, crashes, supervised>>
    BY <1>5 DEF vars, world
  <2>2. Taken' /\ Trusty' /\ Parked'
    BY <1>2, <2>1 DEF Files, Taken, Trusty, Parked, Away, Doing, Company, Alive
  <2>3. OneLate' /\ OnTrial' /\ Ready'
    BY <1>2, <2>1 DEF Files, OneLate, OnTrial, Ready, Late, Trial, Away, Doing
  <2> QED
    BY <2>2, <2>3 DEF Files
<1> QED
  BY <1>2, <1>3, <1>4, <1>5, ServiceFiles, CrashFiles DEF Next

LEMMA InitFiles == Init => Inv2
<1> SUFFICES ASSUME Init
             PROVE  Files
  BY DEF Inv2
<1>1. Inv1 /\ trusted = {Installed} /\ file.exe = Installed /\ file.bak = None /\ Installed # None
  BY InitInv, UpgradeAssumption DEF Init, UpgradeAssumption
<1>2. ASSUME NEW q \in Slots
      PROVE  /\ proc[q].main \in {"serving", "off"} /\ proc[q].verify = "off" /\ proc[q].upgrade = "off"
    BY DEF Init, NoProcess
<1>3. \A q \in Slots : /\ ~Away(q) /\ ~Late(q) /\ ~Trial(q)
                       /\ ~Doing(q, {"restore"}) /\ ~Doing(q, {"unpark"})
  BY <1>2 DEF Away, Late, Trial, Doing, Boots
<1> QED
  BY <1>1, <1>2, <1>3 DEF Files, Taken, Trusty, Parked, OneLate, OnTrial, Ready

\* The invariant of a system whose administrators wait for one upgrade to be over.
LEMMA InvHolds == ASSUME Patient PROVE Safety => [](Inv1 /\ Inv2)
<1>1. Init => Inv1 /\ Inv2
  BY InitInv, InitFiles
<1>2. Inv1 /\ Inv2 /\ [Next]_vars => (Inv1 /\ Inv2)'
  BY NextInv, NextFiles
<1> QED
  BY <1>1, <1>2, PTL DEF Safety

LEMMA AwayRenames ==
  ASSUME TypeOK, ~Renaming
  PROVE  \A p \in Slots : ~Away(p)
<1>1. \A p \in Slots : /\ proc[p].main \notin {"stage", "unstage", "restore", "unpark"}
                       /\ proc[p].verify \notin {"stage", "unstage", "restore", "unpark"}
                       /\ proc[p].upgrade \notin {"stage", "unstage", "restore", "unpark"}
  BY DEF Renaming, Goroutines
<1> QED
  BY <1>1 DEF Away, Doing

\* When administrators wait for one upgrade to be over before the next, whatever
\* goroutines and processes swap, commit and roll back the same files, and whichever of
\* their operations fail, an executable is in place once they are through (Swap,
\* Rollback, Commit).  A power loss between two renames is the exception, and without a
\* service manager so is a rename that fails.
THEOREM ExecutableStays == ASSUME Patient PROVE Safety => []ExecutableInPlace
<1>1. Inv1 /\ Inv2 => ExecutableInPlace
  BY AwayRenames DEF Inv1, Inv2, Files, Taken, ExecutableInPlace
<1> QED
  BY <1>1, InvHolds, PTL

\* When administrators wait for one upgrade to be over before the next, a version that has
\* served is always at hand: it is the executable, or the backup that a roll back would
\* restore.
THEOREM GoodVersionStays == ASSUME Patient PROVE Safety => []GoodVersionKept
<1>1. Inv1 /\ Inv2 => GoodVersionKept
  BY AwayRenames DEF Inv1, Inv2, Files, Trusty, GoodVersionKept
<1> QED
  BY <1>1, InvHolds, PTL
=============================================================================
