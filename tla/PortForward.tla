---------------------------- MODULE PortForward -----------------------------
(***************************************************************************)
(* mudp's own port forwarding: the Manager that keeps a listener per host  *)
(* socket (internal/portfwd), the reconcile that derives the wanted rules  *)
(* from Docker, the settings and the hand-added rows                       *)
(* (App.SyncPortForward), and the administrator's endpoints that change    *)
(* those and reconcile at once.                                            *)
(*                                                                         *)
(* A reconcile is not atomic: it reads the settings, lists the containers, *)
(* reads the stored rows, resolves the containers they name, and only then *)
(* calls Manager.Apply, which is atomic under the manager's mutex.  The    *)
(* periodic sweep and every handler run reconciles of their own, so these  *)
(* steps interleave.                                                       *)
(*                                                                         *)
(* Relaying connections over an open listener is not part of this module.  *)
(***************************************************************************)
EXTENDS Integers, FiniteSets

CONSTANTS
  TcpKeys, UdpKeys,  \* host sockets (host port with its protocol)
  Addrs,             \* addresses a container or another machine can hold
  Ports,             \* ports on the target side
  Networks,          \* Docker networks
  Containers,        \* managed containers; a recreated container is another one
  Decl,              \* what each container was created with (labels, networks)
  Places,            \* container -> the address assignments it may come up with
  Rows,              \* the hand-added forwards an administrator may ask for (one for
                     \* the console's own port is refused, and is not among them)
  Handlers,          \* HTTP handler goroutines
  Sweeper,           \* the goroutine behind refreshRuntimeCache (serial: refreshMu)
  MaxChanges,        \* bound on changes of the world: containers, sockets, requests
  MaxFaults          \* bound on failed Docker or database calls

Keys == TcpKeys \cup UdpKeys

NoAddr == "no address"
NoId == "none"

\* A rule without its key: where it relays to, how, and where it comes from.
Rule == [ip : Addrs \cup {NoAddr}, port : Ports \cup {0}, tls : BOOLEAN, login : BOOLEAN,
         src : {"container", "manual", "none"}, id : Containers \cup {NoId}]

NoRule == [ip |-> NoAddr, port |-> 0, tls |-> FALSE, login |-> FALSE, src |-> "none", id |-> NoId]

\* A stored forward: it names a container or a fixed address (port_forwards).
Row == [cid : Containers \cup {NoId}, ip : Addrs \cup {NoAddr}, port : Ports, login : BOOLEAN]

NoRow == [cid |-> NoId, ip |-> NoAddr, port |-> 0, login |-> FALSE]

NoArg == [key |-> NoId, row |-> NoRow, nets |-> {}]

Nowhere == [k \in Keys |-> NoRule]

Declaration == [labelled : BOOLEAN, net : Networks, nets : SUBSET Networks,
                specs : [Keys -> [port : Ports \cup {0}, tls : BOOLEAN]],
                login : SUBSET Ports, rank : Nat]

ASSUME ForwardAssumption ==
  /\ TcpKeys \cap UdpKeys = {}
  /\ Ports \subseteq Nat \ {0}
  /\ NoAddr \notin Addrs /\ NoId \notin Containers
  /\ Decl \in [Containers -> Declaration]
  /\ \A c, d \in Containers : Decl[c].rank = Decl[d].rank => c = d
  /\ Places \in [Containers -> SUBSET [Networks -> Addrs \cup {NoAddr}]]
  /\ Rows \subseteq [key : Keys, row : Row]
  /\ Sweeper \notin Handlers
  /\ MaxChanges \in Nat /\ MaxFaults \in Nat

Procs == Handlers \cup {Sweeper}

VARIABLES
  running,   \* containers Docker runs
  present,   \* containers that exist, running or stopped
  place,     \* container -> network -> address while running
  config,    \* PortForwardConfig.Networks
  manual,    \* the port_forwards table: key -> row
  busy,      \* host sockets some other process holds
  cert,      \* whether a certificate is installed for HTTPS forwards
  entries,   \* Manager.entries: key -> the rule its listener serves
  born,      \* which incarnation of the listener on a key it is (flips when one is started)
  closed,    \* Manager.closed
  pc,        \* where each goroutine is
  nets,      \* reconcile local: forwardNetworks()
  crules,    \* reconcile local: the container rules, first valid claim per key
  mrules,    \* reconcile local: the manual rules
  failed,    \* reconcile local: which of its Docker calls failed
  stored,    \* reconcile local: the rows as read
  arg,       \* handler local: the request
  calm,      \* history: the reconciles nothing has disturbed since they began
  changes, faults

world == <<running, present, place, busy>>
manager == <<entries, born, closed>>
locals == <<nets, crules, mrules, failed, stored>>
system == <<world, config, manual, cert, manager, pc, locals, arg, changes, faults>>
vars == <<system, calm>>

Goto(p, label) == pc' = [pc EXCEPT ![p] = label]

-----------------------------------------------------------------------------
(***************************************************************************)
(* Deriving rules (dockerx/forward.go).                                    *)
(***************************************************************************)

\* Rule.Validate: no address, no rule; neither login nor TLS over UDP.
Validate(k, r) ==
  /\ r.ip # NoAddr
  /\ k \in UdpKeys => ~r.login /\ ~r.tls

\* ForwardNetworkFor: a container is forwarded when every network it is on is
\* a forwarding network.
ForwardNetworkFor(attached, forwarding) ==
  attached # {} /\ forwarding # {} /\ attached \subseteq forwarding

\* EffectiveForwardSpecs: the label decides whatever the settings say; without
\* one, the published ports are adopted (they carry no TLS).
\* A UDP port that must be gated is dropped rather than served.
HasSpec(c, k, forwarding) ==
  /\ Decl[c].specs[k].port # 0
  /\ k \in UdpKeys => Decl[c].specs[k].port \notin Decl[c].login
  /\ Decl[c].labelled \/ ForwardNetworkFor(Decl[c].nets, forwarding)

SpecTLS(c, k) == Decl[c].labelled /\ Decl[c].specs[k].tls

\* forwardIP: the address on the named network, else any address the container
\* has.  Go's map order decides which, so every one of them is possible.
Held(c) == {place[c][n] : n \in Decl[c].nets} \ {NoAddr}

ForwardIP(c, named) ==
  IF named /\ Decl[c].net \in Decl[c].nets /\ place[c][Decl[c].net] # NoAddr
  THEN {place[c][Decl[c].net]}
  ELSE IF Held(c) = {} THEN {NoAddr} ELSE Held(c)

\* The addresses one listing may resolve the running containers to.  A labelled
\* container names its network; an adopted one takes the first attached network
\* in map order.
ListedIPs ==
  {f \in [Containers -> Addrs \cup {NoAddr}] :
     \A c \in Containers :
        IF c \in running THEN f[c] \in ForwardIP(c, Decl[c].labelled) ELSE f[c] = NoAddr}

ContainerRule(c, k, ip) ==
  [ip |-> ip, port |-> Decl[c].specs[k].port, tls |-> SpecTLS(c, k),
   login |-> Decl[c].specs[k].port \in Decl[c].login, src |-> "container", id |-> c]

\* ForwardRules, reduced to what Apply keeps of it: per key the first container
\* in listing order whose rule is valid.
ForwardRules(forwarding, ips) ==
  [k \in Keys |->
     LET claims == {c \in running : HasSpec(c, k, forwarding) /\ Validate(k, ContainerRule(c, k, ips[c]))}
     IN  IF claims = {} THEN NoRule
         ELSE LET first == CHOOSE c \in claims : \A d \in claims : Decl[c].rank <= Decl[d].rank
              IN  ContainerRule(first, k, ips[first])]

\* Mutant: a failed listing is taken for an empty one.
CarriedOverNothing == Nowhere

\* rulesFromSource(Rules(), "container")
CarriedOver == [k \in Keys |-> IF entries[k].src = "container" THEN entries[k] ELSE NoRule]

\* manualForwardRules: a row that names a container takes the address the
\* container has now; without one the rule is invalid.
ManualRules(rows, ips) ==
  [k \in Keys |->
     LET row == rows[k]
         r   == [ip |-> IF row.cid = NoId THEN row.ip ELSE ips[row.cid],
                 port |-> row.port, tls |-> FALSE, login |-> row.login, src |-> "manual", id |-> row.cid]
     IN  IF row # NoRow /\ Validate(k, r) THEN r ELSE NoRule]

Unresolved == [c \in Containers |-> NoAddr]

-----------------------------------------------------------------------------
(***************************************************************************)
(* SyncPortForward, one step per read, then Apply.                         *)
(***************************************************************************)
Fault == faults < MaxFaults /\ faults' = faults + 1

\* forwardNetworks: a failed lookup reads as "none".
ReadNetworks(p) ==
  /\ pc[p] = "networks"
  /\ \/ nets' = [nets EXCEPT ![p] = config] /\ UNCHANGED faults
     \/ nets' = [nets EXCEPT ![p] = {}] /\ Fault
  /\ Goto(p, "list")
  /\ UNCHANGED <<world, config, manual, cert, manager, crules, mrules, failed, stored, arg, changes>>

\* docker.ForwardRules; when it fails, what is served for containers is kept.
ListRules(p) ==
  /\ pc[p] = "list"
  /\ \/ /\ \E ips \in ListedIPs : crules' = [crules EXCEPT ![p] = ForwardRules(nets[p], ips)]
        /\ failed' = [failed EXCEPT ![p] = {}]
        /\ UNCHANGED faults
     \/ /\ Fault
        /\ crules' = [crules EXCEPT ![p] = CarriedOver]
        /\ failed' = [failed EXCEPT ![p] = {"list"}]
  /\ Goto(p, "rows")
  /\ UNCHANGED <<world, config, manual, cert, manager, nets, mrules, stored, arg, changes>>

\* db.ManualForwards; a failure leaves no manual rules at all.
ReadRows(p) ==
  /\ pc[p] = "rows"
  /\ \/ stored' = [stored EXCEPT ![p] = manual] /\ UNCHANGED faults
     \/ stored' = [stored EXCEPT ![p] = [k \in Keys |-> NoRow]] /\ Fault
  /\ Goto(p, "targets")
  /\ UNCHANGED <<world, config, manual, cert, manager, nets, crules, mrules, failed, arg, changes>>

NeedsContainers(rows) == \E k \in Keys : rows[k].cid # NoId

\* docker.ContainerTargets, called only when a row names a container.  When it
\* fails those rows keep an empty address and Validate drops them.
ResolveTargets(p) ==
  /\ pc[p] = "targets"
  /\ \/ /\ \E ips \in ListedIPs : mrules' = [mrules EXCEPT ![p] = ManualRules(stored[p], ips)]
        /\ UNCHANGED <<failed, faults>>
     \/ /\ NeedsContainers(stored[p])
        /\ Fault
        /\ mrules' = [mrules EXCEPT ![p] = ManualRules(stored[p], Unresolved)]
        /\ failed' = [failed EXCEPT ![p] = @ \cup {"targets"}]
  /\ Goto(p, "apply")
  /\ UNCHANGED <<world, config, manual, cert, manager, nets, crules, stored, arg, changes>>

SameTarget(r, s) == r.ip = s.ip /\ r.port = s.port

\* Mutant: any difference between the rules replaces the listener.
KeepIdentical(k, r) == entries[k] = r

\* A kept listener serves the new rule's flags; a moved one, or one whose
\* transport changed, is stopped and started again.
Keep(k, r) == entries[k] # NoRule /\ SameTarget(entries[k], r) /\ entries[k].tls = r.tls

\* Mutant: an HTTPS forward starts whether or not there is a certificate.
CanStartWithoutCert(k, r) == k \notin busy

\* Manager.start: the socket must be free, and TLS needs a certificate.
CanStart(k, r) == k \notin busy /\ (r.tls => cert)

\* The container rules come first in the list Apply is given.
Want(p) == [k \in Keys |-> IF crules[p][k] # NoRule THEN crules[p][k] ELSE mrules[p][k]]

\* Mutant: listeners nobody wants any more are not stopped.
ReconciledAddOnly(want) ==
  [k \in Keys |-> IF want[k] = NoRule THEN entries[k]
                  ELSE IF Keep(k, want[k]) \/ CanStart(k, want[k]) THEN want[k] ELSE NoRule]

\* Apply on a map of wanted rules.
Reconciled(want) ==
  [k \in Keys |-> IF want[k] # NoRule /\ (Keep(k, want[k]) \/ CanStart(k, want[k]))
                  THEN want[k] ELSE NoRule]

Reborn(want) ==
  [k \in Keys |-> IF want[k] # NoRule /\ ~Keep(k, want[k]) /\ CanStart(k, want[k])
                  THEN 1 - born[k] ELSE born[k]]

\* The locals of a reconcile go out of scope with it.
Forget(p) ==
  /\ nets' = [nets EXCEPT ![p] = {}]
  /\ crules' = [crules EXCEPT ![p] = Nowhere]
  /\ mrules' = [mrules EXCEPT ![p] = Nowhere]
  /\ failed' = [failed EXCEPT ![p] = {}]
  /\ stored' = [stored EXCEPT ![p] = [k \in Keys |-> NoRow]]

\* Mutant: Apply does not look at Manager.closed.
ApplyAfterClose(p) ==
  /\ pc[p] = "apply"
  /\ entries' = Reconciled(Want(p))
  /\ born' = Reborn(Want(p))
  /\ Goto(p, "idle")
  /\ Forget(p)
  /\ UNCHANGED <<world, config, manual, cert, closed, arg, changes, faults>>

Apply(p) ==
  /\ pc[p] = "apply"
  /\ entries' = IF closed THEN entries ELSE Reconciled(Want(p))
  /\ born' = IF closed THEN born ELSE Reborn(Want(p))
  /\ Goto(p, "idle")
  /\ Forget(p)
  /\ UNCHANGED <<world, config, manual, cert, closed, arg, changes, faults>>

SyncStep(p) == ReadNetworks(p) \/ ListRules(p) \/ ReadRows(p) \/ ResolveTargets(p) \/ Apply(p)

\* Manager.Close
Close ==
  /\ ~closed
  /\ changes < MaxChanges /\ changes' = changes + 1
  /\ closed' = TRUE
  /\ entries' = Nowhere
  /\ UNCHANGED <<world, config, manual, cert, born, pc, locals, arg, faults>>

-----------------------------------------------------------------------------
(***************************************************************************)
(* Who reconciles: the sweep, and the administrator's endpoints.           *)
(***************************************************************************)
Change == changes < MaxChanges /\ changes' = changes + 1

Sweep ==
  /\ pc[Sweeper] = "idle"
  /\ Goto(Sweeper, "networks")
  /\ UNCHANGED <<world, config, manual, cert, manager, locals, arg, changes, faults>>

\* forwardsPage: a GET that reconciles.
ForwardsPage(h) ==
  /\ pc[h] = "idle"
  /\ Change
  /\ Goto(h, "networks")
  /\ UNCHANGED <<world, config, manual, cert, manager, locals, arg, faults>>

\* validateManualForward, first half: login needs TCP, and a named container
\* must exist (and Docker must answer).
ForwardAdd(h, key, row) ==
  /\ pc[h] = "idle"
  /\ Change
  /\ row.login => key \in TcpKeys
  /\ row.cid # NoId => row.cid \in present
  /\ arg' = [arg EXCEPT ![h] = [key |-> key, row |-> row, nets |-> {}]]
  /\ Goto(h, "check")
  /\ UNCHANGED <<world, config, manual, cert, manager, locals, faults>>

\* Its second listing: the socket must not already be forwarded for a container
\* - a check that is skipped when Docker does not answer.
CheckSocket(h) ==
  /\ pc[h] = "check"
  /\ \/ /\ \E c \in running : HasSpec(c, arg[h].key, config)
        /\ arg' = [arg EXCEPT ![h] = NoArg] /\ Goto(h, "idle")
        /\ UNCHANGED faults
     \/ /\ \A c \in running : ~HasSpec(c, arg[h].key, config)
        /\ Goto(h, "insert")
        /\ UNCHANGED <<arg, faults>>
     \/ /\ Fault
        /\ Goto(h, "insert")
        /\ UNCHANGED arg
  /\ UNCHANGED <<world, config, manual, cert, manager, locals, changes>>

\* AddManualForward: the unique index refuses a second row on one socket.
InsertRow(h) ==
  LET key == arg[h].key IN
  /\ pc[h] = "insert"
  /\ IF manual[key] = NoRow
     THEN manual' = [manual EXCEPT ![key] = arg[h].row] /\ Goto(h, "networks")
     ELSE UNCHANGED manual /\ Goto(h, "idle")
  /\ arg' = [arg EXCEPT ![h] = NoArg]
  /\ UNCHANGED <<world, config, cert, manager, locals, changes, faults>>

\* forwardDelete
ForwardDelete(h, key) ==
  /\ pc[h] = "idle"
  /\ Change
  /\ manual[key] # NoRow
  /\ manual' = [manual EXCEPT ![key] = NoRow]
  /\ Goto(h, "networks")
  /\ UNCHANGED <<world, config, cert, manager, locals, arg, faults>>

\* portForwardSettings: the list is replaced.
SaveSettings(h, networks) ==
  /\ pc[h] = "idle"
  /\ Change
  /\ config' = networks
  /\ Goto(h, "networks")
  /\ UNCHANGED <<world, manual, cert, manager, locals, arg, faults>>

\* networkForward: read the list, then write it back with one network changed.
NetworkForward(h, network, forward) ==
  /\ pc[h] = "idle"
  /\ Change
  /\ arg' = [arg EXCEPT ![h] = [key |-> NoId, row |-> NoRow,
                                nets |-> IF forward THEN config \cup {network} ELSE config \ {network}]]
  /\ Goto(h, "save")
  /\ UNCHANGED <<world, config, manual, cert, manager, locals, faults>>

SaveNetworks(h) ==
  /\ pc[h] = "save"
  /\ config' = arg[h].nets
  /\ arg' = [arg EXCEPT ![h] = NoArg]
  /\ Goto(h, "networks")
  /\ UNCHANGED <<world, manual, cert, manager, locals, changes, faults>>

Request(h) ==
  \/ ForwardsPage(h)
  \/ \E r \in Rows : ForwardAdd(h, r.key, r.row)
  \/ \E k \in Keys : ForwardDelete(h, k)
  \/ \E s \in SUBSET Networks : SaveSettings(h, s)
  \/ \E n \in Networks, b \in BOOLEAN : NetworkForward(h, n, b)

HandlerStep(h) == CheckSocket(h) \/ InsertRow(h) \/ SaveNetworks(h)

-----------------------------------------------------------------------------
(***************************************************************************)
(* The world mudp does not control.                                        *)
(***************************************************************************)
ContainerStarts(c, where) ==
  /\ Change
  /\ c \notin running
  /\ running' = running \cup {c} /\ present' = present \cup {c}
  /\ place' = [place EXCEPT ![c] = where]
  /\ UNCHANGED <<busy, config, manual, cert, manager, pc, locals, arg, faults>>

NoPlace == [n \in Networks |-> NoAddr]

ContainerStops(c, gone) ==
  /\ Change
  /\ c \in present
  /\ gone \/ c \in running
  /\ running' = running \ {c}
  /\ present' = IF gone THEN present \ {c} ELSE present
  /\ place' = [place EXCEPT ![c] = NoPlace]
  /\ UNCHANGED <<busy, config, manual, cert, manager, pc, locals, arg, faults>>

\* Another process binds a free socket, or lets go of one.
SocketTaken(k) ==
  /\ Change
  /\ entries[k] = NoRule /\ k \notin busy
  /\ busy' = busy \cup {k}
  /\ UNCHANGED <<running, present, place, config, manual, cert, manager, pc, locals, arg, faults>>

SocketFreed(k) ==
  /\ Change
  /\ k \in busy
  /\ busy' = busy \ {k}
  /\ UNCHANGED <<running, present, place, config, manual, cert, manager, pc, locals, arg, faults>>

World ==
  \/ \E c \in Containers : \E where \in Places[c] : ContainerStarts(c, where)
  \/ \E c \in Containers, gone \in BOOLEAN : ContainerStops(c, gone)
  \/ \E k \in Keys : SocketTaken(k) \/ SocketFreed(k)

Init ==
  /\ running = {} /\ present = {} /\ busy = {}
  /\ place = [c \in Containers |-> NoPlace]
  /\ config \in SUBSET Networks
  /\ manual \in {f \in [Keys -> {NoRow} \cup {r.row : r \in Rows}] :
                   \A k \in Keys : \/ f[k] = NoRow
                                   \/ [key |-> k, row |-> f[k]] \in Rows /\ (f[k].login => k \in TcpKeys)}
  /\ cert \in BOOLEAN
  /\ entries = Nowhere /\ born = [k \in Keys |-> 0] /\ closed = FALSE
  /\ pc = [p \in Procs |-> "idle"]
  /\ nets = [p \in Procs |-> {}]
  /\ crules = [p \in Procs |-> Nowhere]
  /\ mrules = [p \in Procs |-> Nowhere]
  /\ failed = [p \in Procs |-> {}]
  /\ stored = [p \in Procs |-> [k \in Keys |-> NoRow]]
  /\ arg = [h \in Handlers |-> NoArg]
  /\ calm = {} /\ changes = 0 /\ faults = 0

Reconciling(label) == label \in {"networks", "list", "rows", "targets", "apply"}

\* A reconcile is calm from its first step on, until what it reads changes or a
\* call of its own fails; what a handler writes in its last step before the
\* reconcile disturbs the other reconciles, not its own.  Shutdown ends it.
Watch ==
  calm' = {p \in Procs :
             /\ Reconciling(pc'[p]) /\ ~closed'
             /\ Reconciling(pc[p]) =>
                  /\ p \in calm
                  /\ UNCHANGED <<running, place, config, manual>>
                  /\ pc'[p] # pc[p] => UNCHANGED faults}

Step ==
  \/ \E p \in Procs : SyncStep(p)
  \/ \E h \in Handlers : Request(h) \/ HandlerStep(h)
  \/ Sweep
  \/ Close
  \/ World

Next == Step /\ Watch

Safety == Init /\ [][Next]_vars

(***************************************************************************)
(* The 15 second ticker keeps sweeping and a goroutine that started        *)
(* finishes.  Nothing forces a request, a change of the world or a         *)
(* shutdown; calls fail finitely often.  A goroutine that is not idle      *)
(* stands before one step, which is never blocked, so that weak fairness   *)
(* of its proceeding is weak fairness of each of its steps.                *)
(***************************************************************************)
Labels == {"idle", "networks", "list", "rows", "targets", "apply", "check", "insert", "save"}

Proceeds(p) == \E label \in Labels \ {pc[p]} : Goto(p, label)

Fairness ==
  /\ WF_pc(Proceeds(Sweeper))
  /\ \A h \in Handlers : WF_pc(pc[h] # "idle" /\ Proceeds(h))

Spec == Safety /\ Fairness

-----------------------------------------------------------------------------
Served == [ip : Addrs, port : Ports, tls : BOOLEAN, login : BOOLEAN,
           src : {"container", "manual"}, id : Containers \cup {NoId}]

TypeOK ==
  /\ running \subseteq present /\ present \subseteq Containers
  /\ place \in [Containers -> [Networks -> Addrs \cup {NoAddr}]]
  /\ config \subseteq Networks
  /\ manual \in [Keys -> Row \cup {NoRow}]
  /\ busy \subseteq Keys /\ cert \in BOOLEAN /\ closed \in BOOLEAN
  /\ entries \in [Keys -> Served \cup {NoRule}]
  /\ born \in [Keys -> {0, 1}]
  /\ pc \in [Procs -> Labels]
  /\ nets \in [Procs -> SUBSET Networks]
  /\ crules \in [Procs -> [Keys -> Served \cup {NoRule}]]
  /\ mrules \in [Procs -> [Keys -> Served \cup {NoRule}]]
  /\ failed \in [Procs -> SUBSET {"list", "targets"}]
  /\ stored \in [Procs -> [Keys -> Row \cup {NoRow}]]
  /\ arg \in [Handlers -> [key : Keys \cup {NoId}, row : Row \cup {NoRow}, nets : SUBSET Networks]]
  /\ calm \subseteq Procs
  /\ changes \in Nat /\ faults \in Nat

\* A reconcile that races shutdown cannot resurrect a listener: once the
\* manager is closed nothing listens again, however many reconciles were in
\* flight (portfwd.go, Close).
ClosedForGood == closed => entries = Nowhere

\* Every listener can honour what its rule promises: it holds a socket nobody
\* else does, speaks TLS only with a certificate, and a UDP listener never
\* carries a login gate or TLS (Validate and start).
Honoured ==
  \A k \in Keys : entries[k] # NoRule =>
     /\ k \notin busy
     /\ entries[k].tls => cert
     /\ k \in UdpKeys => ~entries[k].login /\ ~entries[k].tls

\* The step by which process p's reconcile takes effect.
Applies(p) == pc[p] = "apply" /\ pc'[p] = "idle" /\ ~closed

\* The step by which process p's container listing fails.
ListFails(p) == "list" \notin failed[p] /\ "list" \in failed'[p]

\* A reconcile whose container listing failed disturbs no container's forward that
\* was served when it failed and still is: the ones being served are carried over
\* until the daemon answers (SyncPortForward, the error branch).
OutageKeepsContainers ==
  [][\A p \in Procs, k \in Keys : entries[k].src = "container" =>
        /\ ListFails(p) => crules'[p][k] = entries[k]
        /\ Applies(p) /\ "list" \in failed[p] /\ crules[p][k] = entries[k] =>
             entries'[k] = entries[k] /\ born'[k] = born[k]]_vars

\* The rules as they stand: the container rules first, then the manual ones.
Wanted(ips) ==
  LET c == ForwardRules(config, ips)
      m == ManualRules(manual, ips)
  IN  [k \in Keys |-> IF c[k] # NoRule THEN c[k] ELSE m[k]]

\* What should be served of them: where the socket is free and a certificate is
\* there if one is needed.
Desired(ips) ==
  [k \in Keys |-> IF CanStart(k, Wanted(ips)[k]) THEN Wanted(ips)[k] ELSE NoRule]

\* However the addresses resolve, the socket's rule has the destination and the
\* transport its listener serves - whoever the rule is for, and gated or not.
StillRight(k) ==
  /\ entries[k] # NoRule
  /\ \A ips \in ListedIPs :
       LET r == Wanted(ips)[k]
       IN  r # NoRule /\ SameTarget(r, entries[k]) /\ r.tls = entries[k].tls

\* A reconcile nothing disturbed while it read - no container, setting or row
\* changed and none of its calls failed - cuts no connection it need not cut: the
\* listener whose destination and transport are still right is the same one
\* afterwards, even where the socket passed from a row to a container or its
\* login gate was switched, and whatever other reconciles did in the meantime
\* (Apply, the kept case).
CalmKeeps ==
  [][\A p \in Procs : Applies(p) /\ p \in calm =>
        \A k \in Keys : StillRight(k) => entries'[k] # NoRule /\ born'[k] = born[k]]_vars

Settled == IF closed THEN entries = Nowhere ELSE \E ips \in ListedIPs : entries = Desired(ips)

\* Once the world and the administrator stop changing things, the listeners
\* become exactly the wanted ones and stay so, whatever stale reconciles were
\* under way and whatever calls failed before (the 15 second sweep).
Converges == <>[]Settled

-----------------------------------------------------------------------------
(* What the documentation and the comments say, and the code does not do.   *)

\* "If Docker becomes unreachable, the forwards already running are kept as
\* they are rather than torn down."
OutageKeepsAll ==
  [][\A p \in Procs : Applies(p) /\ {"list", "targets"} \subseteq failed[p] =>
        \A k \in Keys : entries[k] # NoRule /\ manual[k] = stored[p][k] => entries'[k] # NoRule]_vars

\* "forwardDelete removes a manual forward and stops its listener": when no
\* request is being served, no listener runs for a row that is not stored.
DeletedNotServed ==
  (\A h \in Handlers : pc[h] = "idle") =>
     \A k \in Keys : entries[k].src = "manual" => manual[k] # NoRow

\* Apply "is idempotent, so callers reconcile on a timer": a reconcile in an
\* unchanged world leaves a settled manager alone.
ReconcileIdempotent ==
  [][\A p \in Procs : Applies(p) /\ Settled => born' = born]_vars

\* "containers created while it was on keep their recorded mapping and stop
\* being reachable on the host": without forwarding networks, a sweep serves no
\* container.
OffServesNoContainer ==
  [][\A p \in Procs : Applies(p) /\ config = {} /\ failed[p] = {} =>
        \A k \in Keys : entries'[k].src # "container"]_vars
=============================================================================
