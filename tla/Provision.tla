------------------------------ MODULE Provision -----------------------------
(***************************************************************************)
(* Who may have how many containers, and on which host ports: accounts     *)
(* with their block of host ports and their container cap                  *)
(* (internal/store/store.go, internal/server/users_ext.go), the requests   *)
(* that create a container, copy one or deploy a stack                     *)
(* (internal/server/server.go, stacks.go, internal/dockerx/docker.go,      *)
(* compose.go), and the containers the Docker daemon then has.             *)
(*                                                                         *)
(* A request reads the account once, at its start, and then makes one      *)
(* Docker call after another; each call is a step.  A call refused before  *)
(* the container exists ends the request, whatever the reason: Refuse.     *)
(***************************************************************************)
EXTENDS Integers, FiniteSets

CONSTANTS
  None,         \* no account, no container
  Users,        \* user names
  Ids,          \* container identities
  Reqs,         \* requests the server may be executing at once
  Stacks,       \* stored compose stacks
  Owner,        \* the owner of a stack
  Services,     \* the containers it defines
  StackPorts,   \* the host ports it publishes
  Roles,        \* for each user, whether an administrator may make the account one: a set of BOOLEAN
  Caps,         \* container caps an account may have
  DefaultCap,   \* the cap of an account made by a Feishu login: 10
  Prefixes,     \* port prefixes an administrator may type
  LastPrefix,   \* the last prefix handed out: 655
  UserCapacity, \* bound on accounts, a setting
  PortCounts,   \* how many ports a create form may ask for
  HostBusy,     \* host ports other programs listen on
  Overlap,      \* whether requests for one account, or one block of ports, may overlap
  MaxEdits,     \* bound on edits and deletions of accounts
  MaxFaults     \* bound on failed calls that are not seen as failures, and on clients that go away

FirstPrefix == 101

ASSUME ProvisionAssumption ==
  /\ None \notin Users \cup Ids \cup Stacks
  /\ IsFiniteSet(Users) /\ IsFiniteSet(Ids)
  /\ Owner \in [Stacks -> Users]
  /\ Services \in [Stacks -> Nat \ {0}]
  /\ Roles \in [Users -> SUBSET BOOLEAN]
  /\ Caps \subseteq Nat /\ DefaultCap \in Caps
  /\ LastPrefix \in FirstPrefix .. 655 /\ Prefixes \subseteq 0 .. LastPrefix
  /\ UserCapacity \in Nat \ {0} /\ PortCounts \subseteq Nat /\ MaxEdits \in Nat /\ MaxFaults \in Nat
  /\ Overlap \in BOOLEAN

VARIABLES
  users,   \* the users table
  docker,  \* containers labelled as managed by mudp
  up,      \* containers each stack has: not labelled, so no listing of mudp's shows them
  req,     \* requests in progress
  edits,   \* edits and deletions of accounts so far
  faults   \* faults so far

vars == <<users, docker, up, req, edits, faults>>

Ports == 10000 .. 65535

\* The host ports of a prefix: nextPort skips what is below 10000 or above 65535.
Block(prefix) == (prefix * 100 .. prefix * 100 + 99) \cap Ports

Row == [prefix : 0 .. LastPrefix, cap : Caps, admin : BOOLEAN]

\* Published ports are Docker's; forwarded ones are a label, and mudp listens on them.
Container == [owner : Users, state : {"created", "running", "exited"},
              pub : SUBSET Ports, fwd : SUBSET Ports]

Steps == {"cap", "inspect", "ports", "alloc", "create", "start", "undo", "stop", "up"}

Request == [pc : Steps, kind : {"create", "duplicate", "stack"}, user : Users, row : Row,
            of : Ids \cup Stacks \cup {None},  \* the container copied, the stack deployed
            want : Nat,                        \* ports to allocate
            used : SUBSET Ports,               \* managedHostPorts' answer
            ports : SUBSET Ports,              \* allocated
            id : Ids \cup {None},
            alive : BOOLEAN]                   \* the client is still there

ASSUME NoneAssumption == None \notin Request

Init ==
  /\ users = [u \in Users |-> None]
  /\ docker = [c \in Ids |-> None]
  /\ up = [s \in Stacks |-> 0]
  /\ req = [r \in Reqs |-> None]
  /\ edits = 0 /\ faults = 0
-----------------------------------------------------------------------------
Accounts == {u \in Users : users[u] # None}

Existing == {c \in Ids : docker[c] # None}

Running == {c \in Existing : docker[c].state = "running"}

Active == {r \in Reqs : req[r] # None}

\* ListContainers for one user, running or not.
Listed(u) == {c \in Existing : docker[c].owner = u}

\* What a bind on a host port, or Docker's own, finds taken.
Bound == HostBusy \cup (UNION {docker[c].pub : c \in Running})
         \cup (UNION {StackPorts[s] : s \in {t \in Stacks : up[t] > 0}})

\* Ports mudp listens on once its next sweep has seen the container.
Relayed == UNION {docker[c].fwd : c \in Running}

\* Mutant of managedHostPorts: the forward label is not read.
managedHostPortsPublished == UNION {docker[c].pub : c \in Running}

\* Docker reports the ports of running containers; the label is read of all.
managedHostPorts ==
  (UNION {docker[c].pub : c \in Running}) \cup (UNION {docker[c].fwd : c \in Existing})
-----------------------------------------------------------------------------
(***************************************************************************)
(* Accounts.  Each write is one transaction, and SQLite serialises them.   *)
(* userUpdate makes two, which other handlers may come between: the role   *)
(* and the cap, and then the prefix, if the form has one.                  *)
(***************************************************************************)
\* The unique index on port_prefix, which leaves 0 out.
PrefixTaken(u, prefix) == prefix > 0 /\ \E v \in Accounts \ {u} : users[v].prefix = prefix

\* One more than the largest prefix in use.
nextPortPrefix(n) ==
  /\ n \in FirstPrefix .. LastPrefix
  /\ \A u \in Accounts : users[u].prefix < n
  /\ n = FirstPrefix \/ \E u \in Accounts : users[u].prefix = n - 1

checkUserCapacity == Cardinality(Accounts) < UserCapacity

InsertUser(u, cap, admin) ==
  /\ u \notin Accounts
  /\ checkUserCapacity
  /\ \E n \in FirstPrefix .. LastPrefix + 1 :
       /\ nextPortPrefix(n)
       /\ users' = [users EXCEPT ![u] = [prefix |-> n, cap |-> cap, admin |-> admin]]
  /\ UNCHANGED <<docker, up, req, edits, faults>>

Administered == \E a \in Accounts : users[a].admin

\* An administrator's form; the first account is the setup page's, and an administrator's.
CreateUser(u) ==
  \E cap \in Caps, admin \in Roles[u] :
    /\ Administered \/ (Accounts = {} /\ admin)
    /\ InsertUser(u, cap, admin)

\* The first login of a Feishu user, which administrators configure.
CreateFeishuUser(u) == Accounts # {} /\ InsertUser(u, DefaultCap, FALSE)

\* Administrators do not demote themselves.
UpdateUser(u) ==
  /\ u \in Accounts /\ Administered /\ edits < MaxEdits /\ edits' = edits + 1
  /\ \E cap \in Caps, admin \in Roles[u] :
       /\ admin \/ \E a \in Accounts \ {u} : users[a].admin
       /\ users' = [users EXCEPT ![u].cap = cap, ![u].admin = admin]
  /\ UNCHANGED <<docker, up, req, faults>>

\* A prefix somebody else has is refused.
UpdateUserPortPrefix(u) ==
  /\ u \in Accounts /\ Administered /\ edits < MaxEdits /\ edits' = edits + 1
  /\ \E prefix \in Prefixes :
       /\ ~PrefixTaken(u, prefix)
       /\ users' = [users EXCEPT ![u].prefix = prefix]
  /\ UNCHANGED <<docker, up, req, faults>>

\* userDelete, by another administrator; it leaves the containers of the account alone.
UserDelete(u) ==
  /\ u \in Accounts /\ edits < MaxEdits /\ edits' = edits + 1
  /\ \E a \in Accounts \ {u} : users[a].admin
  /\ users' = [users EXCEPT ![u] = None]
  /\ UNCHANGED <<docker, up, req, faults>>
-----------------------------------------------------------------------------
(***************************************************************************)
(* The start of a request, and its end.                                    *)
(***************************************************************************)
Alone(u) ==
  \/ Overlap
  \/ \A q \in Active : /\ req[q].user # u
                       /\ Block(req[q].row.prefix) \cap Block(users[u].prefix) = {}

Begin(r, u, kind, of, want) ==
  /\ req[r] = None /\ u \in Accounts /\ Alone(u)
  /\ req' = [req EXCEPT ![r] =
               [pc |-> "cap", kind |-> kind, user |-> u, row |-> users[u], of |-> of,
                want |-> want, used |-> {}, ports |-> {}, id |-> None, alive |-> TRUE]]
  /\ UNCHANGED <<users, docker, up, edits, faults>>

\* POST /api/containers and createStream.
BeginCreate(r, u) == \E n \in PortCounts : Begin(r, u, "create", None, n)

\* containerDuplicate, of a container the caller owns.
BeginDuplicate(r, u) ==
  \E c \in Existing :
    /\ u \in Accounts /\ (docker[c].owner = u \/ users[u].admin)
    /\ Begin(r, u, "duplicate", c, 0)

\* A stack is its owner's or an administrator's to deploy, and goes with the account.
BeginStackUp(r, u, s) ==
  /\ {u, Owner[s]} \subseteq Accounts /\ (u = Owner[s] \/ users[u].admin)
  /\ Begin(r, u, "stack", s, 0)

At(r, pc) == r \in Active /\ req[r].pc = pc

Goto(r, pc) == req' = [req EXCEPT ![r].pc = pc]

End(r) == req' = [req EXCEPT ![r] = None]

Refuse(r) ==
  /\ r \in Active /\ req[r].pc \in {"cap", "inspect", "ports", "alloc", "create"}
  /\ End(r)
  /\ UNCHANGED <<users, docker, up, edits, faults>>

\* The client goes away: every later Docker call of the request fails at once.
Disconnect(r) ==
  /\ r \in Active /\ req[r].alive
  /\ faults < MaxFaults /\ faults' = faults + 1
  /\ req' = [req EXCEPT ![r].alive = FALSE]
  /\ UNCHANGED <<users, docker, up, edits>>
-----------------------------------------------------------------------------
(***************************************************************************)
(* CreateContainer.                                                        *)
(***************************************************************************)
\* Mutant of checkContainerCap: one container too many.
checkContainerCapOff(r) ==
  /\ At(r, "cap") /\ req[r].kind # "stack" /\ req[r].alive
  /\ req[r].row.admin \/ Cardinality(Listed(req[r].user)) <= req[r].row.cap
  /\ Goto(r, IF req[r].kind = "create" THEN "ports" ELSE "inspect")
  /\ UNCHANGED <<users, docker, up, edits, faults>>

checkContainerCap(r) ==
  /\ At(r, "cap") /\ req[r].kind # "stack" /\ req[r].alive
  /\ req[r].row.admin \/ Cardinality(Listed(req[r].user)) < req[r].row.cap
  /\ Goto(r, IF req[r].kind = "create" THEN "ports" ELSE "inspect")
  /\ UNCHANGED <<users, docker, up, edits, faults>>

\* DuplicateContainer asks for the ports it can see: a stopped container shows no published
\* one, and a port with a plain and a TLS listener is one port.
InspectSource(r) ==
  LET c == req[r].of IN
  /\ At(r, "inspect") /\ req[r].alive
  /\ c \in Existing
  /\ \E n \in 0 .. Cardinality(docker[c].pub \cup docker[c].fwd) :
       /\ IF docker[c].fwd # {}
            THEN n > 0
            ELSE n = IF c \in Running THEN Cardinality(docker[c].pub) ELSE 0
       /\ req' = [req EXCEPT ![r].want = n, ![r].pc = "ports"]
  /\ UNCHANGED <<users, docker, up, edits, faults>>

ReadPorts(r) ==
  /\ At(r, "ports") /\ req[r].alive
  /\ req' = [req EXCEPT ![r].used = managedHostPorts, ![r].pc = "alloc"]
  /\ UNCHANGED <<users, docker, up, edits, faults>>

\* The lowest free ports of the block; portFree sees a relay's listener once it is open.
nextPort(r) ==
  /\ At(r, "alloc")
  /\ \E open \in SUBSET Relayed :
       LET free == Block(req[r].row.prefix) \ (req[r].used \cup Bound \cup open)
           low  == {p \in free : Cardinality({q \in free : q < p}) < req[r].want}
       IN  /\ Cardinality(low) = req[r].want
           /\ req' = [req EXCEPT ![r].ports = low, ![r].used = {}, ![r].want = 0, ![r].pc = "create"]
  /\ UNCHANGED <<users, docker, up, edits, faults>>

\* Ports go to the forward label if the container joins forwarding networks only, to Docker
\* otherwise.
ContainerCreate(r) ==
  /\ At(r, "create") /\ req[r].alive
  /\ \E c \in Ids \ (Existing \cup (UNION {{req[q].id, req[q].of} : q \in Active})), forward \in BOOLEAN :
       /\ docker' = [docker EXCEPT ![c] =
                       [owner |-> req[r].user, state |-> "created",
                        pub |-> IF forward THEN {} ELSE req[r].ports,
                        fwd |-> IF forward THEN req[r].ports ELSE {}]]
       /\ req' = [req EXCEPT ![r].id = c, ![r].pc = "start"]
  /\ UNCHANGED <<users, up, edits, faults>>

CanStart(c) == c \in Existing \ Running /\ docker[c].pub \cap Bound = {}

ContainerStart(r) ==
  /\ At(r, "start") /\ req[r].alive
  /\ CanStart(req[r].id)
  /\ docker' = [docker EXCEPT ![req[r].id].state = "running"]
  /\ IF req[r].kind = "duplicate" THEN Goto(r, "stop") ELSE End(r)
  /\ UNCHANGED <<users, up, edits, faults>>

\* Mutant of StartFails: the error is returned and the container left as it is.
StartFailsKept(r) ==
  /\ At(r, "start")
  /\ End(r)
  /\ UNCHANGED <<users, docker, up, edits, faults>>

\* A port is taken, the command does not exist, the client is gone, somebody removed it.
StartFails(r) ==
  /\ At(r, "start")
  /\ Goto(r, "undo")
  /\ UNCHANGED <<users, docker, up, edits, faults>>

\* The container is removed with the same context, and the result is not looked at.
Undo(r) ==
  /\ At(r, "undo")
  /\ \/ req[r].alive /\ docker' = [docker EXCEPT ![req[r].id] = None] /\ UNCHANGED faults
     \/ ~req[r].alive /\ UNCHANGED <<docker, faults>>
     \/ faults < MaxFaults /\ faults' = faults + 1 /\ UNCHANGED docker
  /\ End(r)
  /\ UNCHANGED <<users, up, edits>>

\* A copy is started and then stopped; an error of the stop is ignored.
StopCopy(r) ==
  /\ At(r, "stop")
  /\ docker' = IF req[r].alive /\ req[r].id \in Running
                 THEN [docker EXCEPT ![req[r].id].state = "exited"] ELSE docker
  /\ End(r)
  /\ UNCHANGED <<users, up, edits, faults>>
-----------------------------------------------------------------------------
(***************************************************************************)
(* Actions on an existing container, by its owner.                         *)
(***************************************************************************)
StartAction(c) ==
  /\ CanStart(c)
  /\ docker' = [docker EXCEPT ![c].state = "running"]
  /\ UNCHANGED <<users, up, req, edits, faults>>

StopAction(c) ==
  /\ c \in Running
  /\ docker' = [docker EXCEPT ![c].state = "exited"]
  /\ UNCHANGED <<users, up, req, edits, faults>>

RemoveAction(c) ==
  /\ c \in Existing
  /\ docker' = [docker EXCEPT ![c] = None]
  /\ UNCHANGED <<users, up, req, edits, faults>>
-----------------------------------------------------------------------------
(***************************************************************************)
(* Stacks.                                                                 *)
(***************************************************************************)
\* stackUpStream's quota guard, which takes a failed listing for an empty one, and
\* runStackSSE's validation, which uses the row of the owner if there still is one.
StackGuard(r) ==
  LET s == req[r].of
      row == IF users[Owner[s]] # None THEN users[Owner[s]] ELSE req[r].row
      Fits(listed) == req[r].row.admin \/ listed + Services[s] <= req[r].row.cap
  IN
  /\ At(r, "cap") /\ req[r].kind = "stack"
  /\ \/ /\ Fits(IF req[r].alive THEN Cardinality(Listed(req[r].user)) ELSE 0)
        /\ UNCHANGED faults
     \/ /\ Fits(0)
        /\ faults < MaxFaults /\ faults' = faults + 1
  /\ \/ row.admin \/ StackPorts[s] = {}
     \/ row.prefix > 0 /\ StackPorts[s] \subseteq row.prefix * 100 .. row.prefix * 100 + 99
  /\ Goto(r, "up")
  /\ UNCHANGED <<users, docker, up, edits>>

ComposeUp(r) ==
  LET s == req[r].of IN
  /\ At(r, "up") /\ req[r].alive
  /\ up[s] > 0 \/ StackPorts[s] \cap Bound = {}
  /\ up' = [up EXCEPT ![s] = Services[s]]
  /\ End(r)
  /\ UNCHANGED <<users, docker, edits, faults>>

\* compose fails or is killed: some of the services may be up.
ComposeUpFails(r) ==
  LET s == req[r].of IN
  /\ At(r, "up")
  /\ \E n \in up[s] .. Services[s] :
       /\ n = up[s] \/ up[s] > 0 \/ StackPorts[s] \cap Bound = {}
       /\ up' = [up EXCEPT ![s] = n]
  /\ End(r)
  /\ UNCHANGED <<users, docker, edits, faults>>

\* stackDownStream; cut short, it leaves some of them.
ComposeDown(s) ==
  /\ Owner[s] \in Accounts /\ up[s] > 0
  /\ \E n \in 0 .. up[s] - 1 : up' = [up EXCEPT ![s] = n]
  /\ UNCHANGED <<users, docker, req, edits, faults>>
-----------------------------------------------------------------------------
Serve(r) ==
  \/ Refuse(r) \/ checkContainerCap(r) \/ InspectSource(r) \/ ReadPorts(r) \/ nextPort(r)
  \/ ContainerCreate(r) \/ ContainerStart(r) \/ StartFails(r) \/ Undo(r) \/ StopCopy(r)
  \/ StackGuard(r) \/ ComposeUp(r) \/ ComposeUpFails(r)

Next ==
  \/ \E u \in Users : CreateUser(u) \/ CreateFeishuUser(u) \/ UpdateUser(u)
                     \/ UpdateUserPortPrefix(u) \/ UserDelete(u)
  \/ \E r \in Reqs, u \in Users : BeginCreate(r, u) \/ BeginDuplicate(r, u)
  \/ \E r \in Reqs, u \in Users, s \in Stacks : BeginStackUp(r, u, s)
  \/ \E r \in Reqs : Serve(r) \/ Disconnect(r)
  \/ \E c \in Ids : StartAction(c) \/ StopAction(c) \/ RemoveAction(c)
  \/ \E s \in Stacks : ComposeDown(s)

Spec == Init /\ [][Next]_vars
-----------------------------------------------------------------------------
\* Every variable keeps its type; an account's prefix is never beyond the last one.
TypeOK ==
  /\ users \in [Users -> Row \cup {None}]
  /\ docker \in [Ids -> Container \cup {None}]
  /\ up \in [Stacks -> Nat]
  /\ req \in [Reqs -> Request \cup {None}]
  /\ edits \in 0 .. MaxEdits /\ faults \in 0 .. MaxFaults

\* No two managed containers hold the same forwarded host port, running or stopped: a stopped
\* one keeps its claim although Docker does not know of it, through copies, removals, prefixes
\* that are moved to another account and accounts that are deleted and made again.
ForwardClaimsDistinct ==
  \A c, d \in Existing : c # d => docker[c].fwd \cap docker[d].fwd = {}

\* A container that was never started belongs to a request still at work on it:
\* a creation that fails removes what it created.
PartialRemoved ==
  \A c \in Existing : docker[c].state = "created" => \E r \in Active : req[r].id = c

\* The same as long as clients stay and clean-up calls succeed.
NothingHalfCreated == faults = 0 => PartialRemoved

\* Creating or copying never takes an account over the cap it had when the request began.
CapRespected ==
  [][\A u \in Users :
       Cardinality(Listed(u)') > Cardinality(Listed(u)) =>
         \E r \in Active : /\ req[r].user = u
                           /\ req[r].row.admin \/ Cardinality(Listed(u)') <= req[r].row.cap]_vars

\* The containers the stacks of a user have.
StackContainers(u) == UNION {{<<s, i>> : i \in 1 .. up[s]} : s \in {t \in Stacks : Owner[t] = u}}

\* "existing containers + new services must fit the cap": deploying a stack never takes an
\* account over its cap.
StackFitsCap ==
  [][\A u \in Users, r \in Active :
       (/\ req[r].user = u /\ ~req[r].row.admin
        /\ req[r].pc = "up" /\ req'[r] = None /\ up' # up) =>
         Cardinality(Listed(u)') + Cardinality(StackContainers(u)') <= req[r].row.cap]_vars

=============================================================================
