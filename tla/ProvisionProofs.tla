--------------------------- MODULE ProvisionProofs --------------------------
(***************************************************************************)
(* Proofs about Provision, for any number of accounts, containers,         *)
(* requests, stacks and ports: the type invariant; that no two containers  *)
(* are given the same forwarded host port and no account is taken over its *)
(* cap as long as requests for one account or one block of ports do not    *)
(* overlap; and that a creation that fails leaves nothing behind.          *)
(***************************************************************************)
EXTENDS Provision, FiniteSetTheorems, TLAPS

\* Ports are bounded natural numbers.
LEMMA PortBound ==
  ASSUME NEW p \in Ports
  PROVE  p \in Nat /\ p <= 65535
BY DEF Ports

\* The ports of a container are finitely many, so their number is a number.
LEMMA PortCount ==
  ASSUME NEW S \in SUBSET Ports
  PROVE  Cardinality(S) \in Nat
<1> DEFINE last == 65535
<1>1. \A p \in S : p \in Ports
  OBVIOUS
<1>2. \A p \in Ports : p \in Nat /\ p <= last
  BY PortBound
<1>3. last \in Nat
  OBVIOUS
<1> HIDE DEF last
<1>4. S \in SUBSET Nat /\ \A p \in S : p <= last
  BY <1>1, <1>2
<1>5. IsFiniteSet(S)
  BY <1>3, <1>4, FS_BoundedSetOfNaturals
<1> QED
  BY <1>5, FS_CardinalityType

\* What managedHostPorts returns are ports.
LEMMA UsedArePorts ==
  ASSUME TypeOK
  PROVE  managedHostPorts \in SUBSET Ports
<1>1. \A c \in Existing : docker[c].pub \subseteq Ports /\ docker[c].fwd \subseteq Ports
  BY DEF TypeOK, Existing, Container
<1>2. Running \subseteq Existing
  BY DEF Running
<1>3. ASSUME NEW p \in managedHostPorts
      PROVE  p \in Ports
  <2>1. CASE p \in UNION {docker[c].pub : c \in Running}
    <3>1. PICK c \in Running : p \in docker[c].pub
      BY <2>1, Zenon
    <3> QED
      BY <1>1, <1>2, <3>1
  <2>2. CASE p \in UNION {docker[c].fwd : c \in Existing}
    <3>1. PICK c \in Existing : p \in docker[c].fwd
      BY <2>2, Zenon
    <3> QED
      BY <1>1, <3>1
  <2> QED
    BY <1>3, <2>1, <2>2, Zenon DEF managedHostPorts
<1> QED
  BY <1>3

\* A step of a request is a step of one that is at work.
LEMMA AtWork ==
  ASSUME TypeOK, NEW r \in Reqs, Serve(r) \/ Disconnect(r)
  PROVE  r \in Active /\ req[r] \in Request
<1>1. r \in Active
  BY DEF Serve, Disconnect, Refuse, checkContainerCap, InspectSource, ReadPorts, nextPort,
         ContainerCreate, ContainerStart, StartFails, Undo, StopCopy, StackGuard, ComposeUp,
         ComposeUpFails, At
<1> QED
  BY <1>1 DEF TypeOK, Active

\* A request keeps its type when it is replaced by a request.
LEMMA RequestPut ==
  ASSUME TypeOK, NEW r \in Reqs, NEW x \in Request \cup {None}, req' = [req EXCEPT ![r] = x]
  PROVE  req' \in [Reqs -> Request \cup {None}]
BY DEF TypeOK

\* Every step keeps the types.
LEMMA TypeStep ==
  ASSUME TypeOK, [Next]_vars
  PROVE  TypeOK'
<1>1. CASE UNCHANGED vars
  BY <1>1 DEF vars, TypeOK
<1>2. ASSUME NEW u \in Users,
             \/ CreateUser(u) \/ CreateFeishuUser(u)
             \/ UpdateUser(u) \/ UpdateUserPortPrefix(u) \/ UserDelete(u)
      PROVE  TypeOK'
  <2>1. ASSUME NEW cap \in Caps, NEW admin \in BOOLEAN, InsertUser(u, cap, admin)
        PROVE  TypeOK'
    BY <2>1 DEF TypeOK, InsertUser, nextPortPrefix, Row, FirstPrefix
  <2>2. CASE CreateUser(u)
    BY ProvisionAssumption, <2>1, <2>2 DEF CreateUser
  <2>3. CASE CreateFeishuUser(u)
    BY ProvisionAssumption, <2>1, <2>3 DEF CreateFeishuUser
  <2>4. CASE UpdateUser(u) \/ UpdateUserPortPrefix(u)
    <3>1. users[u] \in Row
      BY <2>4 DEF TypeOK, UpdateUser, UpdateUserPortPrefix, Accounts
    <3>2. CASE UpdateUser(u)
      <4>1. PICK cap \in Caps, admin \in BOOLEAN :
              users' = [users EXCEPT ![u].cap = cap, ![u].admin = admin]
        BY ProvisionAssumption, <3>2 DEF UpdateUser
      <4>2. PICK y : y = [users[u] EXCEPT !.cap = cap, !.admin = admin]
        OBVIOUS
      <4>3. y \in Row
        BY <3>1, <4>1, <4>2 DEF Row
      <4>4. users' = [users EXCEPT ![u] = y]
        BY <4>1, <4>2
      <4>5. users' \in [Users -> Row \cup {None}]
        BY <4>3, <4>4 DEF TypeOK
      <4> QED
        BY ProvisionAssumption, <3>2, <4>5 DEF TypeOK, UpdateUser
    <3>3. CASE UpdateUserPortPrefix(u)
      <4>1. PICK prefix \in 0 .. LastPrefix : users' = [users EXCEPT ![u].prefix = prefix]
        BY ProvisionAssumption, <3>3 DEF UpdateUserPortPrefix
      <4>2. users' \in [Users -> Row \cup {None}]
        BY <3>1, <4>1 DEF TypeOK, Row
      <4> QED
        BY ProvisionAssumption, <3>3, <4>2 DEF TypeOK, UpdateUserPortPrefix
    <3> QED
      BY <2>4, <3>2, <3>3
  <2>5. CASE UserDelete(u)
    BY ProvisionAssumption, <2>5 DEF TypeOK, UserDelete
  <2> QED
    BY <1>2, <2>2, <2>3, <2>4, <2>5
<1>3. ASSUME NEW r \in Reqs, NEW u \in Users, NEW kind \in {"create", "duplicate", "stack"},
             NEW of \in Ids \cup Stacks \cup {None}, NEW want \in Nat,
             Begin(r, u, kind, of, want)
      PROVE  TypeOK'
  <2>1. users[u] \in Row
    BY <1>3 DEF TypeOK, Begin, Accounts
  <2>2. [pc |-> "cap", kind |-> kind, user |-> u, row |-> users[u], of |-> of,
         want |-> want, used |-> {}, ports |-> {}, id |-> None, alive |-> TRUE] \in Request
    BY <2>1 DEF Request, Steps
  <2> QED
    BY <1>3, <2>2 DEF TypeOK, Begin
<1>4. ASSUME NEW r \in Reqs, Serve(r) \/ Disconnect(r)
      PROVE  TypeOK'
  <2>1. r \in Active /\ req[r] \in Request
    BY <1>4, AtWork
  <2>2. ASSUME NEW pc \in Steps, Goto(r, pc)
        PROVE  req' \in [Reqs -> Request \cup {None}]
    BY <2>1, <2>2 DEF TypeOK, Goto, Request
  <2>3. End(r) => req' \in [Reqs -> Request \cup {None}]
    BY DEF TypeOK, End
  <2>4. CASE Refuse(r)
    BY <2>3, <2>4 DEF TypeOK, Refuse
  <2>5. CASE checkContainerCap(r)
    BY <2>2, <2>5 DEF TypeOK, checkContainerCap, Steps
  <2>6. CASE InspectSource(r)
    <3>1. req[r].of \in Existing /\ docker[req[r].of] \in Container
      BY <2>6 DEF TypeOK, InspectSource, Existing
    <3>2. Cardinality(docker[req[r].of].pub \cup docker[req[r].of].fwd) \in Nat
      BY <3>1, PortCount DEF Container
    <3> DEFINE k == Cardinality(docker[req[r].of].pub \cup docker[req[r].of].fwd)
    <3>a. \E n \in 0 .. k : req' = [req EXCEPT ![r].want = n, ![r].pc = "ports"]
      BY <2>6 DEF InspectSource
    <3>b. 0 .. k \subseteq Nat
      BY <3>2
    <3>3. PICK n \in Nat : req' = [req EXCEPT ![r].want = n, ![r].pc = "ports"]
      <4> HIDE DEF k
      <4> QED BY <3>a, <3>b
    <3>4. req' \in [Reqs -> Request \cup {None}]
      <4>1. PICK x : x = [req[r] EXCEPT !.want = n, !.pc = "ports"]
        OBVIOUS
      <4>2. x \in Request
        BY <2>1, <3>3, <4>1 DEF Request, Steps
      <4>3. req' = [req EXCEPT ![r] = x]
        BY <3>3, <4>1
      <4> QED BY <2>1, <4>2, <4>3, RequestPut DEF Active
    <3> QED
      BY <2>6, <3>4 DEF TypeOK, InspectSource
  <2>7. CASE ReadPorts(r)
    <3>1. PICK used \in SUBSET Ports : req' = [req EXCEPT ![r].used = used, ![r].pc = "alloc"]
      BY <2>7, UsedArePorts DEF ReadPorts
    <3>2. req' \in [Reqs -> Request \cup {None}]
      <4>1. PICK x : x = [req[r] EXCEPT !.used = used, !.pc = "alloc"]
        OBVIOUS
      <4>2. x \in Request
        BY <2>1, <3>1, <4>1 DEF Request, Steps
      <4>3. req' = [req EXCEPT ![r] = x]
        BY <3>1, <4>1
      <4> QED BY <2>1, <4>2, <4>3, RequestPut DEF Active
    <3> QED
      BY <2>7, <3>2 DEF TypeOK, ReadPorts
  <2>8. CASE nextPort(r)
    <3>1. PICK low \in SUBSET Ports :
            req' = [req EXCEPT ![r].ports = low, ![r].used = {}, ![r].want = 0, ![r].pc = "create"]
      BY <2>8 DEF nextPort, Block
    <3>2. req' \in [Reqs -> Request \cup {None}]
      <4>1. PICK x : x = [req[r] EXCEPT !.ports = low, !.used = {}, !.want = 0, !.pc = "create"]
        OBVIOUS
      <4>2. x \in Request
        BY <2>1, <3>1, <4>1 DEF Request, Steps
      <4>3. req' = [req EXCEPT ![r] = x]
        BY <3>1, <4>1
      <4> QED BY <2>1, <4>2, <4>3, RequestPut DEF Active
    <3> QED
      BY <2>8, <3>2 DEF TypeOK, nextPort
  <2>9. CASE ContainerCreate(r)
    <3>1. PICK c \in Ids, forward \in BOOLEAN :
            /\ docker' = [docker EXCEPT ![c] =
                            [owner |-> req[r].user, state |-> "created",
                             pub |-> IF forward THEN {} ELSE req[r].ports,
                             fwd |-> IF forward THEN req[r].ports ELSE {}]]
            /\ req' = [req EXCEPT ![r].id = c, ![r].pc = "start"]
      BY <2>9 DEF ContainerCreate
    <3>2. docker' \in [Ids -> Container \cup {None}]
      BY <2>1, <3>1 DEF TypeOK, Request, Container
    <3>3. req' \in [Reqs -> Request \cup {None}]
      <4>1. PICK x : x = [req[r] EXCEPT !.id = c, !.pc = "start"]
        OBVIOUS
      <4>2. x \in Request
        BY <2>1, <3>1, <4>1 DEF Request, Steps
      <4>3. req' = [req EXCEPT ![r] = x]
        BY <3>1, <4>1
      <4> QED BY <2>1, <4>2, <4>3, RequestPut DEF Active
    <3> QED
      BY <2>9, <3>2, <3>3 DEF TypeOK, ContainerCreate
  <2>10. ASSUME NEW c \in Existing, NEW state \in {"running", "exited"},
                docker' = [docker EXCEPT ![c].state = state]
         PROVE  docker' \in [Ids -> Container \cup {None}]
    BY <2>10 DEF TypeOK, Existing, Container
  <2>11. CASE ContainerStart(r)
    <3>1. docker' \in [Ids -> Container \cup {None}]
      BY <2>10, <2>11 DEF ContainerStart, CanStart
    <3>2. req' \in [Reqs -> Request \cup {None}]
      BY <2>2, <2>3, <2>11 DEF ContainerStart, Steps
    <3> QED
      BY <2>11, <3>1, <3>2 DEF TypeOK, ContainerStart
  <2>12. CASE StartFails(r)
    BY <2>2, <2>12 DEF TypeOK, StartFails, Steps
  <2>13. CASE Undo(r)
    BY ProvisionAssumption, <2>3, <2>13 DEF TypeOK, Undo
  <2>14. CASE StopCopy(r)
    <3>1. docker' \in [Ids -> Container \cup {None}]
      BY <2>10, <2>14 DEF TypeOK, StopCopy, Running
    <3> QED
      BY <2>3, <2>14, <3>1 DEF TypeOK, StopCopy
  <2>15. CASE StackGuard(r)
    BY ProvisionAssumption, <2>2, <2>15 DEF TypeOK, StackGuard, Steps
  <2>16. CASE ComposeUp(r)
    <3>1. up' \in [Stacks -> Nat]
      BY ProvisionAssumption, <2>16 DEF TypeOK, ComposeUp
    <3> QED
      BY <2>3, <2>16, <3>1 DEF TypeOK, ComposeUp
  <2>17. CASE ComposeUpFails(r)
    <3>1. up' \in [Stacks -> Nat]
      <4>1. PICK n \in up[req[r].of] .. Services[req[r].of] : up' = [up EXCEPT ![req[r].of] = n]
        BY <2>17 DEF ComposeUpFails
      <4>2. CASE req[r].of \in Stacks
        <5>1. up[req[r].of] \in Nat
          BY <4>2 DEF TypeOK
        <5>2. n \in Nat
          BY <5>1
        <5> QED BY <4>1, <5>2 DEF TypeOK
      <4>3. CASE req[r].of \notin Stacks
        BY <4>1, <4>3 DEF TypeOK
      <4> QED
        BY <4>2, <4>3
    <3> QED
      BY <2>3, <2>17, <3>1 DEF TypeOK, ComposeUpFails
  <2>18. CASE Disconnect(r)
    <3>1. req' \in [Reqs -> Request \cup {None}]
      BY <2>1, <2>18 DEF TypeOK, Disconnect, Request
    <3> QED
      BY ProvisionAssumption, <2>18, <3>1 DEF TypeOK, Disconnect
  <2> QED
    BY <1>4, <2>4, <2>5, <2>6, <2>7, <2>8, <2>9, <2>11, <2>12, <2>13, <2>14, <2>15, <2>16,
       <2>17, <2>18 DEF Serve
<1>5. ASSUME NEW c \in Ids, StartAction(c) \/ StopAction(c) \/ RemoveAction(c)
      PROVE  TypeOK'
  <2>1. docker' \in [Ids -> Container \cup {None}]
    BY <1>5 DEF TypeOK, StartAction, StopAction, RemoveAction, CanStart, Running, Existing, Container
  <2> QED
    BY <1>5, <2>1 DEF TypeOK, StartAction, StopAction, RemoveAction
<1>6. ASSUME NEW s \in Stacks, ComposeDown(s)
      PROVE  TypeOK'
  <2>1. up' \in [Stacks -> Nat]
    BY <1>6 DEF TypeOK, ComposeDown
  <2> QED
    BY <1>6, <2>1 DEF TypeOK, ComposeDown
<1>7. ASSUME NEW r \in Reqs, NEW u \in Users, BeginCreate(r, u) \/ BeginDuplicate(r, u)
      PROVE  TypeOK'
  <2>1. CASE BeginCreate(r, u)
    BY ProvisionAssumption, <1>3, <2>1 DEF BeginCreate
  <2>2. CASE BeginDuplicate(r, u)
    <3>1. PICK c \in Ids : Begin(r, u, "duplicate", c, 0)
      BY <2>2 DEF BeginDuplicate, Existing
    <3> QED
      BY <1>3, <3>1
  <2> QED
    BY <1>7, <2>1, <2>2
<1>8. ASSUME NEW r \in Reqs, NEW u \in Users, NEW s \in Stacks, BeginStackUp(r, u, s)
      PROVE  TypeOK'
  BY <1>3, <1>8 DEF BeginStackUp
<1> QED
  BY <1>1, <1>2, <1>4, <1>5, <1>6, <1>7, <1>8 DEF Next

\* Accounts, containers, stacks and requests keep their types, and no account has a prefix
\* beyond the last one, whatever the order of requests and administrators' edits.
THEOREM TypeCorrect == Spec => []TypeOK
<1>1. Init => TypeOK
  BY ProvisionAssumption DEF Init, TypeOK
<1>2. TypeOK /\ [Next]_vars => TypeOK'
  BY TypeStep
<1> QED
  BY <1>1, <1>2, PTL DEF Spec
-----------------------------------------------------------------------------
(***************************************************************************)
(* Forwarded ports.  Docker does not know of them, so nothing but what     *)
(* managedHostPorts read keeps two containers apart, and what it read is   *)
(* old by the time the container is created.  The invariant says why that  *)
(* is enough when the requests at work have blocks of ports of their own:  *)
(* whatever was claimed in the block since, this request claimed.          *)
(***************************************************************************)
\* The requests at work have disjoint blocks.
Separate ==
  \A r, q \in Active : r # q => Block(req[r].row.prefix) \cap Block(req[q].row.prefix) = {}

\* What managedHostPorts read still covers every claim in the block.
Seen ==
  \A r \in Active : req[r].pc = "alloc" =>
    \A c \in Existing : docker[c].fwd \cap Block(req[r].row.prefix) \subseteq req[r].used

\* Allocated ports are of the block, and nobody's claim.
Fresh ==
  \A r \in Active : req[r].pc = "create" =>
    /\ req[r].ports \subseteq Block(req[r].row.prefix)
    /\ \A c \in Existing : docker[c].fwd \cap req[r].ports = {}

ClaimInv == TypeOK /\ Separate /\ Seen /\ Fresh /\ ForwardClaimsDistinct

\* A step that hands out no ports: no claim appears, and each request keeps its row and what
\* it has read and allocated.
NoNewClaims == \A c \in Ids : docker'[c] # None => docker[c] # None /\ docker'[c].fwd = docker[c].fwd

Kept(r) ==
  req'[r] # None =>
    /\ req[r] # None /\ req'[r].row = req[r].row
    /\ req'[r].pc = "alloc" => req[r].pc = "alloc" /\ req'[r].used = req[r].used
    /\ req'[r].pc = "create" => req[r].pc = "create" /\ req'[r].ports = req[r].ports

\* Such a step keeps the invariant.
LEMMA QuietStep ==
  ASSUME ClaimInv, TypeOK', NoNewClaims, \A r \in Reqs : Kept(r)
  PROVE  ClaimInv'
<1>1. Separate'
  BY DEF ClaimInv, Separate, Active, Kept
<1>2. Seen'
  BY DEF ClaimInv, Seen, Active, Existing, Kept, NoNewClaims
<1>3. Fresh'
  BY DEF ClaimInv, Fresh, Active, Existing, Kept, NoNewClaims
<1>4. ForwardClaimsDistinct'
  BY DEF ClaimInv, ForwardClaimsDistinct, Existing, NoNewClaims
<1> QED
  BY <1>1, <1>2, <1>3, <1>4 DEF ClaimInv

\* Moving a request to a step that is not an allocation, or ending it, keeps what it holds.
LEMMA MovedKept ==
  ASSUME TypeOK, NEW r \in Active,
         End(r) \/ \E pc \in Steps \ {"alloc", "create"} : Goto(r, pc)
  PROVE  \A q \in Reqs : Kept(q)
<1>1. req \in [Reqs -> Request \cup {None}] /\ r \in Reqs /\ req[r] \in Request
  BY DEF TypeOK, Active
<1>2. CASE End(r)
  BY <1>1, <1>2 DEF End, Kept
<1>3. ASSUME NEW pc \in Steps \ {"alloc", "create"}, Goto(r, pc)
      PROVE  \A q \in Reqs : Kept(q)
  BY <1>1, <1>3 DEF Goto, Kept, Active, Request
<1> QED
  BY <1>2, <1>3

\* A request that begins has a block no other one has.
LEMMA BeginStep ==
  ASSUME ~Overlap, ClaimInv, TypeOK', NEW r \in Reqs, NEW u \in Users, NEW kind, NEW of, NEW want,
         Begin(r, u, kind, of, want)
  PROVE  ClaimInv'
<1>1. /\ req \in [Reqs -> Request \cup {None}] /\ req[r] = None
      /\ docker' = docker
      /\ req'[r].row = users[u] /\ req'[r].pc = "cap"
      /\ \A q \in Reqs \ {r} : req'[q] = req[q]
  BY DEF ClaimInv, TypeOK, Begin
<1>2. \A q \in Active : Block(req[q].row.prefix) \cap Block(users[u].prefix) = {}
  BY DEF Begin, Alone
<1>3. ASSUME NEW a \in Active', NEW b \in Active', a # b
      PROVE  Block(req'[a].row.prefix) \cap Block(req'[b].row.prefix) = {}
  <2>1. a \in Reqs /\ b \in Reqs /\ (a # r => a \in Active) /\ (b # r => b \in Active)
    BY <1>1 DEF Active
  <2>2. CASE a = r
    BY <1>1, <1>2, <1>3, <2>1, <2>2
  <2>3. CASE b = r
    BY <1>1, <1>2, <1>3, <2>1, <2>3
  <2>4. CASE a # r /\ b # r
    BY <1>1, <1>3, <2>1, <2>4 DEF ClaimInv, Separate
  <2> QED
    BY <2>2, <2>3, <2>4
<1>4. Separate'
  BY <1>3 DEF Separate
<1>5. Seen' /\ Fresh'
  BY <1>1 DEF ClaimInv, Seen, Fresh, Active, Existing
<1>6. ForwardClaimsDistinct'
  BY <1>1 DEF ClaimInv, ForwardClaimsDistinct, Existing
<1> QED
  BY <1>4, <1>5, <1>6 DEF ClaimInv

\* managedHostPorts reads every claim there is.
LEMMA ReadStep ==
  ASSUME ClaimInv, TypeOK', NEW r \in Reqs, ReadPorts(r)
  PROVE  ClaimInv'
<1>1. /\ req \in [Reqs -> Request \cup {None}] /\ req[r] \in Request /\ r \in Active
      /\ docker' = docker
      /\ req'[r].row = req[r].row /\ req'[r].pc = "alloc" /\ req'[r].used = managedHostPorts
      /\ \A q \in Reqs \ {r} : req'[q] = req[q]
  BY DEF ClaimInv, TypeOK, ReadPorts, At, Active, Request
<1>2. \A c \in Existing : docker[c].fwd \subseteq managedHostPorts
  BY Zenon DEF managedHostPorts
<1>3. Separate'
  BY <1>1 DEF ClaimInv, Separate, Active
<1>4. Seen'
  BY <1>1, <1>2 DEF ClaimInv, Seen, Active, Existing
<1>5. Fresh'
  BY <1>1 DEF ClaimInv, Fresh, Active, Existing
<1>6. ForwardClaimsDistinct'
  BY <1>1 DEF ClaimInv, ForwardClaimsDistinct, Existing
<1> QED
  BY <1>3, <1>4, <1>5, <1>6 DEF ClaimInv

\* nextPort chooses among the ports of the block that nobody has claimed.
LEMMA AllocateStep ==
  ASSUME ClaimInv, TypeOK', NEW r \in Reqs, nextPort(r)
  PROVE  ClaimInv'
<1>1. PICK low \in SUBSET (Block(req[r].row.prefix) \ req[r].used) :
        req' = [req EXCEPT ![r].ports = low, ![r].used = {}, ![r].want = 0, ![r].pc = "create"]
  BY DEF nextPort
<1>a. /\ req \in [Reqs -> Request \cup {None}] /\ req[r] \in Request /\ r \in Active
      /\ req[r].pc = "alloc" /\ docker' = docker
  BY DEF ClaimInv, TypeOK, nextPort, At, Active
<1>b. /\ req'[r].row = req[r].row /\ req'[r].pc = "create" /\ req'[r].ports = low
      /\ \A q \in Reqs \ {r} : req'[q] = req[q]
  BY <1>1, <1>a DEF Request
<1>2. /\ r \in Active /\ req[r].pc = "alloc" /\ docker' = docker
      /\ req'[r].row = req[r].row /\ req'[r].pc = "create" /\ req'[r].ports = low
      /\ \A q \in Reqs \ {r} : req'[q] = req[q]
  BY <1>a, <1>b
<1>3. \A c \in Existing : docker[c].fwd \cap low = {}
  BY <1>1, <1>2 DEF ClaimInv, Seen
<1>4. Separate'
  BY <1>2 DEF ClaimInv, Separate, Active
<1>5. Seen'
  BY <1>2 DEF ClaimInv, Seen, Active, Existing
<1>6. Fresh'
  <2>1. low \subseteq Block(req[r].row.prefix)
    BY <1>1
  <2>2. \A q \in Active' : q = r \/ (q \in Active /\ req'[q] = req[q])
    BY <1>2 DEF Active
  <2> QED BY <1>2, <1>3, <2>1, <2>2 DEF ClaimInv, Fresh, Existing
<1>7. ForwardClaimsDistinct'
  BY <1>2 DEF ClaimInv, ForwardClaimsDistinct, Existing
<1> QED
  BY <1>4, <1>5, <1>6, <1>7 DEF ClaimInv

\* The claim of a new container is in the block of its request, so it is outside what the
\* other requests have read or allocated.
LEMMA CreateStep ==
  ASSUME ClaimInv, TypeOK', NEW r \in Reqs, ContainerCreate(r)
  PROVE  ClaimInv'
<1>1. PICK c \in Ids \ Existing, forward \in BOOLEAN :
        /\ docker' = [docker EXCEPT ![c] =
                        [owner |-> req[r].user, state |-> "created",
                         pub |-> IF forward THEN {} ELSE req[r].ports,
                         fwd |-> IF forward THEN req[r].ports ELSE {}]]
        /\ req' = [req EXCEPT ![r].id = c, ![r].pc = "start"]
  BY DEF ContainerCreate
<1>2. /\ docker \in [Ids -> Container \cup {None}]
      /\ docker'[c].fwd \subseteq req[r].ports
      /\ \A d \in Ids \ {c} : docker'[d] = docker[d]
  BY <1>1 DEF ClaimInv, TypeOK
<1>3. /\ req \in [Reqs -> Request \cup {None}] /\ req[r] \in Request /\ r \in Active
      /\ req[r].pc = "create"
      /\ req'[r].row = req[r].row /\ req'[r].pc = "start"
      /\ \A q \in Reqs \ {r} : req'[q] = req[q]
  BY <1>1 DEF ClaimInv, TypeOK, ContainerCreate, At, Active, Request
<1>4. /\ docker'[c].fwd \subseteq Block(req[r].row.prefix)
      /\ \A d \in Existing : docker[d].fwd \cap docker'[c].fwd = {}
  BY <1>2, <1>3 DEF ClaimInv, Fresh
<1>5. Separate'
  BY <1>3 DEF ClaimInv, Separate, Active
<1>6. \A q \in Active \ {r} : docker'[c].fwd \cap Block(req[q].row.prefix) = {}
  BY <1>3, <1>4 DEF ClaimInv, Separate
<1>7. \A d \in Existing' : d = c \/ (d \in Existing /\ docker'[d] = docker[d])
  BY <1>2 DEF Existing
<1>8. \A q \in Active' : q # r => q \in Active \ {r} /\ req'[q] = req[q]
  BY <1>3 DEF Active
<1>9. Seen'
  BY <1>3, <1>6, <1>7, <1>8 DEF ClaimInv, Seen
<1>10. Fresh'
  BY <1>3, <1>6, <1>7, <1>8 DEF ClaimInv, Fresh
<1>11. ForwardClaimsDistinct'
  BY <1>4, <1>7 DEF ClaimInv, ForwardClaimsDistinct
<1> QED
  BY <1>5, <1>9, <1>10, <1>11 DEF ClaimInv

\* Every step keeps the invariant.
LEMMA ClaimStep ==
  ASSUME ~Overlap, ClaimInv, [Next]_vars
  PROVE  ClaimInv'
<1> USE ProvisionAssumption
<1>1. TypeOK /\ TypeOK'
  BY TypeStep DEF ClaimInv
<1>2. req' = req => \A q \in Reqs : Kept(q)
  BY DEF Kept
<1>3. docker' = docker => NoNewClaims
  BY DEF NoNewClaims
<1>4. ASSUME NEW c \in Existing, NEW state, docker' = [docker EXCEPT ![c].state = state]
      PROVE  NoNewClaims
  BY <1>1, <1>4 DEF TypeOK, NoNewClaims, Existing, Container
<1>5. ASSUME NEW c \in Ids, docker' = [docker EXCEPT ![c] = None]
      PROVE  NoNewClaims
  BY <1>1, <1>5 DEF TypeOK, NoNewClaims
<1>6. CASE UNCHANGED vars
  BY <1>1, <1>2, <1>3, <1>6, QuietStep DEF vars
<1>7. ASSUME NEW u \in Users,
             \/ CreateUser(u) \/ CreateFeishuUser(u)
             \/ UpdateUser(u) \/ UpdateUserPortPrefix(u) \/ UserDelete(u)
      PROVE  ClaimInv'
  BY <1>1, <1>2, <1>3, <1>7, QuietStep DEF CreateUser, CreateFeishuUser, InsertUser, UpdateUser,
       UpdateUserPortPrefix, UserDelete
<1>8. ASSUME NEW r \in Reqs, NEW u \in Users, BeginCreate(r, u) \/ BeginDuplicate(r, u)
      PROVE  ClaimInv'
  BY <1>1, <1>8, BeginStep DEF BeginCreate, BeginDuplicate
<1>9. ASSUME NEW r \in Reqs, NEW u \in Users, NEW s \in Stacks, BeginStackUp(r, u, s)
      PROVE  ClaimInv'
  BY <1>1, <1>9, BeginStep DEF BeginStackUp
<1>10. ASSUME NEW r \in Reqs, Serve(r) \/ Disconnect(r)
       PROVE  ClaimInv'
  <2>1. r \in Active /\ req[r] \in Request
    BY <1>1, <1>10, AtWork
  <2>2. CASE docker' = docker /\ (End(r) \/ \E pc \in Steps \ {"alloc", "create"} : Goto(r, pc))
    BY <1>1, <1>3, <2>1, <2>2, MovedKept, QuietStep
  <2>3. CASE Refuse(r) \/ ComposeUp(r) \/ ComposeUpFails(r)
    BY <2>2, <2>3 DEF Refuse, ComposeUp, ComposeUpFails
  <2>4. CASE checkContainerCap(r) \/ StartFails(r) \/ StackGuard(r)
    BY <2>2, <2>4 DEF checkContainerCap, StartFails, StackGuard, Steps
  <2>5. CASE InspectSource(r)
    <3>1. docker' = docker /\ \E n : req' = [req EXCEPT ![r].want = n, ![r].pc = "ports"]
      BY <2>5 DEF InspectSource
    <3>2. \A q \in Reqs : Kept(q)
      BY <1>1, <2>1, <3>1 DEF TypeOK, Kept, Active, Request
    <3> QED
      BY <1>1, <1>3, <3>1, <3>2, QuietStep
  <2>6. CASE ReadPorts(r)
    BY <1>1, <2>6, ReadStep
  <2>7. CASE nextPort(r)
    BY <1>1, <2>7, AllocateStep
  <2>8. CASE ContainerCreate(r)
    BY <1>1, <2>8, CreateStep
  <2>9. CASE ContainerStart(r)
    <3>1. NoNewClaims
      BY <1>4, <2>9 DEF ContainerStart, CanStart
    <3>2. End(r) \/ \E pc \in Steps \ {"alloc", "create"} : Goto(r, pc)
      BY <2>9 DEF ContainerStart, Steps
    <3> QED
      BY <1>1, <2>1, <3>1, <3>2, MovedKept, QuietStep
  <2>10. CASE Undo(r)
    <3>1. NoNewClaims
      BY <1>1, <1>3, <2>10 DEF Undo, TypeOK, NoNewClaims
    <3> QED
      BY <1>1, <2>1, <2>10, <3>1, MovedKept, QuietStep DEF Undo
  <2>11. CASE StopCopy(r)
    <3>1. NoNewClaims
      BY <1>3, <1>4, <2>11 DEF StopCopy, Running
    <3> QED
      BY <1>1, <2>1, <2>11, <3>1, MovedKept, QuietStep DEF StopCopy
  <2>12. CASE Disconnect(r)
    <3>1. \A q \in Reqs : Kept(q)
      BY <1>1, <2>1, <2>12 DEF Disconnect, TypeOK, Kept, Active, Request
    <3> QED
      BY <1>1, <1>3, <2>12, <3>1, QuietStep DEF Disconnect
  <2> QED
    BY <1>10, <2>3, <2>4, <2>5, <2>6, <2>7, <2>8, <2>9, <2>10, <2>11, <2>12 DEF Serve
<1>11. ASSUME NEW c \in Ids, StartAction(c) \/ StopAction(c) \/ RemoveAction(c)
       PROVE  ClaimInv'
  <2>1. NoNewClaims
    BY <1>4, <1>5, <1>11 DEF StartAction, StopAction, RemoveAction, CanStart, Running
  <2> QED
    BY <1>1, <1>2, <1>11, <2>1, QuietStep DEF StartAction, StopAction, RemoveAction
<1>12. ASSUME NEW s \in Stacks, ComposeDown(s)
       PROVE  ClaimInv'
  BY <1>1, <1>2, <1>3, <1>12, QuietStep DEF ComposeDown
<1> QED
  BY <1>6, <1>7, <1>8, <1>9, <1>10, <1>11, <1>12 DEF Next

\* As long as requests for one account or one block of ports do not overlap, no two managed
\* containers, running or stopped, are ever given the same forwarded host port: whatever the
\* number of accounts and requests, whoever a block is moved to, and whichever of CreateContainer's
\* calls fail.
THEOREM ForwardPortsDistinct ==
  ASSUME ~Overlap
  PROVE  Spec => []ForwardClaimsDistinct
<1>1. Init => ClaimInv
  <2> SUFFICES ASSUME Init PROVE ClaimInv
    OBVIOUS
  <2>1. TypeOK
    BY ProvisionAssumption DEF Init, TypeOK
  <2>2. Active = {} /\ Existing = {}
    BY DEF Init, Active, Existing
  <2> QED
    BY <2>1, <2>2 DEF ClaimInv, Separate, Seen, Fresh, ForwardClaimsDistinct
<1>2. ClaimInv /\ [Next]_vars => ClaimInv'
  BY ClaimStep
<1>3. ClaimInv => ForwardClaimsDistinct
  BY DEF ClaimInv
<1> QED
  BY <1>1, <1>2, <1>3, PTL DEF Spec

-----------------------------------------------------------------------------
\* A request that has created its container and not yet started or removed it.
Finishing(r) == r \in Active /\ req[r].pc \in {"start", "undo"}

\* As long as nothing fails unseen, clients are there, and a container that was never started
\* belongs to a request that will start it or remove it.
HalfInv ==
  faults = 0 =>
    /\ \A r \in Active : req[r].alive
    /\ \A c \in Existing : docker[c].state = "created" => \E r \in Reqs : Finishing(r) /\ req[r].id = c

\* A step that makes no container, and in which only one request goes on, which was
\* not finishing.
LEMMA NoneMade ==
  ASSUME TypeOK, HalfInv, faults' = 0 => faults = 0, NEW r \in Reqs, ~Finishing(r),
         NEW x, req' = [req EXCEPT ![r] = x], x = None \/ (r \in Active /\ x.alive = req[r].alive) \/ x.alive,
         \A c \in Existing' : docker'[c].state = "created" => c \in Existing /\ docker[c].state = "created"
  PROVE  HalfInv'
<1> SUFFICES ASSUME faults' = 0
             PROVE  /\ \A q \in Active' : req'[q].alive
                    /\ \A c \in Existing' : docker'[c].state = "created" =>
                         \E q \in Reqs : Finishing(q)' /\ req'[q].id = c
  BY DEF HalfInv
<1>1. faults = 0
  OBVIOUS
<1>2. req'[r] = x /\ \A q \in Reqs \ {r} : req'[q] = req[q]
  BY DEF TypeOK
<1>3. \A q \in Active' : req'[q].alive
  BY <1>1, <1>2 DEF HalfInv, Active
<1>4. ASSUME NEW c \in Existing', docker'[c].state = "created"
      PROVE  \E q \in Reqs : Finishing(q)' /\ req'[q].id = c
  <2>1. PICK q \in Reqs : Finishing(q) /\ req[q].id = c
    BY <1>1, <1>4 DEF HalfInv
  <2>2. q # r
    BY <2>1
  <2> QED BY <1>2, <2>1, <2>2 DEF Finishing, Active
<1> QED BY <1>3, <1>4

\* The requests are what they were, or there is no promise left to keep.
LEMMA RequestsSame ==
  ASSUME HalfInv, faults' = 0 => faults = 0 /\ req' = req,
         \A c \in Existing' : docker'[c].state = "created" => c \in Existing /\ docker[c].state = "created"
  PROVE  HalfInv'
  BY DEF HalfInv, Finishing, Active

\* One request goes on.
LEMMA GoesOn ==
  ASSUME TypeOK, NEW r \in Active, NEW pc
  PROVE  [req EXCEPT ![r].pc = pc] = [req EXCEPT ![r] = [req[r] EXCEPT !.pc = pc]]
         /\ [req[r] EXCEPT !.pc = pc].alive = req[r].alive
  BY DEF TypeOK, Active, Request

\* The last part of CreateContainer: the container starts or is removed.
LEMMA FinishStep ==
  ASSUME TypeOK, HalfInv, NEW r \in Reqs, ContainerStart(r) \/ StartFails(r) \/ Undo(r)
  PROVE  HalfInv'
<1>1. r \in Active /\ req[r] \in Request /\ faults \in Nat
  BY DEF ContainerStart, StartFails, Undo, At, TypeOK, Active
<1>2. faults' = 0 => faults = 0
  BY <1>1 DEF ContainerStart, StartFails, Undo
<1>3. SUFFICES ASSUME faults' = 0, faults = 0
               PROVE  /\ \A q \in Active' : req'[q].alive
                      /\ \A c \in Existing' : docker'[c].state = "created" =>
                           \E q \in Reqs : Finishing(q)' /\ req'[q].id = c
  BY <1>2 DEF HalfInv
<1>4. req[r].alive /\ faults # faults + 1
  BY <1>1, <1>3 DEF HalfInv
<1>5. \A q \in Reqs \ {r} : req'[q] = req[q]
  BY DEF ContainerStart, StartFails, Undo, Goto, End, TypeOK
<1>6. req'[r] = None \/ req'[r].alive
  BY <1>1, <1>4 DEF ContainerStart, StartFails, Undo, Goto, End, TypeOK, Request
<1>7. \A q \in Active' : req'[q].alive
  BY <1>3, <1>5, <1>6 DEF HalfInv, Active
<1>8. ASSUME NEW c \in Existing', docker'[c].state = "created"
      PROVE  \E q \in Reqs : Finishing(q)' /\ req'[q].id = c
  <2>1. c \in Existing /\ docker[c].state = "created"
    BY <1>8 DEF ContainerStart, StartFails, Undo, Existing, Running, CanStart, TypeOK, Container
  <2>2. PICK q \in Reqs : Finishing(q) /\ req[q].id = c
    BY <1>3, <2>1 DEF HalfInv
  <2>3. CASE q # r
    BY <1>5, <2>2, <2>3 DEF Finishing, Active
  <2>4. CASE q = r
    <3>1. CASE StartFails(r)
      <4>1. req'[r] = [req[r] EXCEPT !.pc = "undo"]
        BY <3>1 DEF StartFails, Goto, TypeOK
      <4>2. req'[r].pc = "undo" /\ req'[r].id = c /\ req'[r] # None
        <5>1. PICK x : x = [req[r] EXCEPT !.pc = "undo"]
          OBVIOUS
        <5>2. x \in Request /\ x.pc = "undo" /\ x.id = req[r].id
          BY <1>1, <5>1 DEF Request, Steps
        <5> QED BY <2>2, <2>4, <4>1, <5>1, <5>2, NoneAssumption
      <4> QED BY <4>2 DEF Finishing, Active
    <3>2. CASE ContainerStart(r)
      <4>1. docker'[c].state = "running"
        BY <2>1, <2>2, <2>4, <3>2 DEF ContainerStart, Existing, TypeOK, Container
      <4> QED BY <1>8, <4>1
    <3>3. CASE Undo(r)
      <4>1. docker'[c] = None
        BY <1>3, <1>4, <2>1, <2>2, <2>4, <3>3 DEF Undo, Existing, TypeOK
      <4> QED BY <1>8, <4>1 DEF Existing
    <3> QED BY <3>1, <3>2, <3>3
  <2> QED BY <2>3, <2>4
<1> QED BY <1>7, <1>8

\* A container is created by a request that goes on to start it.
LEMMA MadeStep ==
  ASSUME TypeOK, HalfInv, NEW r \in Reqs, ContainerCreate(r)
  PROVE  HalfInv'
<1>1. r \in Active /\ req[r] \in Request /\ req[r].pc = "create" /\ faults' = faults
  BY DEF ContainerCreate, At, TypeOK, Active
<1>2. PICK k \in Ids : (\E v : docker' = [docker EXCEPT ![k] = v]) /\ req' = [req EXCEPT ![r].id = k, ![r].pc = "start"]
  BY DEF ContainerCreate
<1>3. PICK x : x = [req[r] EXCEPT !.id = k, !.pc = "start"]
  OBVIOUS
<1>4. x.pc = "start" /\ x.id = k /\ x.alive = req[r].alive /\ x # None
  <2>1. x \in Request /\ x.pc = "start" /\ x.id = k /\ x.alive = req[r].alive
    BY <1>1, <1>3 DEF Request, Steps
  <2> QED BY <2>1, NoneAssumption
<1>5. req' = [req EXCEPT ![r] = x]
  BY <1>2, <1>3
<1>6. req'[r] = x /\ \A q \in Reqs \ {r} : req'[q] = req[q]
  BY <1>5 DEF TypeOK
<1>7. SUFFICES ASSUME faults = 0
               PROVE  /\ \A q \in Active' : req'[q].alive
                      /\ \A c \in Existing' : docker'[c].state = "created" =>
                           \E q \in Reqs : Finishing(q)' /\ req'[q].id = c
  BY <1>1 DEF HalfInv
<1>8. \A q \in Active' : req'[q].alive
  BY <1>1, <1>4, <1>6, <1>7 DEF HalfInv, Active
<1>9. ASSUME NEW c \in Existing', docker'[c].state = "created"
      PROVE  \E q \in Reqs : Finishing(q)' /\ req'[q].id = c
  <2>1. CASE c = k
    BY <1>4, <1>6, <2>1 DEF Finishing, Active
  <2>2. CASE c # k
    <3>1. c \in Existing /\ docker[c].state = "created"
      BY <1>2, <1>9, <2>2 DEF Existing, TypeOK
    <3>2. PICK q \in Reqs : Finishing(q) /\ req[q].id = c
      BY <1>7, <3>1 DEF HalfInv
    <3>3. q # r
      BY <1>1, <3>2 DEF Finishing
    <3> QED BY <1>6, <3>2, <3>3 DEF Finishing, Active
  <2> QED BY <2>1, <2>2
<1> QED BY <1>8, <1>9

\* The steps of a request that is not finishing and makes no container.
LEMMA EarlyStep ==
  ASSUME TypeOK, HalfInv, NEW r \in Reqs,
         \/ Refuse(r) \/ checkContainerCap(r) \/ InspectSource(r) \/ ReadPorts(r) \/ nextPort(r)
         \/ StopCopy(r) \/ StackGuard(r) \/ ComposeUp(r) \/ ComposeUpFails(r)
  PROVE  HalfInv'
<1>1. r \in Active /\ req[r] \in Request /\ ~Finishing(r) /\ faults \in Nat
  <2>1. r \in Active
    BY DEF Refuse, checkContainerCap, InspectSource, ReadPorts, nextPort, StopCopy, StackGuard, ComposeUp,
           ComposeUpFails, At
  <2>2. req[r].pc \notin {"start", "undo"}
    <3>1. CASE Refuse(r)
      BY <3>1 DEF Refuse
    <3>2. CASE checkContainerCap(r)
      BY <3>2 DEF checkContainerCap, At
    <3>3. CASE InspectSource(r) \/ ReadPorts(r) \/ nextPort(r)
      BY <3>3 DEF InspectSource, ReadPorts, nextPort, At
    <3>4. CASE StopCopy(r) \/ StackGuard(r) \/ ComposeUp(r) \/ ComposeUpFails(r)
      BY <3>4 DEF StopCopy, StackGuard, ComposeUp, ComposeUpFails, At
    <3> QED BY <3>1, <3>2, <3>3, <3>4
  <2> QED BY <2>1, <2>2 DEF TypeOK, Active, Finishing
<1>2. faults' = 0 => faults = 0
  <2>1. CASE faults' = faults
    BY <2>1
  <2>2. CASE faults' = faults + 1
    BY <1>1, <2>2
  <2> QED BY <2>1, <2>2 DEF Refuse, checkContainerCap, InspectSource, ReadPorts, nextPort, StopCopy, StackGuard,
                            ComposeUp, ComposeUpFails
<1>3. \A c \in Existing' : docker'[c].state = "created" => c \in Existing /\ docker[c].state = "created"
  <2>1. CASE StopCopy(r)
    BY <2>1 DEF StopCopy, Existing, TypeOK, Container, Running
  <2>2. CASE docker' = docker
    BY <2>2 DEF Existing
  <2> QED BY <2>1, <2>2 DEF Refuse, checkContainerCap, InspectSource, ReadPorts, nextPort, StackGuard, ComposeUp,
                            ComposeUpFails
<1>4. \E x : req' = [req EXCEPT ![r] = x] /\ (x = None \/ x.alive = req[r].alive)
  <2>1. CASE End(r)
    BY <2>1 DEF End
  <2>2. ASSUME NEW pc, Goto(r, pc) PROVE \E x : req' = [req EXCEPT ![r] = x] /\ x.alive = req[r].alive
    BY <1>1, <2>2, GoesOn DEF Goto
  <2>3. CASE InspectSource(r)
    <3>1. PICK n : req' = [req EXCEPT ![r].want = n, ![r].pc = "ports"]
      BY <2>3 DEF InspectSource
    <3>2. PICK x : x = [req[r] EXCEPT !.want = n, !.pc = "ports"]
      OBVIOUS
    <3>3. x.alive = req[r].alive
      BY <1>1, <3>2 DEF Request
    <3>4. req' = [req EXCEPT ![r] = x]
      BY <3>1, <3>2
    <3> QED BY <3>3, <3>4
  <2>4. CASE ReadPorts(r)
    <3>1. PICK x : x = [req[r] EXCEPT !.used = managedHostPorts, !.pc = "alloc"]
      OBVIOUS
    <3>2. x.alive = req[r].alive
      BY <1>1, <3>1 DEF Request
    <3>3. req' = [req EXCEPT ![r] = x]
      BY <2>4, <3>1 DEF ReadPorts
    <3> QED BY <3>2, <3>3
  <2>5. CASE nextPort(r)
    <3>1. PICK low : req' = [req EXCEPT ![r].ports = low, ![r].used = {}, ![r].want = 0, ![r].pc = "create"]
      BY <2>5 DEF nextPort
    <3>2. PICK x : x = [req[r] EXCEPT !.ports = low, !.used = {}, !.want = 0, !.pc = "create"]
      OBVIOUS
    <3>3. x.alive = req[r].alive
      BY <1>1, <3>2 DEF Request
    <3>4. req' = [req EXCEPT ![r] = x]
      BY <3>1, <3>2
    <3> QED BY <3>3, <3>4
  <2> QED BY <2>1, <2>2, <2>3, <2>4, <2>5 DEF Refuse, checkContainerCap, StopCopy, StackGuard, ComposeUp, ComposeUpFails
<1> QED BY <1>1, <1>2, <1>3, <1>4, NoneMade

\* As long as clients stay and clean-up calls succeed, a container that was never started
\* belongs to a request still at work on it, whatever fails before that.
THEOREM NoHalfCreated == Spec => []NothingHalfCreated
<1>1. Init => HalfInv
  BY DEF Init, HalfInv, Active, Existing
<1>2. TypeOK /\ HalfInv /\ [Next]_vars => HalfInv'
  <2> SUFFICES ASSUME TypeOK, HalfInv, [Next]_vars PROVE HalfInv'
    OBVIOUS
  <2>1. CASE UNCHANGED <<docker, req, faults>>
    BY <2>1, RequestsSame DEF Existing
  <2>2. ASSUME NEW u \in Users,
               CreateUser(u) \/ CreateFeishuUser(u) \/ UpdateUser(u) \/ UpdateUserPortPrefix(u) \/ UserDelete(u)
        PROVE  UNCHANGED <<docker, req, faults>>
    BY <2>2 DEF CreateUser, CreateFeishuUser, UpdateUser, UpdateUserPortPrefix, UserDelete, InsertUser
  <2>3. ASSUME NEW r \in Reqs, NEW u \in Users,
               BeginCreate(r, u) \/ BeginDuplicate(r, u) \/ \E s \in Stacks : BeginStackUp(r, u, s)
        PROVE  HalfInv'
    <3>1. PICK kind, of, want : Begin(r, u, kind, of, want)
      BY <2>3 DEF BeginCreate, BeginDuplicate, BeginStackUp
    <3>2. PICK x : x = [pc |-> "cap", kind |-> kind, user |-> u, row |-> users[u], of |-> of,
                        want |-> want, used |-> {}, ports |-> {}, id |-> None, alive |-> TRUE]
      OBVIOUS
    <3>3. x.alive /\ req' = [req EXCEPT ![r] = x] /\ UNCHANGED <<docker, faults>> /\ ~Finishing(r)
      BY <3>1, <3>2 DEF Begin, Finishing, Active
    <3> QED BY <3>3, NoneMade DEF Existing
  <2>4. ASSUME NEW r \in Reqs, Serve(r) PROVE HalfInv'
    BY <2>4, EarlyStep, MadeStep, FinishStep DEF Serve
  <2>5. ASSUME NEW r \in Reqs, Disconnect(r) PROVE HalfInv'
    <3>1. faults' # 0 /\ docker' = docker
      BY <2>5 DEF Disconnect, TypeOK
    <3> QED BY <3>1 DEF HalfInv
  <2>6. ASSUME NEW c \in Ids, StartAction(c) \/ StopAction(c) \/ RemoveAction(c) PROVE HalfInv'
    <3>1. UNCHANGED <<req, faults>>
      BY <2>6 DEF StartAction, StopAction, RemoveAction
    <3>2. \A d \in Existing' : docker'[d].state = "created" => d \in Existing /\ docker[d].state = "created"
      <4>1. CASE StartAction(c)
        BY <4>1 DEF StartAction, CanStart, Existing, TypeOK, Container
      <4>2. CASE StopAction(c)
        BY <4>2 DEF StopAction, Running, Existing, TypeOK, Container
      <4>3. CASE RemoveAction(c)
        BY <4>3 DEF RemoveAction, Existing, TypeOK
      <4> QED BY <2>6, <4>1, <4>2, <4>3
    <3> QED BY <3>1, <3>2, RequestsSame
  <2>7. ASSUME NEW s \in Stacks, ComposeDown(s) PROVE UNCHANGED <<docker, req, faults>>
    BY <2>7 DEF ComposeDown
  <2>8. CASE UNCHANGED vars
    BY <2>1, <2>8 DEF vars
  <2> QED BY <2>1, <2>2, <2>3, <2>4, <2>5, <2>6, <2>7, <2>8 DEF Next
<1>3. HalfInv => NothingHalfCreated
  BY DEF HalfInv, NothingHalfCreated, PartialRemoved, Finishing
<1> QED BY <1>1, <1>2, <1>3, TypeCorrect, PTL DEF Spec

-----------------------------------------------------------------------------
\* Between the check of the cap and the creation.
Admitted == {"inspect", "ports", "alloc", "create"}

\* The requests at work are of different accounts.
OneEach == \A r, q \in Active : r # q => req[r].user # req[q].user

\* What checkContainerCap found still holds: there is room for one more.
Room ==
  \A r \in Active : req[r].pc \in Admitted =>
    req[r].row.admin \/ Cardinality(Listed(req[r].user)) < req[r].row.cap

CapInv == TypeOK /\ OneEach /\ Room

\* A step that makes no container and gives none away.
NoneGained == \A c \in Ids : docker'[c] # None => docker[c] # None /\ docker'[c].owner = docker[c].owner

\* A request keeps its account and is not admitted.
NotAdmitted(r) ==
  req'[r] # None =>
    /\ req[r] # None /\ req'[r].row = req[r].row /\ req'[r].user = req[r].user
    /\ req'[r].pc \in Admitted => req[r].pc \in Admitted

\* The containers of an account are finitely many.
LEMMA ListedCount ==
  ASSUME NEW u
  PROVE  IsFiniteSet(Listed(u)) /\ Cardinality(Listed(u)) \in Nat
<1>1. Listed(u) \subseteq Ids
  BY DEF Listed, Existing
<1> QED BY <1>1, ProvisionAssumption, FS_Subset, FS_CardinalityType

LEMMA ListedCountNext ==
  ASSUME NEW u
  PROVE  IsFiniteSet(Listed(u)') /\ Cardinality(Listed(u)') \in Nat
<1>1. Listed(u)' \subseteq Ids
  BY DEF Listed, Existing
<1> QED BY <1>1, ProvisionAssumption, FS_Subset, FS_CardinalityType

\* Nobody's listing grows in such a step.
LEMMA NobodyGains ==
  ASSUME NoneGained, NEW u
  PROVE  Cardinality(Listed(u)') <= Cardinality(Listed(u))
<1>1. Listed(u)' \subseteq Listed(u)
  BY DEF NoneGained, Listed, Existing
<1> QED BY <1>1, ListedCount, FS_Subset

\* Such a step keeps the invariant.
LEMMA QuietCap ==
  ASSUME CapInv, TypeOK', NoneGained, \A r \in Reqs : NotAdmitted(r)
  PROVE  CapInv'
<1>1. OneEach'
  BY DEF CapInv, OneEach, Active, NotAdmitted
<1>2. ASSUME NEW r \in Active', req'[r].pc \in Admitted, ~req'[r].row.admin
      PROVE  (Cardinality(Listed(req[r].user)) < req[r].row.cap)'
  <2>1. /\ r \in Active /\ req'[r].row = req[r].row /\ req'[r].user = req[r].user
        /\ req[r].pc \in Admitted
    BY <1>2 DEF Active, NotAdmitted
  <2>2. Cardinality(Listed(req[r].user)) < req[r].row.cap
    BY <1>2, <2>1 DEF CapInv, Room
  <2>3. PICK u : u = req[r].user
    OBVIOUS
  <2>4. Cardinality(Listed(u)') <= Cardinality(Listed(u))
    BY NobodyGains
  <2>5. req[r].row.cap \in Nat
    BY <2>1, ProvisionAssumption DEF CapInv, TypeOK, Active, Request, Row
  <2>6. Cardinality(Listed(u)') < req[r].row.cap
    BY <2>2, <2>3, <2>4, <2>5, ListedCount, ListedCountNext
  <2> QED BY <2>1, <2>3, <2>6 DEF Listed, Existing
<1>3. Room'
  BY <1>2 DEF Room
<1> QED BY <1>1, <1>3 DEF CapInv

\* A request that begins is of an account no other one is of.
LEMMA BeginCap ==
  ASSUME ~Overlap, CapInv, TypeOK', NEW r \in Reqs, NEW u \in Users, NEW kind, NEW of, NEW want,
         Begin(r, u, kind, of, want)
  PROVE  CapInv'
<1>1. /\ req \in [Reqs -> Request \cup {None}] /\ req[r] = None /\ docker' = docker
      /\ req'[r].user = u /\ req'[r].pc = "cap"
      /\ \A q \in Reqs \ {r} : req'[q] = req[q]
  BY DEF CapInv, TypeOK, Begin
<1>2. \A q \in Active : req[q].user # u
  BY DEF Begin, Alone
<1>3. OneEach'
  BY <1>1, <1>2 DEF CapInv, OneEach, Active
<1>4. ASSUME NEW q \in Active', req'[q].pc \in Admitted
      PROVE  q \in Active /\ req'[q] = req[q]
  BY <1>1, <1>4 DEF Active, Admitted
<1>5. \A v : Listed(v)' = Listed(v)
  BY <1>1 DEF Listed, Existing
<1>6. Room'
  BY <1>4, <1>5 DEF CapInv, Room
<1> QED BY <1>3, <1>6 DEF CapInv

\* checkContainerCap admits a request only if there is room.
LEMMA AdmitCap ==
  ASSUME CapInv, TypeOK', NEW r \in Reqs, checkContainerCap(r)
  PROVE  CapInv'
<1>1. /\ req \in [Reqs -> Request \cup {None}] /\ r \in Active /\ req[r] \in Request /\ docker' = docker
      /\ req[r].row.admin \/ Cardinality(Listed(req[r].user)) < req[r].row.cap
  BY DEF CapInv, TypeOK, checkContainerCap, At, Active
<1>2. /\ req'[r].row = req[r].row /\ req'[r].user = req[r].user
      /\ \A q \in Reqs \ {r} : req'[q] = req[q]
  BY <1>1 DEF checkContainerCap, Goto, Request
<1>3. OneEach'
  BY <1>1, <1>2 DEF CapInv, OneEach, Active
<1>4. \A v : Listed(v)' = Listed(v)
  BY <1>1 DEF Listed, Existing
<1>5. Room'
  BY <1>1, <1>2, <1>4 DEF CapInv, Room, Active
<1> QED BY <1>3, <1>5 DEF CapInv

\* A new container is its request's account's, who had room for it.
LEMMA CreateCap ==
  ASSUME CapInv, TypeOK', NEW r \in Reqs, ContainerCreate(r)
  PROVE  /\ CapInv'
         /\ \A v \in Users :
              IF v = req[r].user
                THEN req[r].row.admin \/ Cardinality(Listed(v)') <= req[r].row.cap
                ELSE Listed(v)' = Listed(v)
<1>1. PICK c \in Ids \ Existing, forward \in BOOLEAN :
        /\ docker' = [docker EXCEPT ![c] =
                        [owner |-> req[r].user, state |-> "created",
                         pub |-> IF forward THEN {} ELSE req[r].ports,
                         fwd |-> IF forward THEN req[r].ports ELSE {}]]
        /\ req' = [req EXCEPT ![r].id = c, ![r].pc = "start"]
  BY DEF ContainerCreate
<1>2. /\ docker \in [Ids -> Container \cup {None}]
      /\ docker'[c].owner = req[r].user
      /\ \A d \in Ids \ {c} : docker'[d] = docker[d]
  BY <1>1 DEF CapInv, TypeOK
<1>3. /\ req \in [Reqs -> Request \cup {None}] /\ req[r] \in Request /\ r \in Active
      /\ req[r].pc = "create" /\ req'[r].pc = "start" /\ req'[r].user = req[r].user
      /\ \A q \in Reqs \ {r} : req'[q] = req[q]
  BY <1>1 DEF CapInv, TypeOK, ContainerCreate, At, Active, Request
<1>4. OneEach'
  BY <1>3 DEF CapInv, OneEach, Active
<1>5. ASSUME NEW v \in Users \ {req[r].user}
      PROVE  Listed(v)' = Listed(v)
  BY <1>1, <1>2 DEF Listed, Existing
<1>6. \A q \in Active' : req'[q].pc \in Admitted =>
        q # r /\ q \in Active /\ req'[q] = req[q] /\ req[q].user \in Users \ {req[r].user}
  BY <1>3 DEF Admitted, Active, CapInv, OneEach, Request
<1>7. Room'
  BY <1>5, <1>6 DEF CapInv, Room
<1>8. PICK u : u = req[r].user
  OBVIOUS
<1>9. Listed(u)' \subseteq Listed(u) \cup {c}
  BY <1>2 DEF Listed, Existing
<1>10. Cardinality(Listed(u)') <= Cardinality(Listed(u)) + 1
  <2>1. IsFiniteSet(Listed(u) \cup {c}) /\ Cardinality(Listed(u) \cup {c}) <= Cardinality(Listed(u)) + 1
    BY ListedCount, FS_AddElement
  <2>2. Cardinality(Listed(u)') <= Cardinality(Listed(u) \cup {c}) /\ Cardinality(Listed(u) \cup {c}) \in Nat
    BY <1>9, <2>1, FS_Subset, FS_CardinalityType
  <2> QED BY <2>1, <2>2, ListedCount, ListedCountNext
<1>11. req[r].row.cap \in Nat
  BY <1>3, ProvisionAssumption DEF Request, Row
<1>12. req[r].row.admin \/ Cardinality(Listed(u)) < req[r].row.cap
  BY <1>3, <1>8 DEF CapInv, Room, Admitted
<1>13. req[r].row.admin \/ Cardinality(Listed(u)') <= req[r].row.cap
  BY <1>10, <1>11, <1>12, ListedCount, ListedCountNext
<1> QED BY <1>4, <1>5, <1>7, <1>8, <1>13 DEF CapInv

\* A request that goes on elsewhere, or ends, is not admitted.
LEMMA ElsewhereCap ==
  ASSUME TypeOK, NEW r \in Active,
         End(r) \/ \E pc \in Steps \ Admitted : Goto(r, pc)
  PROVE  \A q \in Reqs : NotAdmitted(q)
<1>1. req \in [Reqs -> Request \cup {None}] /\ r \in Reqs /\ req[r] \in Request
  BY DEF TypeOK, Active
<1>2. CASE End(r)
  BY <1>1, <1>2 DEF End, NotAdmitted
<1>3. ASSUME NEW pc \in Steps \ Admitted, Goto(r, pc)
      PROVE  \A q \in Reqs : NotAdmitted(q)
  BY <1>1, <1>3 DEF Goto, NotAdmitted, Active, Request
<1> QED BY <1>2, <1>3

\* Every other step of a request: it makes no container, and a request that was not admitted is
\* not admitted by it.
LEMMA OtherCap ==
  ASSUME TypeOK, NEW r \in Reqs,
         \/ Refuse(r) \/ InspectSource(r) \/ ReadPorts(r) \/ nextPort(r) \/ ContainerStart(r)
         \/ StartFails(r) \/ Undo(r) \/ StopCopy(r) \/ StackGuard(r) \/ ComposeUp(r)
         \/ ComposeUpFails(r) \/ Disconnect(r)
  PROVE  NoneGained /\ \A q \in Reqs : NotAdmitted(q)
<1>1. r \in Active /\ req[r] \in Request /\ req \in [Reqs -> Request \cup {None}]
  BY AtWork DEF Serve, TypeOK
<1>2. docker' = docker => NoneGained
  BY DEF NoneGained
<1>3. ASSUME NEW c \in Existing, NEW state, docker' = [docker EXCEPT ![c].state = state]
      PROVE  NoneGained
  BY <1>3 DEF TypeOK, NoneGained, Existing, Container
<1>4. CASE Refuse(r) \/ ComposeUp(r) \/ ComposeUpFails(r)
  BY <1>1, <1>2, <1>4, ElsewhereCap DEF Refuse, ComposeUp, ComposeUpFails
<1>5. CASE StartFails(r) \/ StackGuard(r)
  BY <1>1, <1>2, <1>5, ElsewhereCap DEF StartFails, StackGuard, Steps, Admitted
<1>6. CASE InspectSource(r)
  <2>1. /\ docker' = docker /\ req[r].pc = "inspect"
        /\ \E n : req' = [req EXCEPT ![r].want = n, ![r].pc = "ports"]
    BY <1>6 DEF InspectSource, At
  <2> QED BY <1>1, <1>2, <2>1 DEF NotAdmitted, Active, Request, Admitted
<1>7. CASE ReadPorts(r)
  <2>1. /\ docker' = docker /\ req[r].pc = "ports"
        /\ \E used : req' = [req EXCEPT ![r].used = used, ![r].pc = "alloc"]
    BY <1>7 DEF ReadPorts, At
  <2> QED BY <1>1, <1>2, <2>1 DEF NotAdmitted, Active, Request, Admitted
<1>8. CASE nextPort(r)
  <2>1. /\ docker' = docker /\ req[r].pc = "alloc"
        /\ \E low : req' = [req EXCEPT ![r].ports = low, ![r].used = {}, ![r].want = 0, ![r].pc = "create"]
    BY <1>8 DEF nextPort, At
  <2> QED BY <1>1, <1>2, <2>1 DEF NotAdmitted, Active, Request, Admitted
<1>9. CASE ContainerStart(r)
  <2>1. NoneGained
    BY <1>3, <1>9 DEF ContainerStart, CanStart
  <2> QED BY <1>1, <1>9, <2>1, ElsewhereCap DEF ContainerStart, Steps, Admitted
<1>10. CASE Undo(r)
  <2>1. NoneGained
    BY <1>2, <1>10 DEF Undo, TypeOK, NoneGained
  <2> QED BY <1>1, <1>10, <2>1, ElsewhereCap DEF Undo
<1>11. CASE StopCopy(r)
  <2>1. NoneGained
    BY <1>2, <1>3, <1>11 DEF StopCopy, Running
  <2> QED BY <1>1, <1>11, <2>1, ElsewhereCap DEF StopCopy
<1>12. CASE Disconnect(r)
  BY <1>1, <1>2, <1>12 DEF Disconnect, NotAdmitted, Active, Request
<1> QED BY <1>4, <1>5, <1>6, <1>7, <1>8, <1>9, <1>10, <1>11, <1>12

\* What a step may do to the listings, by the invariant.
Grows(u) ==
  Cardinality(Listed(u)') > Cardinality(Listed(u)) =>
    \E r \in Active : /\ req[r].user = u
                      /\ req[r].row.admin \/ Cardinality(Listed(u)') <= req[r].row.cap

\* Every step keeps the invariant, and takes nobody over the cap.
LEMMA CapStep ==
  ASSUME ~Overlap, CapInv, [Next]_vars
  PROVE  CapInv' /\ \A u \in Users : Grows(u)
<1>1. TypeOK /\ TypeOK'
  BY TypeStep DEF CapInv
<1>2. NoneGained => \A u \in Users : Grows(u)
  BY NobodyGains, ListedCount, ListedCountNext DEF Grows
<1>3. docker' = docker => NoneGained
  BY DEF NoneGained
<1>4. req' = req => \A q \in Reqs : NotAdmitted(q)
  BY DEF NotAdmitted
<1>5. CASE UNCHANGED vars
  BY <1>1, <1>2, <1>3, <1>4, <1>5, QuietCap DEF vars
<1>6. ASSUME NEW u \in Users,
             CreateUser(u) \/ CreateFeishuUser(u) \/ UpdateUser(u) \/ UpdateUserPortPrefix(u) \/ UserDelete(u)
      PROVE  UNCHANGED <<docker, req>>
  BY <1>6 DEF CreateUser, CreateFeishuUser, InsertUser, UpdateUser, UpdateUserPortPrefix, UserDelete
<1>7. ASSUME NEW r \in Reqs, NEW u \in Users,
             BeginCreate(r, u) \/ BeginDuplicate(r, u) \/ \E s \in Stacks : BeginStackUp(r, u, s)
      PROVE  CapInv' /\ NoneGained
  <2>1. PICK kind, of, want : Begin(r, u, kind, of, want)
    BY <1>7 DEF BeginCreate, BeginDuplicate, BeginStackUp
  <2> QED BY <1>1, <1>3, <2>1, BeginCap DEF Begin
<1>8. ASSUME NEW r \in Reqs, Serve(r) \/ Disconnect(r)
      PROVE  CapInv' /\ \A u \in Users : Grows(u)
  <2>1. r \in Active /\ req[r] \in Request
    BY <1>1, <1>8, AtWork
  <2>2. CASE checkContainerCap(r)
    BY <1>1, <1>2, <1>3, <2>2, AdmitCap DEF checkContainerCap
  <2>3. CASE ContainerCreate(r)
    BY <1>1, <2>1, <2>3, CreateCap, ListedCount DEF Grows
  <2>4. CASE ~checkContainerCap(r) /\ ~ContainerCreate(r)
    <3>1. NoneGained /\ \A q \in Reqs : NotAdmitted(q)
      BY <1>1, <1>8, <2>4, OtherCap DEF Serve
    <3> QED BY <1>1, <1>2, <3>1, QuietCap
  <2> QED BY <2>2, <2>3, <2>4
<1>9. ASSUME NEW c \in Ids, StartAction(c) \/ StopAction(c) \/ RemoveAction(c)
      PROVE  NoneGained /\ req' = req
  BY <1>1, <1>9 DEF StartAction, StopAction, RemoveAction, CanStart, Running, Existing, NoneGained,
                    TypeOK, Container
<1>10. ASSUME NEW s \in Stacks, ComposeDown(s)
       PROVE  UNCHANGED <<docker, req>>
  BY <1>10 DEF ComposeDown
<1>11. CASE NoneGained /\ req' = req
  BY <1>1, <1>2, <1>4, <1>11, QuietCap
<1> QED
  BY <1>2, <1>3, <1>5, <1>6, <1>7, <1>8, <1>9, <1>10, <1>11 DEF Next

\* As long as requests for one account do not overlap, creating or copying a container never takes
\* an account over the cap it had when the request began, whatever is removed, refused, edited or
\* cut short meanwhile, for any number of accounts and requests.
THEOREM CapHolds ==
  ASSUME ~Overlap
  PROVE  Spec => CapRespected
<1>1. Init => CapInv
  <2> SUFFICES ASSUME Init PROVE CapInv
    OBVIOUS
  <2>1. TypeOK
    BY ProvisionAssumption DEF Init, TypeOK
  <2>2. Active = {}
    BY DEF Init, Active
  <2> QED BY <2>1, <2>2 DEF CapInv, OneEach, Room
<1>2. CapInv /\ [Next]_vars => CapInv'
  BY CapStep
<1>3. CapInv /\ [Next]_vars =>
        [\A u \in Users :
           Cardinality(Listed(u)') > Cardinality(Listed(u)) =>
             \E r \in Active : /\ req[r].user = u
                               /\ req[r].row.admin \/ Cardinality(Listed(u)') <= req[r].row.cap]_vars
  BY CapStep DEF Grows
<1> QED BY <1>1, <1>2, <1>3, PTL DEF Spec, CapRespected
=============================================================================
