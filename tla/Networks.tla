------------------------------- MODULE Networks ------------------------------
(***************************************************************************)
(* Who may put a container on which Docker network.  Administrators grant  *)
(* networks to user groups and narrow, per image, what may be picked; the  *)
(* requests that attach a container read the image's preset, the grants    *)
(* and the networks one after the other and then call Docker               *)
(* (server/networks.go, dockerx/network.go, store/network.go, and the      *)
(* networks of containerUpdate and CreateContainer).                       *)
(*                                                                         *)
(* The full Docker name of a managed network, "mudp-alice-net-lan", is the *)
(* pair <<"alice", "lan">> of its owner and its display name.              *)
(***************************************************************************)
EXTENDS Integers, FiniteSets

CONSTANTS
  Users, Admins, Groups,
  Bridge, Host,    \* Docker's own networks; only the first can be joined
  HostNets,        \* networks of the host mudp did not create
  Displays,        \* display names of managed networks
  Containers,
  Owner,           \* container -> user
  Asked,           \* the names clients send, full names or display names
  Lists,           \* the sets of them they send
  Pools,           \* the networks presets may offer
  Requests,        \* requests that may be in flight at once
  Fallible,        \* lookups that may fail: "granted", "restricted", "list", "preset", "current"
  Overlap,         \* whether requests about one container, or edits of one network, may overlap
  MaxCalls,        \* bound on requests
  MaxEdits         \* bound on changes of memberships and presets

Managed == Users \X Displays
System  == {Bridge, Host}
Names   == System \cup HostNets \cup Managed

ASSUME NetworksAssumption ==
  /\ Admins \subseteq Users
  /\ Bridge # Host
  /\ System \cap (HostNets \cup Managed) = {} /\ HostNets \cap Managed = {}
  /\ Displays \cap Names = {}
  /\ Owner \in [Containers -> Users]
  /\ Asked \subseteq Names \cup Displays /\ Lists \subseteq SUBSET Asked
  /\ Pools \subseteq SUBSET Names
  /\ Fallible \subseteq {"granted", "restricted", "list", "preset", "current"}
  /\ Overlap \in BOOLEAN
  /\ MaxCalls \in Nat /\ MaxEdits \in Nat

VARIABLES
  nets,      \* the networks Docker has
  joined,    \* container -> networks it is attached to
  made,      \* containers that exist
  group,     \* user -> its one group; an administrator needs no grant
  grants,    \* rows of group_networks: <<group, network>>
  pool,      \* SelectableNetworks of the image's preset; {} is no restriction
  req,       \* request -> what it knows, see Request
  offered,   \* request -> networks the preset has offered since it began (history)
  could,     \* request -> those of them its user could use since (history)
  stale,     \* grants meant for a network that is gone (history)
  removed,   \* networks that were removed (history)
  calls, edits

world == <<nets, joined, made, group, grants, pool>>
vars == <<world, req, offered, could, stale, removed, calls, edits>>

Idle == [op |-> "none"]
Active(r) == req[r] # Idle

Init ==
  /\ nets = Names
  /\ made \in SUBSET Containers
  /\ joined \in [Containers -> {{}, {Bridge}} \cup {{n} : n \in HostNets}]
  /\ \A c \in Containers : joined[c] # {} <=> c \in made
  /\ group \in [Users \ Admins -> Groups]
  /\ grants \in {{}} \cup {{<<g, n>>} : g \in Groups, n \in {Bridge} \cup HostNets}
  /\ pool = {}
  /\ req = [r \in Requests |-> Idle]
  /\ offered = [r \in Requests |-> {}] /\ could = [r \in Requests |-> {}]
  /\ stale = {} /\ removed = {} /\ calls = 0 /\ edits = 0

-----------------------------------------------------------------------------
(***************************************************************************)
(* The rule, stated several times in the code.  An access is the pair of the *)
(* networks granted to the caller and of those granted to anybody.         *)
(***************************************************************************)
Granted(u) == {n \in Names : u \notin Admins /\ <<group[u], n>> \in grants}
Restricted == {n \in Names : \E g \in Groups : <<g, n>> \in grants}
Fails(lookup) == IF lookup \in Fallible THEN {{}} ELSE {}

\* networkGrants: two queries; one that fails yields the empty set.  They are one
\* step because each alone decides what it lets through.
Access(u) == [granted : {Granted(u)} \cup Fails("granted"),
              restricted : {Restricted} \cup Fails("restricted")]

MayUseSystem(a, u, n) == n = Bridge /\ (u \in Admins \/ n \in a.granted \/ n \notin a.restricted)

\* The rows of ListNetworks a caller may attach to.
Attachable(a, u) ==
  {n \in nets : \/ n \in Managed /\ (u \in Admins \/ n[1] = u \/ n \in a.granted)
                \/ n \in System /\ MayUseSystem(a, u, n)
                \/ n \in HostNets /\ (u \in Admins \/ n \in a.granted)}

\* guardUsableNetwork.
GuardUsable(a, u, n) ==
  /\ n \in nets
  /\ IF n \in System THEN MayUseSystem(a, u, n)
     ELSE n \in a.granted \/ u \in Admins \/ (n \in Managed /\ n[1] = u)

\* Whose details InspectNetwork shows.
Inspectable(a, u, n) ==
  n \in nets /\ (n \in System \/ u \in Admins \/ n \in a.granted \/ (n \in Managed /\ n[1] = u))

\* resolveNetworkName: what is not a full name is one of the user's own.
Resolve(a, u, x) ==
  IF u \in Admins \/ x \in Managed \cup System \cup a.granted THEN x ELSE <<u, x>>

\* validateNetworkAttachment: an allowed full name, or an own network by its
\* display name; {} when the name is refused.
Validated(allowed, u, x) ==
  IF x \in allowed THEN {x} \cap nets ELSE IF x \in System THEN {} ELSE {<<u, x>>} \cap nets \cap Managed

\* What a user is entitled to now; a lookup of the restrictions that failed is
\* taken for none.
Entitled(u) ==
  {n \in Names \ {Host} : \/ u \in Admins \/ n \in Granted(u)
                          \/ n \in Managed /\ n[1] = u
                          \/ n = Bridge /\ n \notin Restricted}
Usable(q) == Entitled(q.user) \cup IF "restricted" \in q.failed THEN {Bridge} ELSE {}

\* What the preset offers a request now: a container that is created may have any
\* network of its owner, and a preset that was not found restricts nothing.
Offers(q) ==
  IF pool = {} \/ "preset" \in q.failed THEN Names
  ELSE pool \cup IF q.op = "create" THEN {n \in Managed : n[1] = q.user} ELSE {}

\* The history of each request follows every step: what it was offered, and what
\* of that its user could use at the time, or an edited container was on.
ForContainer(q) == q # Idle /\ "con" \in DOMAIN q
Remember ==
  /\ offered' = [r \in Requests |->
       IF ForContainer(req'[r]) THEN offered[r] \cup Offers(req[r])' ELSE {}]
  /\ could' = [r \in Requests |->
       IF ForContainer(req'[r])
       THEN could[r] \cup (offered'[r] \cap Usable(req[r])')
                     \cup IF req'[r].op = "update" THEN joined'[req'[r].con] ELSE {}
       ELSE {}]

-----------------------------------------------------------------------------
About(r, c) == ForContainer(req[r]) /\ req[r].con = c
Edits(r, n) == Active(r) /\ req[r].op \in {"delete", "share"} /\ req[r].net = n

Start(r, q) ==
  /\ ~Active(r) /\ calls < MaxCalls /\ calls' = calls + 1
  /\ req' = [req EXCEPT ![r] = q]
  /\ UNCHANGED <<world, stale, removed, edits>>
  /\ Remember

\* A request on a container of one's own; an administrator's are everybody's.
StartOn(r, u, c, q) ==
  /\ u = Owner[c] \/ u \in Admins
  /\ Overlap \/ ~\E s \in Requests : About(s, c)
  /\ Start(r, q)

StartEdit(r, n, q) ==
  /\ Overlap \/ ~\E s \in Requests : Edits(s, n)
  /\ Start(r, q)

\* A request goes on at another step, or answers.
Goto(r, step) == req' = [req EXCEPT ![r].step = step]
Answer(r) == req' = [req EXCEPT ![r] = Idle]
At(r, step) == Active(r) /\ req[r].step = step
Quiet == UNCHANGED <<calls, edits>> /\ Remember

-----------------------------------------------------------------------------
(***************************************************************************)
(* The lookups that decide what a container may be attached to, each a step *)
(* of its own: the image's preset, for an edit the networks the container  *)
(* is on, the grants, and Docker's list.  Each one narrows "allowed".      *)
(***************************************************************************)
NoAccess == [granted |-> {}, restricted |-> {}]

\* presetForContainer, or the image of a create: one that is not found restricts nothing.
ReadPreset(r) ==
  /\ At(r, "preset")
  /\ \E found \in {TRUE} \cup IF "preset" \in Fallible THEN {FALSE} ELSE {} :
       req' = [req EXCEPT ![r] =
         [req[r] EXCEPT !.allowed = IF found /\ pool # {} THEN pool ELSE Names,
                        !.failed = IF found THEN {} ELSE {"preset"},
                        !.step = IF req[r].op = "update" THEN "current" ELSE "grants"]]
  /\ UNCHANGED <<world, stale, removed>> /\ Quiet

\* currentNetworkNames: nothing when Docker does not answer.
ReadCurrent(r) ==
  /\ At(r, "current")
  /\ \E K \in {joined[req[r].con]} \cup Fails("current") :
       req' = [req EXCEPT ![r] = [req[r] EXCEPT !.keep = K, !.step = "grants"]]
  /\ UNCHANGED <<world, stale, removed>> /\ Quiet

ReadGrants(r) ==
  /\ At(r, "grants") /\ ForContainer(req[r])
  /\ \E a \in Access(req[r].user) :
       req' = [req EXCEPT ![r] =
         [req[r] EXCEPT !.seen = a, !.step = "list",
                        !.failed = req[r].failed \cup
                          IF a.restricted = Restricted THEN {} ELSE {"restricted"}]]
  /\ UNCHANGED <<world, stale, removed>> /\ Quiet

\* attachableNetworks, with no network at all when Docker does not answer, and
\* allowedNetworksForImage; a connect is refused here.
ReadList(r) ==
  /\ At(r, "list")
  /\ \E S \in {Attachable(req[r].seen, req[r].user)} \cup Fails("list") :
       LET N == S \cap req[r].allowed IN
       IF req[r].op = "connect" /\ req[r].net \notin N THEN Answer(r)
       ELSE req' = [req EXCEPT ![r] =
              [req[r] EXCEPT !.allowed = N, !.seen = NoAccess,
                             !.step = CASE req[r].op = "create" -> "validate"
                                        [] req[r].op = "update" -> "resolve"
                                        [] OTHER                -> "guard"]]
  /\ UNCHANGED <<world, stale, removed>> /\ Quiet

-----------------------------------------------------------------------------
(***************************************************************************)
(* networkConnect and networkDisconnect: the name is resolved, and guarded *)
(* in the end, by the grants read first.                                   *)
(***************************************************************************)
ConnectBegin(r, u, c, x) ==
  /\ c \in made
  /\ \E a \in Access(u), op \in {"connect", "disconnect"} :
       StartOn(r, u, c, [op |-> op, user |-> u, con |-> c, access |-> a, net |-> Resolve(a, u, x),
                         allowed |-> Names, seen |-> NoAccess, failed |-> {},
                         step |-> IF op = "connect" THEN "preset" ELSE "guard"])

ConnectGuard(r) ==
  /\ At(r, "guard")
  /\ IF GuardUsable(req[r].access, req[r].user, req[r].net) THEN Goto(r, "docker") ELSE Answer(r)
  /\ UNCHANGED <<world, stale, removed>> /\ Quiet

ConnectDocker(r) ==
  /\ At(r, "docker") /\ req[r].op \in {"connect", "disconnect"}
  /\ LET c == req[r].con  n == req[r].net IN
     joined' = [joined EXCEPT ![c] = IF req[r].op = "connect" THEN @ \cup ({n} \cap nets) ELSE @ \ {n}]
  /\ Answer(r)
  /\ UNCHANGED <<nets, made, group, grants, pool, stale, removed>> /\ Quiet

-----------------------------------------------------------------------------
(***************************************************************************)
(* containerUpdate with a list of networks: what the container is on is    *)
(* allowed to stay; UpdateContainerSettings then leaves every network and  *)
(* joins the wanted ones, passing over those Docker refuses.               *)
(***************************************************************************)
UpdateBegin(r, u, c, L) ==
  /\ c \in made
  /\ StartOn(r, u, c, [op |-> "update", user |-> u, con |-> c, keep |-> {}, want |-> L,
                       leave |-> {}, join |-> {}, allowed |-> Names, seen |-> NoAccess,
                       failed |-> {}, step |-> "preset"])

\* Mutant: the update trusts the names the client sent.
UpdateResolveAny(r) ==
  /\ At(r, "resolve")
  /\ \E a \in Access(req[r].user) :
       req' = [req EXCEPT ![r] =
         [req[r] EXCEPT !.want = {Resolve(a, req[r].user, x) : x \in req[r].want}, !.step = "inspect"]]
  /\ UNCHANGED <<world, stale, removed>> /\ Quiet

\* resolveNetworksAgainst reads the grants once more, for the names alone.
UpdateResolve(r) ==
  /\ At(r, "resolve")
  /\ \E a \in Access(req[r].user) :
       LET want == {Resolve(a, req[r].user, x) : x \in req[r].want} IN
       IF want \subseteq req[r].allowed \cup req[r].keep
       THEN req' = [req EXCEPT ![r] = [req[r] EXCEPT !.want = want, !.step = "inspect"]]
       ELSE Answer(r)
  /\ UNCHANGED <<world, stale, removed>> /\ Quiet

UpdateInspect(r) ==
  /\ At(r, "inspect")
  /\ req' = [req EXCEPT ![r] = [@ EXCEPT !.leave = joined[req[r].con], !.join = req[r].want, !.step = "docker"]]
  /\ UNCHANGED <<world, stale, removed>> /\ Quiet

UpdateLeave(r, n) ==
  /\ At(r, "docker") /\ req[r].op = "update" /\ n \in req[r].leave
  /\ joined' = [joined EXCEPT ![req[r].con] = @ \ {n}]
  /\ req' = [req EXCEPT ![r].leave = @ \ {n}]
  /\ UNCHANGED <<nets, made, group, grants, pool, stale, removed>> /\ Quiet

\* Mutant: the first network Docker refuses ends the update.
UpdateJoinStops(r, n) ==
  /\ At(r, "docker") /\ req[r].op = "update" /\ req[r].leave = {} /\ n \in req[r].join
  /\ IF n \in nets /\ req[r].join # {n} THEN req' = [req EXCEPT ![r].join = @ \ {n}] ELSE Answer(r)
  /\ joined' = [joined EXCEPT ![req[r].con] = @ \cup ({n} \cap nets)]
  /\ UNCHANGED <<nets, made, group, grants, pool, stale, removed>> /\ Quiet

UpdateJoin(r, n) ==
  /\ At(r, "docker") /\ req[r].op = "update" /\ req[r].leave = {} /\ n \in req[r].join
  /\ IF req[r].join = {n} THEN Answer(r) ELSE req' = [req EXCEPT ![r].join = @ \ {n}]
  /\ joined' = [joined EXCEPT ![req[r].con] = @ \cup ({n} \cap nets)]
  /\ UNCHANGED <<nets, made, group, grants, pool, stale, removed>> /\ Quiet

-----------------------------------------------------------------------------
(***************************************************************************)
(* Creating a container: validateCreate, then CreateContainer.             *)
(***************************************************************************)
CreateBegin(r, c, L) ==
  /\ c \notin made
  /\ StartOn(r, Owner[c], c, [op |-> "create", user |-> Owner[c], con |-> c, want |-> L,
                              allowed |-> Names, seen |-> NoAccess, failed |-> {}, step |-> "preset"])

CreateValidate(r) ==
  /\ At(r, "validate")
  /\ LET found(x) == Validated(req[r].allowed, req[r].user, x)
         want == UNION {found(x) : x \in req[r].want} IN
     IF \A x \in req[r].want : found(x) # {}
     THEN req' = [req EXCEPT ![r] = [@ EXCEPT !.want = want, !.step = "docker"]]
     ELSE Answer(r)
  /\ UNCHANGED <<world, stale, removed>> /\ Quiet

\* Docker refuses a container with a network it does not have.
CreateDocker(r) ==
  /\ At(r, "docker") /\ req[r].op = "create"
  /\ IF req[r].want \subseteq nets /\ req[r].con \notin made
     THEN /\ made' = made \cup {req[r].con}
          /\ joined' = [joined EXCEPT ![req[r].con] = req[r].want]
     ELSE UNCHANGED <<made, joined>>
  /\ Answer(r)
  /\ UNCHANGED <<nets, group, grants, pool, stale, removed>> /\ Quiet

-----------------------------------------------------------------------------
(***************************************************************************)
(* Administrators: networks, grants, presets and memberships.              *)
(***************************************************************************)
CreateNetwork(n) ==
  /\ n \in Managed \ nets /\ n[1] \in Admins
  /\ nets' = nets \cup {n}
  /\ edits < MaxEdits /\ edits' = edits + 1
  /\ UNCHANGED <<joined, made, group, grants, pool, req, stale, removed, calls>>
  /\ Remember

\* networkDelete by the owner or an administrator: RemoveNetwork inspects and
\* removes (Docker refuses one with endpoints), then the grants are dropped.
DeleteBegin(r, n) ==
  /\ n \in nets \cap Managed
  /\ \A c \in Containers : n \notin joined[c]
  /\ StartEdit(r, n, [op |-> "delete", net |-> n, step |-> "docker"])

DeleteDocker(r) ==
  /\ At(r, "docker") /\ req[r].op = "delete"
  /\ LET n == req[r].net IN
     IF n \in nets /\ \A c \in Containers : n \notin joined[c]
     THEN /\ nets' = nets \ {n}
          /\ removed' = removed \cup {n}
          /\ stale' = stale \cup {p \in grants : p[2] = n}
          /\ req' = [s \in Requests |-> CASE s = r -> [req[r] EXCEPT !.step = "grants"]
                                          [] Edits(s, n) /\ req[s].op = "share" -> [req[s] EXCEPT !.gone = TRUE]
                                          [] OTHER -> req[s]]
     ELSE Answer(r) /\ UNCHANGED <<nets, removed, stale>>
  /\ UNCHANGED <<joined, made, group, grants, pool>> /\ Quiet

\* Mutant: the grants outlive the network.
DeleteGrantsForgotten(r) ==
  /\ At(r, "grants") /\ req[r].op = "delete"
  /\ Answer(r)
  /\ UNCHANGED <<world, stale, removed>> /\ Quiet

DeleteGrants(r) ==
  /\ At(r, "grants") /\ req[r].op = "delete"
  /\ grants' = {p \in grants : p[2] # req[r].net}
  /\ Answer(r)
  /\ UNCHANGED <<nets, joined, made, group, pool, stale, removed>> /\ Quiet

\* networkAccess: the network must exist; then its grants are replaced.
ShareBegin(r, n, G) ==
  /\ n # Host /\ \E u \in Admins : Inspectable([granted |-> {}, restricted |-> {}], u, n)
  /\ StartEdit(r, n, [op |-> "share", net |-> n, groups |-> G, gone |-> FALSE, step |-> "grants"])

ShareGrants(r) ==
  /\ At(r, "grants") /\ req[r].op = "share"
  /\ LET rows == req[r].groups \X {req[r].net} IN
     /\ grants' = {p \in grants : p[2] # req[r].net} \cup rows
     /\ stale' = IF req[r].gone THEN stale \cup rows ELSE stale \ rows
  /\ Answer(r)
  /\ UNCHANGED <<nets, joined, made, group, pool, removed>> /\ Quiet

\* setUserGroup and imagePreset.
Edit ==
  /\ edits < MaxEdits /\ edits' = edits + 1
  /\ \/ \E u \in Users \ Admins, g \in Groups : group' = [group EXCEPT ![u] = g] /\ UNCHANGED pool
     \/ pool' \in Pools /\ UNCHANGED group
  /\ UNCHANGED <<nets, joined, made, grants, req, stale, removed, calls>>
  /\ Remember

-----------------------------------------------------------------------------
Step(r) ==
  \/ ReadPreset(r) \/ ReadCurrent(r) \/ ReadGrants(r) \/ ReadList(r)
  \/ ConnectGuard(r) \/ ConnectDocker(r)
  \/ UpdateResolve(r) \/ UpdateInspect(r) \/ \E n \in Names : UpdateLeave(r, n) \/ UpdateJoin(r, n)
  \/ CreateValidate(r) \/ CreateDocker(r)
  \/ DeleteDocker(r) \/ DeleteGrants(r) \/ ShareGrants(r)

Arrive(r) ==
  \/ \E u \in Users, c \in Containers :
       \/ \E x \in Asked : ConnectBegin(r, u, c, x)
       \/ \E L \in Lists : UpdateBegin(r, u, c, L)
  \/ \E c \in Containers, L \in Lists : CreateBegin(r, c, L)
  \/ \E n \in Names : DeleteBegin(r, n) \/ \E G \in SUBSET Groups : ShareBegin(r, n, G)

Next ==
  \/ \E r \in Requests : Arrive(r) \/ Step(r)
  \/ \E n \in Names : CreateNetwork(n)
  \/ Edit

Spec == Init /\ [][Next]_vars

-----------------------------------------------------------------------------
TypeOK ==
  /\ nets \subseteq Names /\ made \subseteq Containers
  /\ joined \in [Containers -> SUBSET Names]
  /\ \A c \in Containers : joined[c] \subseteq nets
  /\ group \in [Users \ Admins -> Groups]
  /\ grants \subseteq Groups \X (Names \ {Host}) /\ pool \subseteq Names
  /\ \A r \in Requests : Active(r) => req[r].op \in {"connect", "disconnect", "update", "create", "delete", "share"}

\* However grants, memberships, presets and networks change while a request runs, a
\* container joins a network only if at some instant of the request its user was
\* entitled to it and the image's preset offered it then or before, in the request,
\* or the container was on it while its networks were edited.  A lookup of the
\* preset that fails offers everything, and one of the restrictions that fails
\* opens the bridge, to that request alone (the checks of networkConnect,
\* containerUpdate and CreateContainer; server.go:1358-1361).
JoinedEntitled ==
  [][\A c \in Containers : \A n \in joined'[c] \ joined[c] :
       \E r \in Requests : About(r, c) /\ n \in could[r]]_vars

\* Stricter than the code: when its last lookup is done, what a request may attach is
\* still what the preset offers.  The preset was read first, so an edit between the
\* lookups refutes it.
DecidedAtOnce ==
  [][\A r \in Requests : At(r, "list") /\ req'[r] # Idle
       => req'[r].allowed \subseteq Offers(req[r])]_vars

\* A network that is created under the name of a deleted one has none of its grants
\* once the deletion is over (the comments of networkDelete and DeleteNetworkGroups).
NotInherited ==
  \A p \in grants \cap stale : p[2] \in nets => \E r \in Requests : Edits(r, p[2]) /\ req[r].op = "delete"

\* Editing a container's networks does not take it off one that it was on and that
\* was asked for, unless somebody deletes that network meanwhile.
NothingLost ==
  [][\A r \in Requests : Active(r) /\ req[r].op = "update" /\ req[r].step = "docker" /\ req'[r] = Idle
       => (req[r].keep \cap req[r].want) \ removed \subseteq joined'[req[r].con]]_vars

\* The list of attachable networks, the guard of connect and disconnect and the
\* details are implementations of one rule: what may be joined is what is listed as
\* attachable, and can be looked at.
OneRule ==
  \A u \in Users : \A a \in [granted : SUBSET Names, restricted : SUBSET Names], n \in Names :
    /\ n \in Attachable(a, u) <=> GuardUsable(a, u, n)
    /\ GuardUsable(a, u, n) => Inspectable(a, u, n)
=============================================================================
