---------------------------- MODULE NetworksProofs --------------------------
(***************************************************************************)
(* What holds of Networks for any users, networks, grants and requests.    *)
(*                                                                         *)
(* A request is a record whose fields depend on what it is (Shapes).       *)
(* Every invariant below is one about all requests at once; a lemma says   *)
(* what is left to show when an action puts one record into req.           *)
(***************************************************************************)
EXTENDS Networks, TLAPS

\* The names a request may hold: a network's, or what a client sent.
Sent == Names \cup Asked \cup (Users \X Asked)
Accesses == [granted : SUBSET Names, restricted : SUBSET Names]

Lookups  == {"preset", "restricted"}

ConnectShape == [op : {"connect", "disconnect"}, user : Users, con : Containers, access : Accesses,
                 net : Sent, allowed : SUBSET Names, seen : Accesses, failed : SUBSET Lookups,
                 step : {"preset", "grants", "list", "guard", "docker"}]
UpdateShape  == [op : {"update"}, user : Users, con : Containers, keep : SUBSET Names, want : SUBSET Sent,
                 leave : SUBSET Names, join : SUBSET Sent,
                 allowed : SUBSET Names, seen : Accesses, failed : SUBSET Lookups,
                 step : {"preset", "current", "grants", "list", "resolve", "inspect", "docker"}]
CreateShape  == [op : {"create"}, user : Users, con : Containers, want : SUBSET Sent,
                 allowed : SUBSET Names, seen : Accesses, failed : SUBSET Lookups,
                 step : {"preset", "grants", "list", "validate", "docker"}]
DeleteShape  == [op : {"delete"}, net : Names, step : {"docker", "grants"}]
ShareShape   == [op : {"share"}, net : Names \ {Host}, groups : SUBSET Groups, gone : BOOLEAN,
                 step : {"grants"}]
OnContainer  == ConnectShape \cup UpdateShape \cup CreateShape
Shapes       == {Idle} \cup OnContainer \cup DeleteShape \cup ShareShape

\* Docker's networks and the rows of the store.
WorldTyped ==
  /\ nets \subseteq Names /\ made \subseteq Containers
  /\ joined \in [Containers -> SUBSET Names]
  /\ \A c \in Containers : joined[c] \subseteq nets
  /\ group \in [Users \ Admins -> Groups]
  /\ grants \subseteq Groups \X (Names \ {Host}) /\ pool \subseteq Names

\* An edit's names are as the client sent them until they are resolved.
AsSent == \A r \in Requests :
  req[r] \in UpdateShape /\ req[r].step \notin {"inspect", "docker"} => req[r].want \subseteq Asked

Typed == WorldTyped /\ req \in [Requests -> Shapes] /\ AsSent

\* At most one request edits a network, so that none is deleted under a share, and a
\* grant that was meant for a network now gone waits for the deletion to drop it.
OneEditor == \A r, s \in Requests, n \in Names : Edits(r, n) /\ Edits(s, n) => r = s
NoneGone == \A r \in Requests : req[r] \in ShareShape => ~req[r].gone
Dropping(n) == \E r \in Requests : req[r] \in DeleteShape /\ req[r].net = n /\ req[r].step = "grants"
StaleDropped == \A p \in grants \cap stale : Dropping(p[2])
GrantInv == Typed /\ OneEditor /\ NoneGone /\ StaleDropped

\* What a set of grants lets a user attach to.
Lets(a, u) ==
  {n \in Names \ {Host} : \/ u \in Admins \/ n \in a.granted
                          \/ n \in Managed /\ n[1] = u
                          \/ n = Bridge /\ n \notin a.restricted}

\* What a request was let pick so far is among O, what it has been offered, once the
\* preset is read, and among C, what its user could use of that, once the grants are.
Promise(q, O, C) ==
  /\ q \in OnContainer /\ q.step \in {"current", "grants", "list"} => q.allowed \subseteq O
  /\ q \in OnContainer /\ q.step = "list" => q.allowed \cap Lets(q.seen, q.user) \subseteq C
  /\ q \in OnContainer /\ q.step \in {"resolve", "validate"} => q.allowed \subseteq C
  /\ q \in ConnectShape /\ q.op = "connect" /\ q.step \in {"guard", "docker"} => q.net \in C
  /\ q \in UpdateShape => /\ q.keep \subseteq C
                          /\ q.step \in {"inspect", "docker"} => q.want \subseteq C
                          /\ q.step = "docker" => q.join \subseteq C
  /\ q \in CreateShape /\ q.step = "docker" => q.want \subseteq C
Promised == \A r \in Requests : Promise(req[r], offered[r], could[r])
EntitledInv == Typed /\ Promised

\* At most one request is about a container; an edit has put back what it no longer
\* has to join, except what was removed.
OneAbout == \A r, s \in Requests, c \in Containers : About(r, c) /\ About(s, c) => r = s
PutBack(q) ==
  q \in UpdateShape =>
    /\ q.keep \subseteq nets \cup removed
    /\ q.step = "docker" => /\ q.leave # {} => q.join = q.want
                            /\ ((q.want \ q.join) \cap q.keep) \ removed \subseteq joined[q.con]
AllPutBack == \A r \in Requests : PutBack(req[r])
EditInv == Typed /\ OneAbout /\ AllPutBack

-----------------------------------------------------------------------------
(* Requests as records.                                                    *)

\* The kind of a request tells which record it is; only those about a container have
\* one, and a request in flight is not Idle.
LEMMA Kinds ==
  ASSUME NEW q \in Shapes
  PROVE  /\ q.op \in {"none", "connect", "disconnect", "update", "create", "delete", "share"}
         /\ q # Idle <=> q.op # "none"
         /\ q \in ConnectShape <=> q.op \in {"connect", "disconnect"}
         /\ q \in UpdateShape <=> q.op = "update"
         /\ q \in CreateShape <=> q.op = "create"
         /\ q \in DeleteShape <=> q.op = "delete"
         /\ q \in ShareShape <=> q.op = "share"
<1>1. CASE q = Idle
  BY <1>1 DEF Idle, ConnectShape, UpdateShape, CreateShape, DeleteShape, ShareShape
<1>2. CASE q \in ConnectShape
  BY <1>2 DEF Idle, ConnectShape, UpdateShape, CreateShape, DeleteShape, ShareShape
<1>3. CASE q \in UpdateShape
  BY <1>3 DEF Idle, ConnectShape, UpdateShape, CreateShape, DeleteShape, ShareShape
<1>4. CASE q \in CreateShape
  BY <1>4 DEF Idle, ConnectShape, UpdateShape, CreateShape, DeleteShape, ShareShape
<1>5. CASE q \in DeleteShape
  BY <1>5 DEF Idle, ConnectShape, UpdateShape, CreateShape, DeleteShape, ShareShape
<1>6. CASE q \in ShareShape
  BY <1>6 DEF Idle, ConnectShape, UpdateShape, CreateShape, DeleteShape, ShareShape
<1> QED BY <1>1, <1>2, <1>3, <1>4, <1>5, <1>6 DEF Shapes, OnContainer

\* Only a request about a container names one.
LEMMA NamesContainer ==
  ASSUME NEW q \in Shapes
  PROVE  q # Idle /\ "con" \in DOMAIN q <=> q \in OnContainer
<1>1. CASE q = Idle
  BY <1>1 DEF Idle, OnContainer, ConnectShape, UpdateShape, CreateShape
<1>2. CASE q \in ConnectShape
  BY <1>2 DEF Idle, OnContainer, ConnectShape
<1>3. CASE q \in UpdateShape
  BY <1>3 DEF Idle, OnContainer, UpdateShape
<1>4. CASE q \in CreateShape
  BY <1>4 DEF Idle, OnContainer, CreateShape
<1>5. CASE q \in DeleteShape
  BY <1>5 DEF OnContainer, ConnectShape, UpdateShape, CreateShape, DeleteShape
<1>6. CASE q \in ShareShape
  BY <1>6 DEF OnContainer, ConnectShape, UpdateShape, CreateShape, ShareShape
<1> QED BY <1>1, <1>2, <1>3, <1>4, <1>5, <1>6 DEF Shapes, OnContainer

\* Putting one record into req.
LEMMA Put ==
  ASSUME req \in [Requests -> Shapes], NEW r \in Requests, NEW q \in Shapes, req' = [req EXCEPT ![r] = q]
  PROVE  /\ req' \in [Requests -> Shapes]
         /\ req'[r] = q
         /\ \A s \in Requests \ {r} : req'[s] = req[s]
  OBVIOUS

\* A step of a request changes its step field alone.
LEMMA Moved ==
  ASSUME req \in [Requests -> Shapes], NEW r \in Requests, NEW t, Goto(r, t),
         req[r] \in ConnectShape, t \in {"guard", "docker"}
  PROVE  \E q \in ConnectShape :
           /\ req' = [req EXCEPT ![r] = q] /\ q.step = t
           /\ q.op = req[r].op /\ q.user = req[r].user /\ q.con = req[r].con /\ q.net = req[r].net
<1> DEFINE q == [req[r] EXCEPT !.step = t]
<1>1. q \in ConnectShape /\ q.step = t /\ q.op = req[r].op /\ q.user = req[r].user
      /\ q.con = req[r].con /\ q.net = req[r].net
  BY DEF ConnectShape
<1>2. req' = [req EXCEPT ![r] = q]
  BY DEF Goto
<1> HIDE DEF q
<1> QED BY <1>1, <1>2

\* An idle request has no container, network or step.
LEMMA IdleShape == Idle \in Shapes /\ Idle \notin OnContainer \cup DeleteShape \cup ShareShape
BY DEF Shapes, Idle, OnContainer, ConnectShape, UpdateShape, CreateShape, DeleteShape, ShareShape

-----------------------------------------------------------------------------
(* What the requests read.                                                 *)

\* A name that is resolved is one a request may hold.
LEMMA ResolveSent ==
  ASSUME NEW a, NEW u \in Users, NEW x \in Asked
  PROVE  Resolve(a, u, x) \in Sent
BY DEF Resolve, Sent

\* A failed query leaves a set of grants that is smaller, never one of other networks.
LEMMA AccessTyped ==
  ASSUME NEW u \in Users, NEW a \in Access(u)
  PROVE  a \in Accesses /\ a.granted \subseteq Granted(u)
<1>1. a.granted \in {Granted(u)} \cup Fails("granted") /\ a.restricted \in {Restricted} \cup Fails("restricted")
      /\ a = [granted |-> a.granted, restricted |-> a.restricted]
  BY DEF Access
<1>2. a.granted \subseteq Granted(u) /\ a.restricted \subseteq Restricted
  BY <1>1 DEF Fails
<1>3. Granted(u) \subseteq Names /\ Restricted \subseteq Names
  BY DEF Granted, Restricted
<1> QED BY <1>1, <1>2, <1>3 DEF Accesses

LEMMA NoAccessTyped == NoAccess \in Accesses
BY DEF NoAccess, Accesses

\* What a set of grants lists as attachable it lets the user attach to.
LEMMA AttachableLet ==
  ASSUME WorldTyped, NEW a \in Accesses, NEW u \in Users
  PROVE  Attachable(a, u) \subseteq Lets(a, u) /\ Attachable(a, u) \subseteq Names
<1>1. Host \notin Managed \cup HostNets /\ Bridge # Host
  BY NetworksAssumption DEF System
<1>2. ASSUME NEW n \in Attachable(a, u) PROVE n \in Lets(a, u) /\ n \in Names
  <2>1. n \in Names /\ n # Host
    BY <1>1, <1>2 DEF Attachable, MayUseSystem, WorldTyped
  <2> QED BY <1>2, <2>1 DEF Attachable, MayUseSystem, Lets
<1> QED BY <1>2

\* What a request knows when it begins.
Fresh(q) ==
  /\ q \in ConnectShape => q.step = IF q.op = "connect" THEN "preset" ELSE "guard"
  /\ q \in UpdateShape => q.keep = {} /\ q.want \subseteq Asked /\ q.step = "preset"
  /\ q \in CreateShape => q.step = "preset"
  /\ q \in DeleteShape => q.step = "docker"
  /\ q \in ShareShape => ~q.gone
Alone(q) ==
  /\ q \in OnContainer => Overlap \/ \A s \in Requests : ~About(s, q.con)
  /\ q \in DeleteShape \cup ShareShape => Overlap \/ \A s \in Requests : ~Edits(s, q.net)

\* Every handler that begins puts such a request into req.
LEMMA Arrivals ==
  ASSUME Typed, NEW r \in Requests, Arrive(r)
  PROVE  \E q \in Shapes : q # Idle /\ Fresh(q) /\ Alone(q) /\ Start(r, q)
<1>1. ASSUME NEW u \in Users, NEW c \in Containers, NEW x \in Asked, ConnectBegin(r, u, c, x)
      PROVE  \E q \in ConnectShape : Fresh(q) /\ Alone(q) /\ Start(r, q)
  <2>1. PICK a \in Access(u), op \in {"connect", "disconnect"} :
          StartOn(r, u, c, [op |-> op, user |-> u, con |-> c, access |-> a, net |-> Resolve(a, u, x),
                            allowed |-> Names, seen |-> NoAccess, failed |-> {},
                            step |-> IF op = "connect" THEN "preset" ELSE "guard"])
    BY <1>1 DEF ConnectBegin
  <2> DEFINE q == [op |-> op, user |-> u, con |-> c, access |-> a, net |-> Resolve(a, u, x),
                   allowed |-> Names, seen |-> NoAccess, failed |-> {},
                   step |-> IF op = "connect" THEN "preset" ELSE "guard"]
  <2>2. a \in Accesses /\ Resolve(a, u, x) \in Sent /\ NoAccess \in Accesses
    BY AccessTyped, ResolveSent, NoAccessTyped
  <2>3. q \in ConnectShape /\ q.con = c
    BY <2>2 DEF ConnectShape
  <2>4. q.step = IF q.op = "connect" THEN "preset" ELSE "guard"
    OBVIOUS
  <2>5. Start(r, q) /\ (Overlap \/ \A s \in Requests : ~About(s, c))
    BY <2>1 DEF StartOn
  <2> HIDE DEF q
  <2>6. q.op \in {"connect", "disconnect"} /\ q \in Shapes
    BY <2>3 DEF ConnectShape, Shapes, OnContainer
  <2>7. Fresh(q) /\ Alone(q)
    BY <2>3, <2>4, <2>5, <2>6, Kinds DEF Fresh, Alone
  <2> QED BY <2>3, <2>5, <2>7
<1>2. ASSUME NEW u \in Users, NEW c \in Containers, NEW L \in Lists, UpdateBegin(r, u, c, L)
      PROVE  \E q \in UpdateShape : Fresh(q) /\ Alone(q) /\ Start(r, q)
  <2> DEFINE q == [op |-> "update", user |-> u, con |-> c, keep |-> {}, want |-> L,
                   leave |-> {}, join |-> {}, allowed |-> Names, seen |-> NoAccess,
                   failed |-> {}, step |-> "preset"]
  <2>1. L \subseteq Asked /\ L \subseteq Sent /\ NoAccess \in Accesses
    BY NetworksAssumption, NoAccessTyped DEF Sent
  <2>2. q \in UpdateShape /\ q.con = c /\ q.keep = {} /\ q.step = "preset" /\ q.want \subseteq Asked
    BY <2>1 DEF UpdateShape
  <2>3. Start(r, q) /\ (Overlap \/ \A s \in Requests : ~About(s, c))
    BY <1>2 DEF UpdateBegin, StartOn
  <2> HIDE DEF q
  <2>4. q.op = "update" /\ q \in Shapes
    BY <2>2 DEF UpdateShape, Shapes, OnContainer
  <2>5. Fresh(q) /\ Alone(q)
    BY <2>2, <2>3, <2>4, Kinds DEF Fresh, Alone
  <2> QED BY <2>2, <2>3, <2>5
<1>3. ASSUME NEW c \in Containers, NEW L \in Lists, CreateBegin(r, c, L)
      PROVE  \E q \in CreateShape : Fresh(q) /\ Alone(q) /\ Start(r, q)
  <2> DEFINE q == [op |-> "create", user |-> Owner[c], con |-> c, want |-> L,
                   allowed |-> Names, seen |-> NoAccess, failed |-> {}, step |-> "preset"]
  <2>1. Owner[c] \in Users /\ L \subseteq Sent /\ NoAccess \in Accesses
    BY NetworksAssumption, NoAccessTyped DEF Sent
  <2>2. q \in CreateShape /\ q.con = c /\ q.step = "preset"
    BY <2>1 DEF CreateShape
  <2>3. Start(r, q) /\ (Overlap \/ \A s \in Requests : ~About(s, c))
    BY <1>3 DEF CreateBegin, StartOn
  <2> HIDE DEF q
  <2>4. q.op = "create" /\ q \in Shapes
    BY <2>2 DEF CreateShape, Shapes, OnContainer
  <2>5. Fresh(q) /\ Alone(q)
    BY <2>2, <2>3, <2>4, Kinds DEF Fresh, Alone
  <2> QED BY <2>2, <2>3, <2>5
<1>4. ASSUME NEW n \in Names, DeleteBegin(r, n)
      PROVE  \E q \in DeleteShape : Fresh(q) /\ Alone(q) /\ Start(r, q)
  <2> DEFINE q == [op |-> "delete", net |-> n, step |-> "docker"]
  <2>1. q \in DeleteShape /\ q.net = n /\ q.step = "docker"
    BY DEF DeleteShape
  <2>2. Start(r, q) /\ (Overlap \/ \A s \in Requests : ~Edits(s, n))
    BY <1>4 DEF DeleteBegin, StartEdit
  <2> HIDE DEF q
  <2>3. q.op = "delete" /\ q \in Shapes
    BY <2>1 DEF DeleteShape, Shapes
  <2>4. Fresh(q) /\ Alone(q)
    BY <2>1, <2>2, <2>3, Kinds DEF Fresh, Alone, OnContainer
  <2> QED BY <2>1, <2>2, <2>4
<1>5. ASSUME NEW n \in Names, NEW G \in SUBSET Groups, ShareBegin(r, n, G)
      PROVE  \E q \in ShareShape : Fresh(q) /\ Alone(q) /\ Start(r, q)
  <2> DEFINE q == [op |-> "share", net |-> n, groups |-> G, gone |-> FALSE, step |-> "grants"]
  <2>1. q \in ShareShape /\ q.net = n /\ ~q.gone
    BY <1>5 DEF ShareBegin, ShareShape
  <2>2. Start(r, q) /\ (Overlap \/ \A s \in Requests : ~Edits(s, n))
    BY <1>5 DEF ShareBegin, StartEdit
  <2> HIDE DEF q
  <2>3. q.op = "share" /\ q \in Shapes
    BY <2>1 DEF ShareShape, Shapes
  <2>4. Fresh(q) /\ Alone(q)
    BY <2>1, <2>2, <2>3, Kinds DEF Fresh, Alone, OnContainer
  <2> QED BY <2>1, <2>2, <2>4
<1>6. \E q \in OnContainer \cup DeleteShape \cup ShareShape : Fresh(q) /\ Alone(q) /\ Start(r, q)
  BY <1>1, <1>2, <1>3, <1>4, <1>5 DEF Arrive, OnContainer
<1> QED BY <1>6, IdleShape DEF Shapes

-----------------------------------------------------------------------------
(* Every step of a request puts one record, or Idle, in its place; only a   *)
(* network that is removed touches other requests, and of them only shares. *)

\* What a lookup leaves of a request, and what it may change.
Looked(p, q) ==
  /\ q \in OnContainer /\ q.op = p.op /\ q.user = p.user /\ q.con = p.con
  /\ q.step \in {"current", "grants", "list", "guard", "resolve", "validate"}
  /\ q \in ConnectShape => q.net = p.net
  /\ q \in UpdateShape => p.step \notin {"inspect", "docker"} /\ q.want = p.want
                         /\ (q.keep = p.keep \/ q.keep \subseteq joined[q.con])

\* The image's preset is what the lookup may pick from, or everything when it fails.
LEMMA PresetRead ==
  ASSUME Typed, NEW r \in Requests, ReadPreset(r)
  PROVE  /\ req[r] \in OnContainer /\ UNCHANGED <<world, stale, removed>> /\ Remember
         /\ \E q : /\ Looked(req[r], q) /\ req' = [req EXCEPT ![r] = q]
                   /\ q.step \in {"current", "grants"}
                   /\ q.allowed \subseteq Offers(q)
                   /\ q \in UpdateShape => q.keep = req[r].keep
<1>1. req[r].step = "preset" /\ req[r] # Idle /\ req[r] \in Shapes
  BY DEF ReadPreset, At, Active, Typed
<1>2. req[r] \in OnContainer
  BY <1>1 DEF Shapes, DeleteShape, ShareShape
<1>3. PICK found \in BOOLEAN :
       req' = [req EXCEPT ![r] =
         [req[r] EXCEPT !.allowed = IF found /\ pool # {} THEN pool ELSE Names,
                        !.failed = IF found THEN {} ELSE {"preset"},
                        !.step = IF req[r].op = "update" THEN "current" ELSE "grants"]]
  BY DEF ReadPreset
<1> DEFINE A == IF found /\ pool # {} THEN pool ELSE Names
           F == IF found THEN {} ELSE {"preset"}
           t == IF req[r].op = "update" THEN "current" ELSE "grants"
           q == [req[r] EXCEPT !.allowed = A, !.failed = F, !.step = t]
<1>4. A \in SUBSET Names /\ F \in SUBSET Lookups /\ t \in {"current", "grants"}
  BY DEF Typed, WorldTyped, Lookups
<1>5. A \subseteq pool \/ pool = {} \/ "preset" \in F
  OBVIOUS
<1>6. t = "current" <=> req[r].op = "update"
  OBVIOUS
<1>7. req' = [req EXCEPT ![r] = q]
  BY <1>3
<1> HIDE DEF A, F, t
<1>8. Looked(req[r], q) /\ q.allowed = A /\ q.failed = F /\ q.step = t
      /\ (q \in UpdateShape => q.keep = req[r].keep)
  <2>1. CASE req[r] \in ConnectShape
    BY <1>1, <1>4, <1>6, <2>1 DEF ConnectShape, UpdateShape, OnContainer, Looked
  <2>2. CASE req[r] \in UpdateShape
    BY <1>1, <1>4, <1>6, <2>2 DEF ConnectShape, UpdateShape, OnContainer, Looked
  <2>3. CASE req[r] \in CreateShape
    BY <1>1, <1>4, <1>6, <2>3 DEF ConnectShape, UpdateShape, CreateShape, OnContainer, Looked
  <2> QED BY <1>2, <2>1, <2>2, <2>3 DEF OnContainer
<1> HIDE DEF q
<1>9. q.allowed \subseteq Offers(q)
  BY <1>4, <1>5, <1>8 DEF Offers
<1> QED BY <1>2, <1>4, <1>7, <1>8, <1>9 DEF ReadPreset, Quiet

\* An edit reads the networks its container is on.
LEMMA CurrentRead ==
  ASSUME Typed, NEW r \in Requests, ReadCurrent(r)
  PROVE  /\ req[r] \in OnContainer /\ UNCHANGED <<world, stale, removed>> /\ Remember
         /\ req[r].step = "current"
         /\ \E q : /\ Looked(req[r], q) /\ req' = [req EXCEPT ![r] = q]
                   /\ q \in UpdateShape /\ q.step = "grants" /\ q.allowed = req[r].allowed
                   /\ q.keep \subseteq joined[q.con]
<1>1. req[r].step = "current" /\ req[r] # Idle /\ req[r] \in Shapes
  BY DEF ReadCurrent, At, Active, Typed
<1>2. req[r] \in UpdateShape
  BY <1>1 DEF Shapes, OnContainer, ConnectShape, CreateShape, DeleteShape, ShareShape
<1>3. PICK K \in {joined[req[r].con]} \cup Fails("current") :
        req' = [req EXCEPT ![r] = [req[r] EXCEPT !.keep = K, !.step = "grants"]]
  BY DEF ReadCurrent
<1> DEFINE q == [req[r] EXCEPT !.keep = K, !.step = "grants"]
<1>4. K \subseteq joined[req[r].con] /\ K \subseteq Names
  BY <1>2 DEF Fails, UpdateShape, Typed, WorldTyped
<1>5. req' = [req EXCEPT ![r] = q]
  BY <1>3
<1>6. q \in UpdateShape /\ q.step = "grants" /\ q.allowed = req[r].allowed /\ q.keep = K
      /\ q.op = req[r].op /\ q.user = req[r].user /\ q.con = req[r].con /\ q.want = req[r].want
  BY <1>2, <1>4 DEF UpdateShape
<1> HIDE DEF q
<1>7. Looked(req[r], q)
  BY <1>1, <1>4, <1>6 DEF Looked, OnContainer, ConnectShape, UpdateShape
<1> QED BY <1>1, <1>2, <1>4, <1>5, <1>6, <1>7 DEF ReadCurrent, Quiet, OnContainer

\* The grants are those of now; a query for the restrictions that fails is remembered.
LEMMA GrantsRead ==
  ASSUME Typed, NEW r \in Requests, ReadGrants(r)
  PROVE  /\ req[r] \in OnContainer /\ UNCHANGED <<world, stale, removed>> /\ Remember
         /\ req[r].step = "grants"
         /\ \E q : /\ Looked(req[r], q) /\ req' = [req EXCEPT ![r] = q]
                   /\ q.step = "list" /\ q.allowed = req[r].allowed
                   /\ q \in UpdateShape => q.keep = req[r].keep
                   /\ Lets(q.seen, q.user) \subseteq Usable(q)
<1>1. req[r].step = "grants" /\ req[r] # Idle /\ req[r] \in Shapes
  BY DEF ReadGrants, At, Active, Typed
<1>2. req[r] \in OnContainer
  BY <1>1, NamesContainer DEF ReadGrants, ForContainer
<1>3. PICK a \in Access(req[r].user) :
       req' = [req EXCEPT ![r] =
         [req[r] EXCEPT !.seen = a, !.step = "list",
                        !.failed = req[r].failed \cup
                          IF a.restricted = Restricted THEN {} ELSE {"restricted"}]]
  BY DEF ReadGrants
<1> DEFINE F == req[r].failed \cup IF a.restricted = Restricted THEN {} ELSE {"restricted"}
           q == [req[r] EXCEPT !.seen = a, !.step = "list", !.failed = F]
<1>4. req[r].user \in Users /\ req[r].failed \in SUBSET Lookups
  BY <1>2 DEF OnContainer, ConnectShape, UpdateShape, CreateShape
<1>5. a \in Accesses /\ a.granted \subseteq Granted(req[r].user)
  BY <1>4, AccessTyped
<1>6. F \in SUBSET Lookups /\ (a.restricted = Restricted \/ "restricted" \in F)
  BY <1>4 DEF Lookups
<1>7. req' = [req EXCEPT ![r] = q]
  BY <1>3
<1> HIDE DEF F
<1>8. Looked(req[r], q) /\ q.allowed = req[r].allowed /\ q.failed = F /\ q.step = "list" /\ q.seen = a
      /\ (q \in UpdateShape => q.keep = req[r].keep)
  <2>1. CASE req[r] \in ConnectShape
    BY <1>1, <1>5, <1>6, <2>1 DEF ConnectShape, UpdateShape, OnContainer, Looked
  <2>2. CASE req[r] \in UpdateShape
    BY <1>1, <1>5, <1>6, <2>2 DEF ConnectShape, UpdateShape, OnContainer, Looked
  <2>3. CASE req[r] \in CreateShape
    BY <1>1, <1>5, <1>6, <2>3 DEF ConnectShape, UpdateShape, CreateShape, OnContainer, Looked
  <2> QED BY <1>2, <2>1, <2>2, <2>3 DEF OnContainer
<1> HIDE DEF q
<1>9. Lets(q.seen, q.user) \subseteq Usable(q)
  <2>1. q.user = req[r].user
    BY <1>8 DEF Looked
  <2> QED BY <1>5, <1>6, <1>8, <2>1 DEF Lets, Usable, Entitled
<1> QED BY <1>1, <1>2, <1>7, <1>8, <1>9 DEF ReadGrants, Quiet

\* Docker's list leaves what the grants let the user attach to.
LEMMA ListRead ==
  ASSUME Typed, NEW r \in Requests, ReadList(r)
  PROVE  /\ req[r] \in OnContainer /\ UNCHANGED <<world, stale, removed>> /\ Remember
         /\ req[r].step = "list"
         /\ \/ Answer(r)
            \/ \E q : /\ Looked(req[r], q) /\ req' = [req EXCEPT ![r] = q]
                      /\ q.step \in {"guard", "resolve", "validate"}
                      /\ q.allowed \subseteq req[r].allowed \cap Lets(req[r].seen, req[r].user)
                      /\ q.op = "connect" => q.net \in q.allowed
                      /\ q \in UpdateShape => q.keep = req[r].keep
<1>1. req[r].step = "list" /\ req[r] # Idle /\ req[r] \in Shapes
  BY DEF ReadList, At, Active, Typed
<1>2. req[r] \in OnContainer
  BY <1>1 DEF Shapes, DeleteShape, ShareShape
<1>3. PICK S \in {Attachable(req[r].seen, req[r].user)} \cup Fails("list") :
       LET N == S \cap req[r].allowed IN
       IF req[r].op = "connect" /\ req[r].net \notin N THEN Answer(r)
       ELSE req' = [req EXCEPT ![r] =
              [req[r] EXCEPT !.allowed = N, !.seen = NoAccess,
                             !.step = CASE req[r].op = "create" -> "validate"
                                        [] req[r].op = "update" -> "resolve"
                                        [] OTHER                -> "guard"]]
  BY DEF ReadList
<1> DEFINE N == S \cap req[r].allowed
           t == CASE req[r].op = "create" -> "validate"
                  [] req[r].op = "update" -> "resolve"
                  [] OTHER                -> "guard"
           q == [req[r] EXCEPT !.allowed = N, !.seen = NoAccess, !.step = t]
<1>4. req[r].user \in Users /\ req[r].seen \in Accesses /\ req[r].allowed \subseteq Names
      /\ req[r].op \in {"connect", "disconnect", "update", "create"}
  BY <1>2 DEF OnContainer, ConnectShape, UpdateShape, CreateShape
<1>5. N \subseteq req[r].allowed \cap Lets(req[r].seen, req[r].user) /\ N \in SUBSET Names
  BY <1>4, AttachableLet DEF Fails, Typed
<1>6. NoAccess \in Accesses
  BY NoAccessTyped
<1>7. t = IF req[r].op = "create" THEN "validate" ELSE IF req[r].op = "update" THEN "resolve" ELSE "guard"
  OBVIOUS
<1>8. Answer(r) \/ (req' = [req EXCEPT ![r] = q] /\ (req[r].op = "connect" => req[r].net \in N))
  BY <1>3
<1> HIDE DEF N, t
<1>9. Looked(req[r], q) /\ q.allowed = N /\ q.step = t /\ (q \in UpdateShape => q.keep = req[r].keep)
      /\ (q \in ConnectShape <=> req[r] \in ConnectShape)
  <2>1. CASE req[r] \in ConnectShape
    BY <1>1, <1>5, <1>6, <1>7, <2>1 DEF ConnectShape, UpdateShape, OnContainer, Looked
  <2>2. CASE req[r] \in UpdateShape
    BY <1>1, <1>5, <1>6, <1>7, <2>2 DEF ConnectShape, UpdateShape, OnContainer, Looked
  <2>3. CASE req[r] \in CreateShape
    BY <1>1, <1>5, <1>6, <1>7, <2>3 DEF ConnectShape, UpdateShape, CreateShape, OnContainer, Looked
  <2> QED BY <1>2, <2>1, <2>2, <2>3 DEF OnContainer
<1> HIDE DEF q
<1>10. q.step \in {"guard", "resolve", "validate"} /\ q.op = req[r].op
  BY <1>7, <1>9 DEF Looked
<1>11. req[r].op = "connect" /\ req[r].net \in N => q.net \in q.allowed
  <2>1. req[r].op = "connect" => q \in ConnectShape
    BY <1>1, <1>9, Kinds
  <2> QED BY <1>9, <2>1 DEF Looked
<1> QED BY <1>1, <1>2, <1>5, <1>8, <1>9, <1>10, <1>11 DEF ReadList, Quiet

\* Every lookup leaves a request about its container, or answers it.
Lookup(r) == ReadPreset(r) \/ ReadCurrent(r) \/ ReadGrants(r) \/ ReadList(r)
LEMMA LookupPuts ==
  ASSUME Typed, NEW r \in Requests, Lookup(r)
  PROVE  /\ req[r] \in OnContainer /\ UNCHANGED <<world, stale, removed>> /\ Remember
         /\ \/ Answer(r)
            \/ \E q : Looked(req[r], q) /\ req' = [req EXCEPT ![r] = q]
BY PresetRead, CurrentRead, GrantsRead, ListRead DEF Lookup

\* The steps of connecting and disconnecting.
LEMMA ConnectPuts ==
  ASSUME Typed, NEW r \in Requests, ConnectGuard(r) \/ ConnectDocker(r)
  PROVE  /\ req[r] \in ConnectShape
         /\ \/ Answer(r)
            \/ \E q \in ConnectShape :
                 /\ req' = [req EXCEPT ![r] = q]
                 /\ q.op = req[r].op /\ q.user = req[r].user /\ q.con = req[r].con /\ q.net = req[r].net
                 /\ req[r].step = "guard" /\ q.step = "docker"
                 /\ UNCHANGED world
<1>1. req[r] \in Shapes
  BY DEF Typed
<1>3. CASE ConnectGuard(r)
  <2>1. req[r].step = "guard" /\ req[r] # Idle
    BY <1>3 DEF ConnectGuard, At, Active
  <2>2. req[r] \in ConnectShape
    BY <1>1, <2>1 DEF Shapes, OnContainer, UpdateShape, CreateShape, DeleteShape, ShareShape
  <2>3. (Goto(r, "docker") \/ Answer(r)) /\ UNCHANGED world
    BY <1>3 DEF ConnectGuard
  <2>4. CASE Goto(r, "docker")
    BY <2>1, <2>2, <2>3, <2>4, Moved DEF Typed
  <2> QED BY <2>2, <2>3, <2>4
<1>4. CASE ConnectDocker(r)
  BY <1>1, <1>4, Kinds DEF ConnectDocker
<1> QED BY <1>3, <1>4

\* What an edit keeps of itself from step to step.
Edited(p, q) ==
  p \in UpdateShape /\ q \in UpdateShape /\ q.user = p.user /\ q.con = p.con /\ q.keep = p.keep

\* An edit that is allowed wants what its user may pick or the container has.
LEMMA UpdateResolved ==
  ASSUME Typed, NEW r \in Requests, UpdateResolve(r)
  PROVE  /\ req[r] \in UpdateShape /\ req[r].step = "resolve" /\ UNCHANGED <<world, stale, removed>>
         /\ \/ Answer(r)
            \/ \E q : /\ Edited(req[r], q) /\ req' = [req EXCEPT ![r] = q] /\ q.step = "inspect"
                      /\ q.want \subseteq req[r].allowed \cup req[r].keep
<1>1. req[r].step = "resolve" /\ req[r] # Idle /\ req[r] \in Shapes
  BY DEF UpdateResolve, At, Active, Typed
<1>2. req[r] \in UpdateShape
  BY <1>1 DEF Shapes, OnContainer, ConnectShape, CreateShape, DeleteShape, ShareShape
<1>3. req[r].user \in Users /\ req[r].want \subseteq Asked
  BY <1>1, <1>2 DEF UpdateShape, Typed, AsSent
<1>4. PICK a \in Access(req[r].user) :
        LET want == {Resolve(a, req[r].user, x) : x \in req[r].want} IN
        IF want \subseteq req[r].allowed \cup req[r].keep
        THEN req' = [req EXCEPT ![r] = [req[r] EXCEPT !.want = want, !.step = "inspect"]]
        ELSE Answer(r)
  BY DEF UpdateResolve
<1> DEFINE W == {Resolve(a, req[r].user, x) : x \in req[r].want}
           q == [req[r] EXCEPT !.want = W, !.step = "inspect"]
<1>5. Answer(r) \/ (W \subseteq req[r].allowed \cup req[r].keep /\ req' = [req EXCEPT ![r] = q])
  BY <1>4
<1>6. W \subseteq Sent
  BY <1>3, ResolveSent
<1> HIDE DEF W
<1>7. Edited(req[r], q) /\ q.step = "inspect" /\ q.want = W
  BY <1>2, <1>6 DEF UpdateShape, Edited
<1> HIDE DEF q
<1> QED BY <1>1, <1>2, <1>5, <1>7 DEF UpdateResolve

\* It reads the networks to leave, and has all of the wanted ones to join.
LEMMA UpdateInspected ==
  ASSUME Typed, NEW r \in Requests, UpdateInspect(r)
  PROVE  /\ req[r] \in UpdateShape /\ req[r].step = "inspect" /\ UNCHANGED <<world, stale, removed>>
         /\ \E q : /\ Edited(req[r], q) /\ req' = [req EXCEPT ![r] = q] /\ q.step = "docker"
                   /\ q.want = req[r].want /\ q.join = q.want
<1>1. req[r].step = "inspect" /\ req[r] # Idle /\ req[r] \in Shapes
  BY DEF UpdateInspect, At, Active, Typed
<1>2. req[r] \in UpdateShape
  BY <1>1 DEF Shapes, OnContainer, ConnectShape, CreateShape, DeleteShape, ShareShape
<1> DEFINE q == [req[r] EXCEPT !.leave = joined[req[r].con], !.join = req[r].want, !.step = "docker"]
<1>3. joined[req[r].con] \subseteq Names
  BY <1>2 DEF UpdateShape, Typed, WorldTyped
<1>4. Edited(req[r], q) /\ q.step = "docker" /\ q.want = req[r].want /\ q.join = q.want
  BY <1>2, <1>3 DEF UpdateShape, Edited
<1>5. req' = [req EXCEPT ![r] = q] /\ UNCHANGED <<world, stale, removed>>
  BY DEF UpdateInspect
<1> HIDE DEF q
<1> QED BY <1>1, <1>2, <1>4, <1>5

\* It leaves one network after the other.
LEMMA UpdateLeft ==
  ASSUME Typed, NEW r \in Requests, NEW n \in Names, UpdateLeave(r, n)
  PROVE  /\ req[r] \in UpdateShape /\ req[r].step = "docker" /\ n \in req[r].leave
         /\ joined' = [joined EXCEPT ![req[r].con] = @ \ {n}]
         /\ UNCHANGED <<nets, made, group, grants, pool, stale, removed>>
         /\ \E q : /\ Edited(req[r], q) /\ req' = [req EXCEPT ![r] = q] /\ q.step = "docker"
                   /\ q.want = req[r].want /\ q.join = req[r].join
<1>1. req[r] \in UpdateShape /\ req[r].step = "docker"
  BY Kinds DEF UpdateLeave, At, Typed
<1> DEFINE q == [req[r] EXCEPT !.leave = @ \ {n}]
<1>2. Edited(req[r], q) /\ q.step = "docker" /\ q.want = req[r].want /\ q.join = req[r].join
  BY <1>1 DEF UpdateShape, Edited
<1>3. req' = [req EXCEPT ![r] = q]
  BY DEF UpdateLeave
<1> HIDE DEF q
<1> QED BY <1>1, <1>2, <1>3 DEF UpdateLeave

\* It joins one network after the other, of those Docker still has, and answers after
\* the last.
LEMMA UpdateJoins ==
  ASSUME Typed, NEW r \in Requests, NEW n \in Names, UpdateJoin(r, n)
  PROVE  /\ req[r] \in UpdateShape /\ req[r].step = "docker" /\ req[r].leave = {} /\ n \in req[r].join
         /\ joined' = [joined EXCEPT ![req[r].con] = @ \cup ({n} \cap nets)]
         /\ UNCHANGED <<nets, made, group, grants, pool, stale, removed>>
         /\ \/ Answer(r) /\ req[r].join = {n}
            \/ \E q : /\ Edited(req[r], q) /\ req' = [req EXCEPT ![r] = q] /\ q.step = "docker"
                      /\ q.want = req[r].want /\ q.leave = {} /\ q.join = req[r].join \ {n}
<1>1. req[r] \in UpdateShape /\ req[r].step = "docker" /\ req[r].leave = {}
  BY Kinds DEF UpdateJoin, At, Typed
<1> DEFINE q == [req[r] EXCEPT !.join = @ \ {n}]
<1>2. Edited(req[r], q) /\ q.step = "docker" /\ q.want = req[r].want /\ q.leave = {}
      /\ q.join = req[r].join \ {n}
  BY <1>1 DEF UpdateShape, Edited
<1>3. (Answer(r) /\ req[r].join = {n}) \/ req' = [req EXCEPT ![r] = q]
  BY DEF UpdateJoin
<1> HIDE DEF q
<1> QED BY <1>1, <1>2, <1>3 DEF UpdateJoin

\* A creation takes the networks it was allowed, or own ones by their display names.
LEMMA CreateValidated ==
  ASSUME Typed, NEW r \in Requests, CreateValidate(r)
  PROVE  /\ req[r] \in CreateShape /\ req[r].step = "validate" /\ UNCHANGED <<world, stale, removed>>
         /\ \/ Answer(r)
            \/ \E q \in CreateShape :
                 /\ req' = [req EXCEPT ![r] = q] /\ q.step = "docker"
                 /\ q.user = req[r].user /\ q.con = req[r].con /\ q.allowed = req[r].allowed
                 /\ \A n \in q.want : n \in nets /\ (n \in q.allowed \/ (n \in Managed /\ n[1] = q.user))
<1>1. req[r].step = "validate" /\ req[r] # Idle /\ req[r] \in Shapes
  BY DEF CreateValidate, At, Active, Typed
<1>2. req[r] \in CreateShape
  BY <1>1 DEF Shapes, OnContainer, ConnectShape, UpdateShape, DeleteShape, ShareShape
<1> DEFINE W == UNION {Validated(req[r].allowed, req[r].user, x) : x \in req[r].want}
           q == [req[r] EXCEPT !.want = W, !.step = "docker"]
<1>3. Answer(r) \/ req' = [req EXCEPT ![r] = q]
  BY DEF CreateValidate
<1>4. ASSUME NEW x, NEW n \in Validated(req[r].allowed, req[r].user, x)
      PROVE  n \in nets /\ (n \in req[r].allowed \/ (n \in Managed /\ n[1] = req[r].user))
  BY <1>4 DEF Validated, Managed
<1>5. \A n \in W : n \in nets /\ (n \in req[r].allowed \/ (n \in Managed /\ n[1] = req[r].user))
  BY <1>4
<1>6. W \subseteq Sent
  BY <1>5 DEF Typed, WorldTyped, Sent
<1> HIDE DEF W
<1>7. q \in CreateShape /\ q.step = "docker" /\ q.user = req[r].user /\ q.con = req[r].con
      /\ q.allowed = req[r].allowed /\ q.want = W
  BY <1>2, <1>6 DEF CreateShape
<1> HIDE DEF q
<1>8. \A n \in q.want : n \in nets /\ (n \in q.allowed \/ (n \in Managed /\ n[1] = q.user))
  BY <1>5, <1>7
<1>9. UNCHANGED <<world, stale, removed>>
  BY DEF CreateValidate
<1> QED BY <1>1, <1>2, <1>3, <1>7, <1>8, <1>9

\* A container is created on the wanted networks, or not at all.
LEMMA CreateDone ==
  ASSUME Typed, NEW r \in Requests, CreateDocker(r)
  PROVE  /\ req[r] \in CreateShape /\ req[r].step = "docker" /\ Answer(r)
         /\ UNCHANGED <<nets, group, grants, pool, stale, removed>>
         /\ \/ UNCHANGED <<made, joined>>
            \/ /\ req[r].want \subseteq nets
               /\ made' = made \cup {req[r].con}
               /\ joined' = [joined EXCEPT ![req[r].con] = req[r].want]
BY Kinds DEF CreateDocker, At, Typed

\* Removing a network marks the shares of it, and keeps its grants for the next step.
LEMMA DeleteDone ==
  ASSUME Typed, NEW r \in Requests, DeleteDocker(r)
  PROVE  /\ req[r] \in DeleteShape /\ req[r].step = "docker"
         /\ UNCHANGED <<joined, made, group, grants, pool>>
         /\ \/ Answer(r) /\ UNCHANGED <<nets, removed, stale>>
            \/ /\ \A c \in Containers : req[r].net \notin joined[c]
               /\ nets' = nets \ {req[r].net} /\ removed' = removed \cup {req[r].net}
               /\ stale' = stale \cup {p \in grants : p[2] = req[r].net}
               /\ req' \in [Requests -> Shapes]
               /\ req'[r] \in DeleteShape /\ req'[r].net = req[r].net /\ req'[r].step = "grants"
               /\ \A s \in Requests \ {r} :
                    \/ req'[s] = req[s]
                    \/ /\ req[s] \in ShareShape /\ req'[s] \in ShareShape
                       /\ Edits(s, req[r].net) /\ req'[s].net = req[s].net
<1>1. req[r] \in DeleteShape /\ req[r].step = "docker"
  BY Kinds DEF DeleteDocker, At, Typed
<1>2. UNCHANGED <<joined, made, group, grants, pool>>
  BY DEF DeleteDocker
<1>3. CASE Answer(r) /\ UNCHANGED <<nets, removed, stale>>
  BY <1>1, <1>2, <1>3
<1> DEFINE n == req[r].net
           f(s) == CASE s = r -> [req[r] EXCEPT !.step = "grants"]
                     [] Edits(s, n) /\ req[s].op = "share" -> [req[s] EXCEPT !.gone = TRUE]
                     [] OTHER -> req[s]
<1>4. CASE /\ n \in nets /\ \A c \in Containers : n \notin joined[c]
           /\ nets' = nets \ {n} /\ removed' = removed \cup {n}
           /\ stale' = stale \cup {p \in grants : p[2] = n}
           /\ req' = [s \in Requests |-> f(s)]
  <2>1. f(r) \in DeleteShape /\ f(r).net = n /\ f(r).step = "grants"
    BY <1>1 DEF DeleteShape
  <2>2. ASSUME NEW s \in Requests \ {r}
        PROVE  \/ f(s) = req[s]
               \/ /\ req[s] \in ShareShape /\ f(s) \in ShareShape
                  /\ Edits(s, n) /\ f(s).net = req[s].net
    <3>1. CASE Edits(s, n) /\ req[s].op = "share"
      <4>1. req[s] \in ShareShape
        BY <3>1, Kinds DEF Typed
      <4>2. f(s) = [req[s] EXCEPT !.gone = TRUE]
        BY <3>1
      <4>3. f(s) \in ShareShape /\ f(s).net = req[s].net
        BY <4>1, <4>2 DEF ShareShape
      <4> QED BY <3>1, <4>1, <4>3
    <3>2. CASE ~(Edits(s, n) /\ req[s].op = "share")
      <4>1. f(s) = req[s]
        BY <3>2
      <4> QED BY <4>1
    <3> QED BY <3>1, <3>2
  <2> HIDE DEF f
  <2>3. \A s \in Requests : f(s) \in Shapes
    BY <2>1, <2>2 DEF Typed, Shapes
  <2>4. req' \in [Requests -> Shapes] /\ \A s \in Requests : req'[s] = f(s)
    BY <1>4, <2>3
  <2> QED BY <1>1, <1>2, <1>4, <2>1, <2>2, <2>4
<1>5. \/ Answer(r) /\ UNCHANGED <<nets, removed, stale>>
      \/ /\ n \in nets /\ \A c \in Containers : n \notin joined[c]
         /\ nets' = nets \ {n} /\ removed' = removed \cup {n}
         /\ stale' = stale \cup {p \in grants : p[2] = n}
         /\ req' = [s \in Requests |-> f(s)]
  BY DEF DeleteDocker
<1> QED BY <1>3, <1>4, <1>5

\* Then its grants are dropped.
LEMMA GrantsDropped ==
  ASSUME Typed, NEW r \in Requests, DeleteGrants(r)
  PROVE  /\ req[r] \in DeleteShape /\ req[r].step = "grants" /\ Answer(r)
         /\ grants' = {p \in grants : p[2] # req[r].net}
         /\ UNCHANGED <<nets, joined, made, group, pool, stale, removed>>
BY Kinds DEF DeleteGrants, At, Typed

\* A share replaces the grants of its network.
LEMMA GrantsReplaced ==
  ASSUME Typed, NEW r \in Requests, ShareGrants(r)
  PROVE  /\ req[r] \in ShareShape /\ Answer(r)
         /\ LET rows == req[r].groups \X {req[r].net} IN
            /\ grants' = {p \in grants : p[2] # req[r].net} \cup rows
            /\ stale' = IF req[r].gone THEN stale \cup rows ELSE stale \ rows
         /\ UNCHANGED <<nets, joined, made, group, pool, removed>>
<1>1. req[r] \in ShareShape
  BY Kinds DEF ShareGrants, At, Typed
<1> QED BY <1>1 DEF ShareGrants

-----------------------------------------------------------------------------
(* Types.                                                                  *)

LEMMA TypedPut ==
  ASSUME Typed, WorldTyped', NEW r \in Requests, NEW q \in Shapes, req' = [req EXCEPT ![r] = q],
         q \in UpdateShape /\ q.step \notin {"inspect", "docker"} => q.want \subseteq Asked
  PROVE  Typed'
<1>1. /\ req' \in [Requests -> Shapes] /\ req'[r] = q
      /\ \A s \in Requests \ {r} : req'[s] = req[s]
  BY Put DEF Typed
<1>2. AsSent'
  BY <1>1 DEF AsSent, Typed
<1> QED BY <1>1, <1>2 DEF Typed

LEMMA TypedAnswer ==
  ASSUME Typed, WorldTyped', NEW r \in Requests, Answer(r)
  PROVE  Typed'
<1>1. Idle \in Shapes /\ Idle \notin UpdateShape
  BY IdleShape DEF OnContainer
<1> QED BY <1>1, TypedPut DEF Answer

LEMMA TypedKept ==
  ASSUME Typed, WorldTyped', UNCHANGED req
  PROVE  Typed'
BY DEF Typed, AsSent

LEMMA WorldKept ==
  ASSUME WorldTyped, UNCHANGED world
  PROVE  WorldTyped'
BY DEF WorldTyped, world

\* A container's new networks are ones Docker has.
LEMMA WorldJoined ==
  ASSUME WorldTyped, NEW c \in Containers, NEW S, joined' = [joined EXCEPT ![c] = S], S \subseteq nets,
         made' \subseteq Containers, UNCHANGED <<nets, group, grants, pool>>
  PROVE  WorldTyped'
<1>1. S \subseteq Names
  BY DEF WorldTyped
<1>2. joined' \in [Containers -> SUBSET Names] /\ \A d \in Containers : joined'[d] \subseteq nets
  BY <1>1 DEF WorldTyped
<1> QED BY <1>2 DEF WorldTyped

\* Initially.
LEMMA TypedInit == Init => Typed
<1> SUFFICES ASSUME Init PROVE Typed
  OBVIOUS
<1>1. WorldTyped
  <2>1. nets = Names /\ made \subseteq Containers /\ group \in [Users \ Admins -> Groups] /\ pool \subseteq Names
    BY DEF Init
  <2>2. Bridge \in Names \ {Host} /\ HostNets \subseteq Names \ {Host}
    BY NetworksAssumption DEF Names, System
  <2>3. joined \in [Containers -> SUBSET Names]
    BY <2>2 DEF Init
  <2>4. grants \subseteq Groups \X (Names \ {Host})
    BY <2>2 DEF Init
  <2> QED BY <2>1, <2>3, <2>4 DEF WorldTyped
<1>2. req \in [Requests -> Shapes] /\ \A r \in Requests : req[r] = Idle
  BY IdleShape DEF Init
<1>3. AsSent
  BY <1>2, IdleShape DEF AsSent, OnContainer
<1> QED BY <1>1, <1>2, <1>3 DEF Typed

LEMMA TypedNext == Typed /\ [Next]_vars => Typed'
<1> SUFFICES ASSUME Typed, [Next]_vars PROVE Typed'
  OBVIOUS
<1>0. WorldTyped /\ req \in [Requests -> Shapes]
  BY DEF Typed
<1>1. ASSUME NEW r \in Requests, Arrive(r) PROVE Typed'
  <2>1. PICK q \in Shapes : Fresh(q) /\ Start(r, q)
    BY <1>1, Arrivals
  <2>2. req' = [req EXCEPT ![r] = q] /\ UNCHANGED world
    BY <2>1 DEF Start
  <2> QED BY <1>0, <2>1, <2>2, WorldKept, TypedPut DEF Fresh
<1>2. ASSUME NEW r \in Requests, Step(r) PROVE Typed'
  <2>11. CASE Lookup(r)
    <3>1. UNCHANGED world
      BY <1>0, <2>11, LookupPuts
    <3>2. CASE Answer(r)
      BY <1>0, <3>1, <3>2, WorldKept, TypedAnswer
    <3>3. CASE ~Answer(r)
      <4>1. PICK q : Looked(req[r], q) /\ req' = [req EXCEPT ![r] = q]
        BY <2>11, <3>3, LookupPuts
      <4>2. q \in Shapes
        BY <4>1 DEF Looked, Shapes
      <4>3. q \in UpdateShape => q.want \subseteq Asked
        <5>1. q \in UpdateShape => q.op = "update"
          BY <4>2, Kinds
        <5>2. q \in UpdateShape => req[r] \in UpdateShape
          BY <1>0, <4>1, <5>1, Kinds DEF Looked
        <5> QED BY <4>1, <5>2 DEF Looked, Typed, AsSent
      <4> QED BY <1>0, <3>1, <4>1, <4>2, <4>3, WorldKept, TypedPut
    <3> QED BY <3>2, <3>3
  <2>1. CASE ConnectGuard(r)
    <3>1. UNCHANGED world
      BY <2>1 DEF ConnectGuard
    <3>2. CASE Answer(r)
      BY <1>0, <3>1, <3>2, WorldKept, TypedAnswer
    <3>3. CASE ~Answer(r)
      <4>1. PICK q \in ConnectShape : req' = [req EXCEPT ![r] = q]
        BY <2>1, <3>3, ConnectPuts
      <4>2. q \in Shapes /\ q \notin UpdateShape
        BY DEF Shapes, OnContainer, ConnectShape, UpdateShape
      <4> QED BY <1>0, <3>1, <4>1, <4>2, WorldKept, TypedPut
    <3> QED BY <3>2, <3>3
  <2>2. CASE ConnectDocker(r)
    <3>1. req[r] \in ConnectShape
      BY <2>2, ConnectPuts
    <3> DEFINE c == req[r].con
               S == IF req[r].op = "connect" THEN joined[c] \cup ({req[r].net} \cap nets) ELSE joined[c] \ {req[r].net}
    <3>2. c \in Containers /\ joined' = [joined EXCEPT ![c] = S]
      BY <2>2, <3>1 DEF ConnectDocker, ConnectShape
    <3>3. S \subseteq nets
      BY <1>0, <3>2 DEF WorldTyped
    <3>4. UNCHANGED <<nets, made, group, grants, pool>> /\ Answer(r)
      BY <2>2 DEF ConnectDocker
    <3> HIDE DEF c, S
    <3>5. WorldTyped'
      BY <1>0, <3>2, <3>3, <3>4, WorldJoined DEF WorldTyped
    <3> QED BY <3>4, <3>5, TypedAnswer
  <2>3. CASE UpdateResolve(r) \/ UpdateInspect(r)
    <3>1. UNCHANGED world
      BY <2>3 DEF UpdateResolve, UpdateInspect
    <3>2. CASE Answer(r)
      BY <1>0, <3>1, <3>2, WorldKept, TypedAnswer
    <3>3. CASE ~Answer(r)
      <4>1. PICK q : Edited(req[r], q) /\ req' = [req EXCEPT ![r] = q] /\ q.step \in {"inspect", "docker"}
        BY <2>3, <3>3, UpdateResolved, UpdateInspected
      <4>2. q \in Shapes
        BY <4>1 DEF Shapes, OnContainer, Edited
      <4> QED BY <1>0, <3>1, <4>1, <4>2, WorldKept, TypedPut
    <3> QED BY <3>2, <3>3
  <2>4. ASSUME NEW n \in Names, UpdateLeave(r, n) PROVE Typed'
    <3>1. PICK q : Edited(req[r], q) /\ req' = [req EXCEPT ![r] = q] /\ q.step = "docker"
      BY <2>4, UpdateLeft
    <3>2. q \in Shapes /\ req[r].con \in Containers
      BY <3>1 DEF Shapes, OnContainer, Edited, UpdateShape
    <3>3. joined' = [joined EXCEPT ![req[r].con] = joined[req[r].con] \ {n}]
      BY <2>4, UpdateLeft
    <3>4. UNCHANGED <<nets, made, group, grants, pool>>
      BY <2>4, UpdateLeft
    <3>5. joined[req[r].con] \ {n} \subseteq nets
      BY <1>0, <3>2 DEF WorldTyped
    <3>6. WorldTyped'
      BY <1>0, <3>2, <3>3, <3>4, <3>5, WorldJoined DEF WorldTyped
    <3> QED BY <3>1, <3>2, <3>6, TypedPut
  <2>5. ASSUME NEW n \in Names, UpdateJoin(r, n) PROVE Typed'
    <3>1. req[r] \in UpdateShape /\ req[r].con \in Containers
      BY <2>5, UpdateJoins DEF UpdateShape
    <3>2. joined' = [joined EXCEPT ![req[r].con] = joined[req[r].con] \cup ({n} \cap nets)]
      BY <2>5, UpdateJoins
    <3>3. UNCHANGED <<nets, made, group, grants, pool>>
      BY <2>5, UpdateJoins
    <3>4. joined[req[r].con] \cup ({n} \cap nets) \subseteq nets
      BY <1>0, <3>1 DEF WorldTyped
    <3>5. WorldTyped'
      BY <1>0, <3>1, <3>2, <3>3, <3>4, WorldJoined DEF WorldTyped
    <3>6. CASE Answer(r)
      BY <3>5, <3>6, TypedAnswer
    <3>7. CASE ~Answer(r)
      <4>1. PICK q : Edited(req[r], q) /\ req' = [req EXCEPT ![r] = q] /\ q.step = "docker"
        BY <2>5, <3>7, UpdateJoins
      <4>2. q \in Shapes
        BY <4>1 DEF Shapes, OnContainer, Edited
      <4> QED BY <3>5, <4>1, <4>2, TypedPut
    <3> QED BY <3>6, <3>7
  <2>6. CASE CreateValidate(r)
    <3>1. WorldTyped'
      BY <1>0, <2>6, CreateValidated, WorldKept
    <3>2. CASE Answer(r)
      BY <3>1, <3>2, TypedAnswer
    <3>3. CASE ~Answer(r)
      <4>1. PICK q \in CreateShape : req' = [req EXCEPT ![r] = q]
        BY <2>6, <3>3, CreateValidated
      <4>2. q \in Shapes /\ q \notin UpdateShape
        BY DEF Shapes, OnContainer, CreateShape, UpdateShape
      <4> QED BY <3>1, <4>1, <4>2, TypedPut
    <3> QED BY <3>2, <3>3
  <2>7. CASE CreateDocker(r)
    <3>1. req[r].con \in Containers /\ Answer(r) /\ UNCHANGED <<nets, group, grants, pool>>
      BY <2>7, CreateDone DEF CreateShape
    <3>2. CASE UNCHANGED <<made, joined>>
      BY <1>0, <3>1, <3>2, WorldKept, TypedAnswer DEF world
    <3>3. CASE /\ req[r].want \subseteq nets
               /\ made' = made \cup {req[r].con}
               /\ joined' = [joined EXCEPT ![req[r].con] = req[r].want]
      <4>1. made' \subseteq Containers
        BY <1>0, <3>1, <3>3 DEF WorldTyped
      <4>2. WorldTyped'
        BY <1>0, <3>1, <3>3, <4>1, WorldJoined
      <4> QED BY <3>1, <4>2, TypedAnswer
    <3> QED BY <2>7, <3>2, <3>3, CreateDone
  <2>8. CASE DeleteDocker(r)
    <3>1. CASE Answer(r) /\ UNCHANGED <<nets, removed, stale>>
      BY <1>0, <2>8, <3>1, DeleteDone, WorldKept, TypedAnswer DEF world
    <3>2. CASE ~(Answer(r) /\ UNCHANGED <<nets, removed, stale>>)
      <4>1. nets' = nets \ {req[r].net} /\ \A c \in Containers : req[r].net \notin joined[c]
        BY <2>8, <3>2, DeleteDone
      <4>2. UNCHANGED <<joined, made, group, grants, pool>>
        BY <2>8, DeleteDone
      <4>3. WorldTyped'
        BY <1>0, <4>1, <4>2 DEF WorldTyped
      <4>4. req' \in [Requests -> Shapes]
        BY <2>8, <3>2, DeleteDone
      <4>5. ASSUME NEW s \in Requests, req'[s] \in UpdateShape PROVE req'[s] = req[s]
        <5>1. req'[r] \notin UpdateShape
          BY <2>8, <3>2, DeleteDone DEF DeleteShape, UpdateShape
        <5>2. req'[s] \notin ShareShape
          BY <4>5 DEF ShareShape, UpdateShape
        <5> QED BY <2>8, <3>2, <4>5, <5>1, <5>2, DeleteDone
      <4>6. AsSent'
        BY <4>5 DEF AsSent, Typed
      <4> QED BY <4>3, <4>4, <4>6 DEF Typed
    <3> QED BY <3>1, <3>2
  <2>9. CASE DeleteGrants(r)
    <3>1. WorldTyped'
      BY <1>0, <2>9, GrantsDropped DEF WorldTyped
    <3> QED BY <2>9, <3>1, GrantsDropped, TypedAnswer
  <2>10. CASE ShareGrants(r)
    <3>1. req[r].groups \X {req[r].net} \subseteq Groups \X (Names \ {Host})
      BY <2>10, GrantsReplaced DEF ShareShape
    <3>2. grants' \subseteq Groups \X (Names \ {Host})
      BY <1>0, <2>10, <3>1, GrantsReplaced DEF WorldTyped
    <3>3. WorldTyped'
      BY <1>0, <2>10, <3>2, GrantsReplaced DEF WorldTyped
    <3> QED BY <2>10, <3>3, GrantsReplaced, TypedAnswer
  <2> QED BY <1>2, <2>1, <2>2, <2>3, <2>4, <2>5, <2>6, <2>7, <2>8, <2>9, <2>10, <2>11 DEF Step, Lookup
<1>3. ASSUME NEW n \in Names, CreateNetwork(n) PROVE Typed'
  BY <1>0, <1>3, TypedKept DEF CreateNetwork, WorldTyped
<1>4. CASE Edit
  <2>1. group' \in [Users \ Admins -> Groups] /\ pool' \subseteq Names
    BY <1>0, <1>4, NetworksAssumption DEF Edit, WorldTyped
  <2>2. WorldTyped' /\ UNCHANGED req
    BY <1>0, <1>4, <2>1 DEF Edit, WorldTyped
  <2> QED BY <2>2, TypedKept
<1>5. CASE UNCHANGED vars
  BY <1>0, <1>5, WorldKept, TypedKept DEF vars, world
<1> QED BY <1>1, <1>2, <1>3, <1>4, <1>5 DEF Next

\* Whatever users, networks, grants and requests there are, Docker's networks, the rows
\* of the store and the requests keep their types, and a container is attached to
\* networks that exist.
THEOREM TypeCorrect == Spec => []TypeOK
<1>1. Typed => TypeOK
  <2> SUFFICES ASSUME Typed PROVE TypeOK
    OBVIOUS
  <2>1. ASSUME NEW r \in Requests, Active(r)
        PROVE  req[r].op \in {"connect", "disconnect", "update", "create", "delete", "share"}
    BY <2>1, Kinds DEF Typed, Active
  <2> QED BY <2>1 DEF Typed, WorldTyped, TypeOK
<1> QED BY <1>1, TypedInit, TypedNext, PTL DEF Spec

-----------------------------------------------------------------------------
(* The grants of a deleted network.                                        *)

LEMMA GrantPut ==
  ASSUME GrantInv, Typed', NEW r \in Requests, NEW q \in Shapes, req' = [req EXCEPT ![r] = q],
         q \in DeleteShape \cup ShareShape => \A s \in Requests : ~Edits(s, q.net),
         q \in ShareShape => ~q.gone,
         \A p \in (grants \cap stale)' :
           p \in grants \cap stale /\ (req[r] \in DeleteShape => req[r].step = "docker" \/ req[r].net # p[2])
  PROVE  GrantInv'
<1>1. /\ req'[r] = q
      /\ \A s \in Requests \ {r} : req'[s] = req[s]
  BY Put DEF GrantInv, Typed
<1>2. OneEditor'
  <2> SUFFICES ASSUME NEW s \in Requests, NEW t \in Requests, NEW n \in Names, Edits(s, n)', Edits(t, n)', s # t
               PROVE  FALSE
    BY DEF OneEditor
  <2>1. ASSUME NEW x \in Requests, x # r, Edits(x, n)' PROVE Edits(x, n)
    BY <1>1, <2>1 DEF Edits, Active
  <2>2. Edits(r, n)' => q \in DeleteShape \cup ShareShape /\ q.net = n
    BY <1>1, Kinds DEF Edits, Active
  <2>3. CASE s # r /\ t # r
    BY <2>1, <2>3 DEF GrantInv, OneEditor
  <2>4. CASE s = r \/ t = r
    BY <2>1, <2>2, <2>4
  <2> QED BY <2>3, <2>4
<1>3. NoneGone'
  BY <1>1 DEF GrantInv, NoneGone
<1>4. ASSUME NEW p \in (grants \cap stale)' PROVE Dropping(p[2])'
  <2>1. PICK s \in Requests : req[s] \in DeleteShape /\ req[s].net = p[2] /\ req[s].step = "grants"
    BY <1>4 DEF GrantInv, StaleDropped, Dropping
  <2>2. s # r
    BY <1>4, <2>1
  <2> QED BY <1>1, <2>1, <2>2 DEF Dropping
<1>5. StaleDropped'
  BY <1>4 DEF StaleDropped
<1> QED BY <1>2, <1>3, <1>5 DEF GrantInv

LEMMA GrantAnswer ==
  ASSUME GrantInv, Typed', NEW r \in Requests, Answer(r),
         \A p \in (grants \cap stale)' :
           p \in grants \cap stale /\ (req[r] \in DeleteShape => req[r].step = "docker" \/ req[r].net # p[2])
  PROVE  GrantInv'
<1>1. Idle \in Shapes /\ Idle \notin DeleteShape \cup ShareShape
  BY IdleShape
<1> QED BY <1>1, GrantPut DEF Answer

LEMMA GrantKept ==
  ASSUME GrantInv, Typed', UNCHANGED <<req, grants, stale>>
  PROVE  GrantInv'
BY DEF GrantInv, OneEditor, NoneGone, StaleDropped, Dropping, Edits, Active

LEMMA GrantNext ==
  ASSUME ~Overlap
  PROVE  GrantInv /\ [Next]_vars => GrantInv'
<1> SUFFICES ASSUME GrantInv, [Next]_vars PROVE GrantInv'
  OBVIOUS
<1>0. Typed /\ Typed'
  BY TypedNext DEF GrantInv
<1>1. ASSUME NEW r \in Requests, Arrive(r) PROVE GrantInv'
  <2>1. PICK q \in Shapes : Fresh(q) /\ Alone(q) /\ Start(r, q)
    BY <1>0, <1>1, Arrivals
  <2>2. req' = [req EXCEPT ![r] = q] /\ UNCHANGED <<grants, stale>> /\ req[r] = Idle
    BY <2>1 DEF Start, world, Active
  <2>3. req[r] \notin DeleteShape
    BY <2>2, IdleShape
  <2>4. q \in DeleteShape \cup ShareShape => \A s \in Requests : ~Edits(s, q.net)
    BY <2>1 DEF Alone
  <2>5. q \in ShareShape => ~q.gone
    BY <2>1 DEF Fresh
  <2> QED BY <1>0, <2>2, <2>3, <2>4, <2>5, GrantPut
<1>2. ASSUME NEW r \in Requests, NEW q \in OnContainer, req[r] \in OnContainer,
             req' = [req EXCEPT ![r] = q], UNCHANGED <<grants, stale>>
      PROVE  GrantInv'
  <2>1. q \in Shapes /\ q \notin DeleteShape \cup ShareShape
    BY Kinds DEF Shapes, OnContainer
  <2>2. req[r] \notin DeleteShape
    BY <1>0, <1>2, Kinds DEF Typed, OnContainer
  <2> QED BY <1>0, <1>2, <2>1, <2>2, GrantPut
<1>3. ASSUME NEW r \in Requests, req[r] \in OnContainer, Answer(r), UNCHANGED <<grants, stale>>
      PROVE  GrantInv'
  <2>1. req[r] \notin DeleteShape
    BY <1>0, <1>3, Kinds DEF Typed, OnContainer
  <2> QED BY <1>0, <1>3, <2>1, GrantAnswer
<1>4. ASSUME NEW r \in Requests, Step(r) PROVE GrantInv'
  <2>9. CASE Lookup(r)
    <3>1. UNCHANGED <<grants, stale>>
      BY <1>0, <2>9, LookupPuts DEF world
    <3> QED BY <1>0, <1>2, <1>3, <2>9, <3>1, LookupPuts DEF Looked
  <2>1. CASE ConnectGuard(r) \/ ConnectDocker(r)
    <3>1. UNCHANGED <<grants, stale>>
      BY <2>1 DEF ConnectGuard, ConnectDocker, world
    <3> QED BY <1>0, <1>2, <1>3, <2>1, <3>1, ConnectPuts DEF OnContainer
  <2>2. CASE UpdateResolve(r) \/ UpdateInspect(r)
    <3>1. UNCHANGED <<grants, stale>>
      BY <2>2 DEF UpdateResolve, UpdateInspect, world
    <3>2. \/ Answer(r) /\ req[r] \in UpdateShape
          \/ \E q : Edited(req[r], q) /\ req' = [req EXCEPT ![r] = q]
      BY <1>0, <2>2, UpdateResolved, UpdateInspected
    <3> QED BY <1>2, <1>3, <3>1, <3>2 DEF Edited, OnContainer
  <2>3. ASSUME NEW n \in Names, UpdateLeave(r, n) \/ UpdateJoin(r, n) PROVE GrantInv'
    <3>1. UNCHANGED <<grants, stale>>
      BY <2>3 DEF UpdateLeave, UpdateJoin
    <3>2. \/ Answer(r) /\ req[r] \in UpdateShape
          \/ \E q : Edited(req[r], q) /\ req' = [req EXCEPT ![r] = q]
      BY <1>0, <2>3, UpdateLeft, UpdateJoins
    <3> QED BY <1>2, <1>3, <3>1, <3>2 DEF Edited, OnContainer
  <2>4. CASE CreateValidate(r)
    <3>1. UNCHANGED <<grants, stale>>
      BY <2>4 DEF CreateValidate, world
    <3> QED BY <1>0, <1>2, <1>3, <2>4, <3>1, CreateValidated DEF OnContainer
  <2>5. CASE CreateDocker(r)
    BY <1>0, <1>3, <2>5, CreateDone DEF OnContainer
  <2>6. CASE DeleteDocker(r)
    <3>1. req[r] \in DeleteShape /\ req[r].step = "docker" /\ UNCHANGED grants
      BY <1>0, <2>6, DeleteDone
    <3>2. CASE Answer(r) /\ UNCHANGED <<nets, removed, stale>>
      BY <1>0, <3>1, <3>2, GrantAnswer
    <3>3. CASE ~(Answer(r) /\ UNCHANGED <<nets, removed, stale>>)
      <4> DEFINE n == req[r].net
      <4>1. req'[r] \in DeleteShape /\ req'[r].net = n /\ req'[r].step = "grants"
        BY <1>0, <2>6, <3>3, DeleteDone
      <4>2. stale' = stale \cup {p \in grants : p[2] = n}
        BY <1>0, <2>6, <3>3, DeleteDone
      <4>3. n \in Names /\ Edits(r, n)
        BY <1>0, <3>1, Kinds DEF DeleteShape, Edits, Active, Typed
      <4>4. ASSUME NEW s \in Requests \ {r} PROVE req'[s] = req[s]
        <5>1. ~Edits(s, n)
          BY <4>3 DEF GrantInv, OneEditor
        <5> QED BY <1>0, <2>6, <3>3, <5>1, DeleteDone
      <4>5. ASSUME NEW s \in Requests, NEW m \in Names, Edits(s, m)' PROVE Edits(s, m)
        <5>1. CASE s = r
          BY <4>1, <4>3, <4>5, <5>1 DEF Edits, Active
        <5>2. CASE s # r
          BY <4>4, <4>5, <5>2 DEF Edits, Active
        <5> QED BY <5>1, <5>2
      <4>6. OneEditor'
        BY <4>5 DEF GrantInv, OneEditor
      <4>7. req'[r] \notin ShareShape
        BY <4>1 DEF DeleteShape, ShareShape
      <4>8. NoneGone'
        BY <4>4, <4>7 DEF GrantInv, NoneGone
      <4>9. ASSUME NEW p \in grants \cap stale' PROVE Dropping(p[2])'
        <5>1. CASE p[2] = n
          BY <4>1, <5>1 DEF Dropping
        <5>2. CASE p[2] # n
          <6>1. PICK s \in Requests : req[s] \in DeleteShape /\ req[s].net = p[2] /\ req[s].step = "grants"
            BY <4>2, <4>9, <5>2 DEF GrantInv, StaleDropped, Dropping
          <6>2. s # r
            BY <3>1, <6>1
          <6> QED BY <4>4, <6>1, <6>2 DEF Dropping
        <5> QED BY <5>1, <5>2
      <4> QED BY <1>0, <3>1, <4>6, <4>8, <4>9 DEF GrantInv, StaleDropped
    <3> QED BY <3>2, <3>3
  <2>7. CASE DeleteGrants(r)
    <3>1. Answer(r) /\ grants' = {p \in grants : p[2] # req[r].net} /\ UNCHANGED stale
      BY <1>0, <2>7, GrantsDropped
    <3> QED BY <1>0, <3>1, GrantAnswer
  <2>8. CASE ShareGrants(r)
    <3> DEFINE rows == req[r].groups \X {req[r].net}
    <3>1. req[r] \in ShareShape /\ Answer(r)
      BY <1>0, <2>8, GrantsReplaced
    <3>2. req[r] \notin DeleteShape /\ ~req[r].gone
      BY <3>1 DEF DeleteShape, ShareShape, GrantInv, NoneGone
    <3>3. grants' = {p \in grants : p[2] # req[r].net} \cup rows /\ stale' = stale \ rows
      BY <1>0, <2>8, <3>2, GrantsReplaced
    <3> HIDE DEF rows
    <3>4. \A p \in (grants \cap stale)' : p \in grants \cap stale
      BY <3>3
    <3> QED BY <1>0, <3>1, <3>2, <3>4, GrantAnswer
  <2> QED BY <1>4, <2>1, <2>2, <2>3, <2>4, <2>5, <2>6, <2>7, <2>8, <2>9 DEF Step, Lookup
<1>5. ASSUME NEW n \in Names, CreateNetwork(n) PROVE GrantInv'
  BY <1>0, <1>5, GrantKept DEF CreateNetwork
<1>6. CASE Edit
  BY <1>0, <1>6, GrantKept DEF Edit
<1>7. CASE UNCHANGED vars
  BY <1>0, <1>7, GrantKept DEF vars, world
<1> QED BY <1>1, <1>4, <1>5, <1>6, <1>7 DEF Next

\* As long as edits of one network do not overlap, a network that is created under the
\* name of a deleted one has none of its grants once the deletion is over: what
\* networkDelete leaves to DeleteNetworkGroups, nothing else brings back.
THEOREM GrantsNotInherited ==
  ASSUME ~Overlap
  PROVE  Spec => []NotInherited
<1>1. Init => GrantInv
  <2> SUFFICES ASSUME Init PROVE GrantInv
    OBVIOUS
  <2>1. Typed
    BY TypedInit
  <2>2. \A r \in Requests : req[r] = Idle
    BY DEF Init
  <2>3. OneEditor /\ NoneGone
    BY <2>2, IdleShape DEF OneEditor, NoneGone, Edits, Active
  <2>4. StaleDropped
    BY DEF Init, StaleDropped
  <2> QED BY <2>1, <2>3, <2>4 DEF GrantInv
<1>2. GrantInv => NotInherited
  <2> SUFFICES ASSUME GrantInv, NEW p \in grants \cap stale
               PROVE  \E r \in Requests : Edits(r, p[2]) /\ req[r].op = "delete"
    BY DEF NotInherited
  <2>1. PICK r \in Requests : req[r] \in DeleteShape /\ req[r].net = p[2]
    BY DEF GrantInv, StaleDropped, Dropping
  <2>2. Edits(r, p[2]) /\ req[r].op = "delete"
    BY <2>1, Kinds DEF Edits, Active, GrantInv, Typed
  <2> QED BY <2>2
<1> QED BY <1>1, <1>2, GrantNext, PTL DEF Spec

-----------------------------------------------------------------------------
(* What a container joins.                                                 *)

\* The history of a request about a container only grows while it runs, and takes in
\* what it is offered, what of that its user can use, and the networks an edited
\* container is on.
LEMMA Remembered ==
  ASSUME req' \in [Requests -> Shapes], Remember, NEW r \in Requests, req'[r] \in OnContainer
  PROVE  /\ offered[r] \subseteq offered'[r] /\ could[r] \subseteq could'[r]
         /\ Offers(req[r])' \subseteq offered'[r]
         /\ offered'[r] \cap Usable(req[r])' \subseteq could'[r]
         /\ req'[r].op = "update" => joined'[req'[r].con] \subseteq could'[r]
<1>1. ForContainer(req'[r])
  BY NamesContainer DEF ForContainer
<1>2. offered'[r] = offered[r] \cup Offers(req[r])'
  BY <1>1 DEF Remember
<1>3. could'[r] = could[r] \cup (offered'[r] \cap Usable(req[r])')
                         \cup IF req'[r].op = "update" THEN joined'[req'[r].con] ELSE {}
  BY <1>1 DEF Remember
<1> QED BY <1>2, <1>3

\* A promise is kept when the history grows.
LEMMA PromiseGrows ==
  ASSUME NEW q, NEW O, NEW P, NEW C, NEW D, Promise(q, O, C), O \subseteq P, C \subseteq D
  PROVE  Promise(q, P, D)
BY DEF Promise

LEMMA PromisesOfOthers ==
  ASSUME Typed, Promised, Typed', Remember, NEW s \in Requests, req'[s] = req[s]
  PROVE  Promise(req'[s], offered'[s], could'[s])
<1>1. req'[s] \in Shapes /\ Promise(req[s], offered[s], could[s])
  BY DEF Typed, Promised
<1>2. CASE req'[s] \in OnContainer
  <2>1. offered[s] \subseteq offered'[s] /\ could[s] \subseteq could'[s]
    BY <1>2, Remembered DEF Typed
  <2> QED BY <1>1, <2>1, PromiseGrows
<1>3. CASE req'[s] \notin OnContainer
  BY <1>3 DEF OnContainer, Promise
<1> QED BY <1>2, <1>3

LEMMA PromisePut ==
  ASSUME EntitledInv, Typed', Remember, NEW r \in Requests, NEW q \in Shapes, req' = [req EXCEPT ![r] = q],
         q \in OnContainer => Promise(q, offered'[r], could'[r])
  PROVE  EntitledInv'
<1>1. req'[r] = q /\ \A s \in Requests \ {r} : req'[s] = req[s]
  BY Put DEF EntitledInv, Typed
<1>2. Promise(q, offered'[r], could'[r])
  BY DEF OnContainer, Promise
<1>3. Promised'
  BY <1>1, <1>2, PromisesOfOthers DEF Promised, EntitledInv
<1> QED BY <1>3 DEF EntitledInv

LEMMA PromiseAnswer ==
  ASSUME EntitledInv, Typed', Remember, NEW r \in Requests, Answer(r)
  PROVE  EntitledInv'
<1>1. Idle \in Shapes /\ Idle \notin OnContainer
  BY IdleShape
<1> QED BY <1>1, PromisePut DEF Answer

\* What a request is offered and can use is decided by the world alone, which a lookup
\* does not change.
LEMMA SameOffer ==
  ASSUME NEW r \in Requests, NEW q, req'[r] = q, UNCHANGED world
  PROVE  Offers(req[r])' = Offers(q) /\ Usable(req[r])' = Usable(q)
BY DEF Offers, Usable, Entitled, Granted, Restricted, world

LEMMA EntitledNext == EntitledInv /\ [Next]_vars => EntitledInv'
<1> SUFFICES ASSUME EntitledInv, [Next]_vars PROVE EntitledInv'
  OBVIOUS
<1>0. Typed /\ Typed' /\ Promised
  BY TypedNext DEF EntitledInv
<1>1. ASSUME NEW r \in Requests, Arrive(r) PROVE EntitledInv'
  <2>1. PICK q \in Shapes : Fresh(q) /\ Start(r, q)
    BY <1>0, <1>1, Arrivals
  <2>2. req' = [req EXCEPT ![r] = q] /\ Remember
    BY <2>1 DEF Start
  <2>3. ASSUME q \in OnContainer PROVE Promise(q, offered'[r], could'[r])
    <3>1. CASE q \in ConnectShape
      <4>1. q \notin UpdateShape /\ q \notin CreateShape
        BY <3>1, Kinds
      <4>2. q.step \in {"preset", "guard"} /\ (q.op = "connect" => q.step = "preset")
        BY <2>1, <3>1 DEF Fresh
      <4> QED BY <4>1, <4>2 DEF Promise
    <3>2. CASE q \in UpdateShape
      <4>1. q \notin ConnectShape /\ q \notin CreateShape /\ q.step = "preset" /\ q.keep = {}
        BY <2>1, <3>2, Kinds DEF Fresh
      <4> QED BY <4>1 DEF Promise
    <3>3. CASE q \in CreateShape
      <4>1. q \notin ConnectShape /\ q \notin UpdateShape /\ q.step = "preset"
        BY <2>1, <3>3, Kinds DEF Fresh
      <4> QED BY <4>1 DEF Promise
    <3> QED BY <2>3, <3>1, <3>2, <3>3 DEF OnContainer
  <2> QED BY <1>0, <2>2, <2>3, PromisePut
\* A request about a container that goes on.
<1>2. ASSUME NEW r \in Requests, NEW q \in OnContainer, req' = [req EXCEPT ![r] = q], Remember,
             req[r] \in OnContainer
      PROVE  /\ req'[r] = q /\ q \in Shapes
             /\ Promise(req[r], offered'[r], could'[r])
             /\ Offers(req[r])' \subseteq offered'[r]
             /\ offered'[r] \cap Usable(req[r])' \subseteq could'[r]
             /\ q.op = "update" => joined'[q.con] \subseteq could'[r]
  <2>1. q \in Shapes
    BY DEF Shapes
  <2>2. req'[r] = q /\ req' \in [Requests -> Shapes]
    BY <1>0, <1>2, <2>1, Put DEF Typed
  <2>3. /\ offered[r] \subseteq offered'[r] /\ could[r] \subseteq could'[r]
        /\ Offers(req[r])' \subseteq offered'[r]
        /\ offered'[r] \cap Usable(req[r])' \subseteq could'[r]
        /\ req'[r].op = "update" => joined'[req'[r].con] \subseteq could'[r]
    BY <1>2, <2>2, Remembered
  <2>4. Promise(req[r], offered'[r], could'[r])
    BY <1>0, <2>3, PromiseGrows DEF Promised
  <2> QED BY <2>1, <2>2, <2>3, <2>4
<1>3. ASSUME NEW r \in Requests, Step(r) PROVE EntitledInv'
  <2>0. Remember
    BY <1>3 DEF Step, ReadPreset, ReadCurrent, ReadGrants, ReadList, ConnectGuard, ConnectDocker, UpdateResolve,
          UpdateInspect, UpdateLeave, UpdateJoin, CreateValidate, CreateDocker, DeleteDocker, DeleteGrants,
          ShareGrants, Quiet
  <2>1. CASE Answer(r)
    BY <1>0, <2>0, <2>1, PromiseAnswer
  <2>2. CASE ReadPreset(r)
    <3>1. PICK q : /\ Looked(req[r], q) /\ req' = [req EXCEPT ![r] = q]
                   /\ q.step \in {"current", "grants"} /\ q.allowed \subseteq Offers(q)
                   /\ q \in UpdateShape => q.keep = req[r].keep
      BY <1>0, <2>2, PresetRead
    <3>2. q \in OnContainer /\ req[r] \in OnContainer /\ UNCHANGED world /\ q.op = req[r].op
      BY <1>0, <2>2, <3>1, PresetRead DEF Looked
    <3>3. req'[r] = q /\ q \in Shapes /\ Promise(req[r], offered'[r], could'[r])
          /\ Offers(req[r])' \subseteq offered'[r]
      BY <1>2, <2>0, <3>1, <3>2
    <3>4. Offers(req[r])' = Offers(q)
      BY <3>2, <3>3, SameOffer
    <3>5. q \in UpdateShape => q.keep \subseteq could'[r]
      <4>1. q \in UpdateShape => req[r] \in UpdateShape
        BY <1>0, <3>2, <3>3, Kinds DEF Typed
      <4> QED BY <3>1, <3>3, <4>1 DEF Promise
    <3>6. Promise(q, offered'[r], could'[r])
      BY <3>1, <3>3, <3>4, <3>5 DEF Promise
    <3> QED BY <1>0, <2>0, <3>1, <3>3, <3>6, PromisePut
  <2>3. CASE ReadCurrent(r)
    <3>1. PICK q : /\ Looked(req[r], q) /\ req' = [req EXCEPT ![r] = q]
                   /\ q \in UpdateShape /\ q.step = "grants" /\ q.allowed = req[r].allowed
                   /\ q.keep \subseteq joined[q.con]
      BY <1>0, <2>3, CurrentRead
    <3>2. /\ q \in OnContainer /\ req[r] \in OnContainer /\ UNCHANGED joined /\ q.op = "update"
          /\ req[r].step = "current"
      BY <1>0, <2>3, <3>1, CurrentRead DEF Looked, UpdateShape, world
    <3>3. req'[r] = q /\ q \in Shapes /\ Promise(req[r], offered'[r], could'[r])
          /\ joined'[q.con] \subseteq could'[r]
      BY <1>2, <2>0, <3>1, <3>2
    <3>4. q.keep \subseteq could'[r] /\ q.allowed \subseteq offered'[r]
      BY <3>1, <3>2, <3>3 DEF Promise
    <3>5. q \notin ConnectShape /\ q \notin CreateShape
      BY <3>2 DEF ConnectShape, CreateShape
    <3>6. Promise(q, offered'[r], could'[r])
      BY <3>1, <3>4, <3>5 DEF Promise
    <3> QED BY <1>0, <2>0, <3>1, <3>3, <3>6, PromisePut
  <2>4. CASE ReadGrants(r)
    <3>1. PICK q : /\ Looked(req[r], q) /\ req' = [req EXCEPT ![r] = q]
                   /\ q.step = "list" /\ q.allowed = req[r].allowed
                   /\ q \in UpdateShape => q.keep = req[r].keep
                   /\ Lets(q.seen, q.user) \subseteq Usable(q)
      BY <1>0, <2>4, GrantsRead
    <3>2. /\ q \in OnContainer /\ req[r] \in OnContainer /\ UNCHANGED world /\ q.op = req[r].op
          /\ req[r].step = "grants"
      BY <1>0, <2>4, <3>1, GrantsRead DEF Looked
    <3>3. req'[r] = q /\ q \in Shapes /\ Promise(req[r], offered'[r], could'[r])
          /\ offered'[r] \cap Usable(req[r])' \subseteq could'[r]
      BY <1>2, <2>0, <3>1, <3>2
    <3>4. Usable(req[r])' = Usable(q)
      BY <3>2, <3>3, SameOffer
    <3>5. q.allowed \subseteq offered'[r]
      BY <3>1, <3>2, <3>3 DEF Promise
    <3>6. q.allowed \cap Lets(q.seen, q.user) \subseteq could'[r]
      BY <3>1, <3>3, <3>4, <3>5
    <3>7. q \in UpdateShape => q.keep \subseteq could'[r]
      <4>1. q \in UpdateShape => req[r] \in UpdateShape
        BY <1>0, <3>2, <3>3, Kinds DEF Typed
      <4> QED BY <3>1, <3>3, <4>1 DEF Promise
    <3>8. Promise(q, offered'[r], could'[r])
      BY <3>1, <3>5, <3>6, <3>7 DEF Promise
    <3> QED BY <1>0, <2>0, <3>1, <3>3, <3>8, PromisePut
  <2>5. CASE ReadList(r) /\ ~Answer(r)
    <3>1. PICK q : /\ Looked(req[r], q) /\ req' = [req EXCEPT ![r] = q]
                   /\ q.step \in {"guard", "resolve", "validate"}
                   /\ q.allowed \subseteq req[r].allowed \cap Lets(req[r].seen, req[r].user)
                   /\ q.op = "connect" => q.net \in q.allowed
                   /\ q \in UpdateShape => q.keep = req[r].keep
      BY <1>0, <2>5, ListRead
    <3>2. q \in OnContainer /\ req[r] \in OnContainer /\ req[r].step = "list" /\ q.op = req[r].op
      BY <1>0, <2>5, <3>1, ListRead DEF Looked
    <3>3. req'[r] = q /\ q \in Shapes /\ Promise(req[r], offered'[r], could'[r])
      BY <1>2, <2>0, <3>1, <3>2
    <3>4. q.allowed \subseteq could'[r]
      BY <3>1, <3>2, <3>3 DEF Promise
    <3>5. q \in UpdateShape => q.keep \subseteq could'[r]
      <4>1. q \in UpdateShape => req[r] \in UpdateShape
        BY <1>0, <3>2, <3>3, Kinds DEF Typed
      <4> QED BY <3>1, <3>3, <4>1 DEF Promise
    <3>6. Promise(q, offered'[r], could'[r])
      BY <3>1, <3>4, <3>5 DEF Promise
    <3> QED BY <1>0, <2>0, <3>1, <3>3, <3>6, PromisePut
  <2>6. CASE ConnectGuard(r) /\ ~Answer(r)
    <3>1. PICK q \in ConnectShape :
            /\ req' = [req EXCEPT ![r] = q]
            /\ q.op = req[r].op /\ q.net = req[r].net /\ req[r].step = "guard" /\ q.step = "docker"
      BY <1>0, <2>6, ConnectPuts
    <3>2. req[r] \in ConnectShape
      BY <1>0, <2>6, ConnectPuts
    <3>3. req'[r] = q /\ Promise(req[r], offered'[r], could'[r]) /\ q \in Shapes
      BY <1>2, <2>0, <3>1, <3>2 DEF OnContainer
    <3>4. Promise(q, offered'[r], could'[r])
      BY <3>1, <3>2, <3>3, Kinds DEF Promise
    <3> QED BY <1>0, <2>0, <3>1, <3>3, <3>4, PromisePut
  <2>7. CASE UpdateResolve(r) /\ ~Answer(r)
    <3>1. PICK q : /\ Edited(req[r], q) /\ req' = [req EXCEPT ![r] = q] /\ q.step = "inspect"
                   /\ q.want \subseteq req[r].allowed \cup req[r].keep
      BY <1>0, <2>7, UpdateResolved
    <3>2. q \in UpdateShape /\ req[r] \in UpdateShape /\ q.keep = req[r].keep /\ req[r].step = "resolve"
      BY <1>0, <2>7, <3>1, UpdateResolved DEF Edited
    <3>3. req'[r] = q /\ Promise(req[r], offered'[r], could'[r]) /\ q \in Shapes
      BY <1>2, <2>0, <3>1, <3>2 DEF OnContainer
    <3>4. q.keep \subseteq could'[r] /\ q.want \subseteq could'[r]
      BY <3>1, <3>2, <3>3 DEF Promise, OnContainer
    <3>5. Promise(q, offered'[r], could'[r])
      BY <3>1, <3>2, <3>3, <3>4, Kinds DEF Promise
    <3> QED BY <1>0, <2>0, <3>1, <3>3, <3>5, PromisePut
  <2>8. CASE UpdateInspect(r)
    <3>1. PICK q : /\ Edited(req[r], q) /\ req' = [req EXCEPT ![r] = q] /\ q.step = "docker"
                   /\ q.want = req[r].want /\ q.join = q.want
      BY <1>0, <2>8, UpdateInspected
    <3>2. q \in UpdateShape /\ req[r] \in UpdateShape /\ q.keep = req[r].keep /\ req[r].step = "inspect"
      BY <1>0, <2>8, <3>1, UpdateInspected DEF Edited
    <3>3. req'[r] = q /\ Promise(req[r], offered'[r], could'[r]) /\ q \in Shapes
      BY <1>2, <2>0, <3>1, <3>2 DEF OnContainer
    <3>4. Promise(q, offered'[r], could'[r])
      BY <3>1, <3>2, <3>3, Kinds DEF Promise
    <3> QED BY <1>0, <2>0, <3>1, <3>3, <3>4, PromisePut
  <2>9. ASSUME NEW n \in Names, UpdateLeave(r, n) \/ UpdateJoin(r, n), ~Answer(r) PROVE EntitledInv'
    <3>1. PICK q : /\ Edited(req[r], q) /\ req' = [req EXCEPT ![r] = q] /\ q.step = "docker"
                   /\ q.want = req[r].want /\ q.join \subseteq req[r].join
      BY <1>0, <2>9, UpdateLeft, UpdateJoins
    <3>2. q \in UpdateShape /\ req[r] \in UpdateShape /\ q.keep = req[r].keep /\ req[r].step = "docker"
      BY <1>0, <2>9, <3>1, UpdateLeft, UpdateJoins DEF Edited
    <3>3. req'[r] = q /\ Promise(req[r], offered'[r], could'[r]) /\ q \in Shapes
      BY <1>2, <2>0, <3>1, <3>2 DEF OnContainer
    <3>4. Promise(q, offered'[r], could'[r])
      BY <3>1, <3>2, <3>3, Kinds DEF Promise
    <3> QED BY <1>0, <2>0, <3>1, <3>3, <3>4, PromisePut
  <2>10. CASE CreateValidate(r) /\ ~Answer(r)
    <3>1. PICK q \in CreateShape :
            /\ req' = [req EXCEPT ![r] = q] /\ q.step = "docker"
            /\ q.user = req[r].user /\ q.allowed = req[r].allowed
            /\ \A n \in q.want : n \in nets /\ (n \in q.allowed \/ (n \in Managed /\ n[1] = q.user))
      BY <1>0, <2>10, CreateValidated
    <3>2. req[r] \in CreateShape /\ UNCHANGED world /\ req[r].step = "validate"
      BY <1>0, <2>10, CreateValidated
    <3>3. /\ req'[r] = q /\ q \in Shapes /\ Promise(req[r], offered'[r], could'[r])
          /\ Offers(req[r])' \subseteq offered'[r]
          /\ offered'[r] \cap Usable(req[r])' \subseteq could'[r]
      BY <1>2, <2>0, <3>1, <3>2 DEF OnContainer
    <3>4. Offers(req[r])' = Offers(q) /\ Usable(req[r])' = Usable(q)
      BY <3>2, <3>3, SameOffer
    <3>5. q.allowed \subseteq could'[r]
      BY <3>1, <3>2, <3>3 DEF Promise, OnContainer
    <3>6. ASSUME NEW n \in Managed, n[1] = q.user PROVE n \in could'[r]
      <4>1. n # Host /\ n \in Names
        BY NetworksAssumption DEF System, Names
      <4>2. q.op = "create"
        BY DEF CreateShape
      <4>3. n \in Offers(q) /\ n \in Usable(q)
        BY <3>6, <4>1, <4>2 DEF Offers, Usable, Entitled
      <4> QED BY <3>3, <3>4, <4>3
    <3>7. q.want \subseteq could'[r]
      BY <3>1, <3>5, <3>6
    <3>8. Promise(q, offered'[r], could'[r])
      BY <3>1, <3>7, <3>3, Kinds DEF Promise
    <3> QED BY <1>0, <2>0, <3>1, <3>3, <3>8, PromisePut
  <2>11. CASE DeleteDocker(r) /\ ~Answer(r)
    <3>1. ASSUME NEW s \in Requests PROVE Promise(req'[s], offered'[s], could'[s])
      <4>1. CASE req'[s] = req[s]
        BY <1>0, <2>0, <4>1, PromisesOfOthers
      <4>2. CASE req'[s] \in DeleteShape \cup ShareShape
        <5>1. req'[s] \notin OnContainer
          BY <4>2, Kinds DEF DeleteShape, ShareShape, OnContainer, ConnectShape, UpdateShape, CreateShape
        <5> QED BY <5>1 DEF Promise, OnContainer
      <4> QED BY <1>0, <2>11, <4>1, <4>2, DeleteDone
    <3> QED BY <1>0, <3>1 DEF EntitledInv, Promised
  <2>12. CASE ConnectDocker(r) \/ CreateDocker(r) \/ DeleteGrants(r) \/ ShareGrants(r)
    BY <1>0, <2>1, <2>12, CreateDone, GrantsDropped, GrantsReplaced DEF ConnectDocker
  <2> QED
    BY <1>3, <2>1, <2>2, <2>3, <2>4, <2>5, <2>6, <2>7, <2>8, <2>9, <2>10, <2>11, <2>12 DEF Step
<1>4. ASSUME UNCHANGED req, Remember PROVE EntitledInv'
  <2>1. Promised'
    BY <1>0, <1>4, PromisesOfOthers DEF Promised
  <2> QED BY <1>0, <2>1 DEF EntitledInv
<1>5. ASSUME NEW n \in Names, CreateNetwork(n) PROVE EntitledInv'
  BY <1>4, <1>5 DEF CreateNetwork
<1>6. CASE Edit
  BY <1>4, <1>6 DEF Edit
<1>7. CASE UNCHANGED vars
  BY <1>0, <1>7 DEF vars, EntitledInv, Promised
<1> QED BY <1>1, <1>3, <1>5, <1>6, <1>7 DEF Next

\* However grants, memberships, presets and networks change between the lookups of a
\* request, whichever of them fail and however many requests overlap, networkConnect,
\* containerUpdate and CreateContainer attach a container only to networks that its
\* user was entitled to at an instant of the request, at or after one at which the
\* image's preset offered them, or that the edited container was on.
THEOREM ContainersJoinEntitled == Spec => JoinedEntitled
<1> DEFINE Entered == \A c \in Containers : \A n \in joined'[c] \ joined[c] :
                        \E r \in Requests : About(r, c) /\ n \in could[r]
<1>1. Init => EntitledInv
  <2> SUFFICES ASSUME Init PROVE EntitledInv
    OBVIOUS
  <2>1. \A r \in Requests : req[r] = Idle
    BY DEF Init
  <2> QED BY <2>1, TypedInit, IdleShape DEF EntitledInv, Promised, Promise, OnContainer
<1>2. EntitledInv /\ [Next]_vars => [Entered]_vars
  <2> SUFFICES ASSUME EntitledInv, [Next]_vars, NEW c \in Containers, NEW n \in joined'[c] \ joined[c]
               PROVE  \E r \in Requests : About(r, c) /\ n \in could[r]
    OBVIOUS
  <2>0. Typed /\ Promised /\ joined \in [Containers -> SUBSET Names]
    BY DEF EntitledInv, Typed, WorldTyped
  <2>1. joined' # joined
    OBVIOUS
  <2>2. PICK r \in Requests : \/ ConnectDocker(r) \/ CreateDocker(r)
                              \/ \E m \in Names : UpdateLeave(r, m) \/ UpdateJoin(r, m)
    <3>1. ASSUME NEW r \in Requests, Arrive(r) PROVE UNCHANGED joined
      <4>1. PICK q \in Shapes : Start(r, q)
        BY <2>0, <3>1, Arrivals
      <4> QED BY <4>1 DEF Start, world
    <3>2. ~UNCHANGED vars /\ ~Edit /\ \A m \in Names : ~CreateNetwork(m)
      BY <2>1 DEF vars, world, Edit, CreateNetwork
    <3>3. PICK r \in Requests : Step(r)
      BY <2>1, <3>1, <3>2 DEF Next
    <3>4. ~Lookup(r)
      BY <2>0, <2>1, LookupPuts DEF world
    <3> QED BY <2>1, <3>3, <3>4 DEF Step, Lookup, ConnectGuard, UpdateResolve, UpdateInspect, CreateValidate,
                                   DeleteDocker, DeleteGrants, ShareGrants, world
  <2>3. req[r] \in Shapes /\ Promise(req[r], offered[r], could[r])
    BY <2>0 DEF Typed, Promised
  <2>4. CASE ConnectDocker(r)
    <3>1. req[r] \in ConnectShape /\ req[r].step = "docker"
      BY <2>0, <2>4, ConnectPuts DEF ConnectDocker, At
    <3>2. joined' = [joined EXCEPT ![req[r].con] =
                      IF req[r].op = "connect" THEN @ \cup ({req[r].net} \cap nets) ELSE @ \ {req[r].net}]
      BY <2>4 DEF ConnectDocker
    <3>3. c = req[r].con /\ req[r].op = "connect" /\ n = req[r].net
      BY <2>0, <3>2
    <3>4. n \in could[r]
      BY <2>3, <3>1, <3>3 DEF Promise
    <3> QED BY <2>3, <3>1, <3>3, <3>4, NamesContainer DEF About, ForContainer, OnContainer
  <2>5. CASE CreateDocker(r)
    <3>1. req[r] \in CreateShape /\ req[r].step = "docker"
      BY <2>0, <2>5, CreateDone
    <3>2. joined' = [joined EXCEPT ![req[r].con] = req[r].want]
      BY <2>0, <2>1, <2>5, CreateDone
    <3>3. c = req[r].con /\ n \in req[r].want
      BY <2>0, <3>2
    <3>4. n \in could[r]
      BY <2>3, <3>1, <3>3 DEF Promise
    <3> QED BY <2>3, <3>1, <3>3, <3>4, NamesContainer DEF About, ForContainer, OnContainer
  <2>6. ASSUME NEW m \in Names, UpdateLeave(r, m) PROVE FALSE
    BY <2>0, <2>6, UpdateLeft
  <2>7. ASSUME NEW m \in Names, UpdateJoin(r, m)
        PROVE  \E s \in Requests : About(s, c) /\ n \in could[s]
    <3>1. req[r] \in UpdateShape /\ req[r].step = "docker" /\ m \in req[r].join
      BY <2>0, <2>7, UpdateJoins
    <3>2. joined' = [joined EXCEPT ![req[r].con] = @ \cup ({m} \cap nets)]
      BY <2>0, <2>7, UpdateJoins
    <3>3. c = req[r].con /\ n = m
      BY <2>0, <3>2
    <3>4. n \in could[r]
      BY <2>3, <3>1, <3>3 DEF Promise
    <3> QED BY <2>3, <3>1, <3>3, <3>4, NamesContainer DEF About, ForContainer, OnContainer
  <2> QED BY <2>2, <2>4, <2>5, <2>6, <2>7
<1>3. EntitledInv /\ [Next]_vars => EntitledInv'
  BY EntitledNext
<1> QED BY <1>1, <1>2, <1>3, PTL DEF Spec, JoinedEntitled

-----------------------------------------------------------------------------
(* Edits of a container's networks.                                        *)

\* Which requests are about a container.
LEMMA AboutShape ==
  ASSUME Typed, NEW r \in Requests, NEW c
  PROVE  About(r, c) <=> req[r] \in OnContainer /\ req[r].con = c
BY NamesContainer DEF About, ForContainer, Typed

\* A request goes on or answers: the others are left to themselves.
LEMMA EditPut ==
  ASSUME EditInv, Typed', NEW r \in Requests, NEW q \in Shapes, req' = [req EXCEPT ![r] = q],
         q \in OnContainer => \A s \in Requests \ {r} : ~About(s, q.con),
         PutBack(q)',
         \A s \in Requests \ {r} : req[s] \in UpdateShape => joined[req[s].con] \subseteq joined'[req[s].con],
         removed \subseteq removed', nets \cup removed \subseteq (nets \cup removed)'
  PROVE  EditInv'
<1>1. req'[r] = q /\ \A s \in Requests \ {r} : req'[s] = req[s]
  BY Put DEF EditInv, Typed
<1>2. OneAbout'
  <2> SUFFICES ASSUME NEW s \in Requests, NEW t \in Requests, NEW c \in Containers,
                      About(s, c)', About(t, c)', s # t
               PROVE  FALSE
    BY DEF OneAbout
  <2>1. ASSUME NEW x \in Requests \ {r}, About(x, c)' PROVE About(x, c)
    BY <1>1, <2>1 DEF About, ForContainer
  <2>2. About(r, c)' => q \in OnContainer /\ q.con = c
    BY <1>1, NamesContainer DEF About, ForContainer
  <2>3. CASE s # r /\ t # r
    BY <2>1, <2>3 DEF EditInv, OneAbout
  <2>4. CASE s = r \/ t = r
    BY <2>1, <2>2, <2>4
  <2> QED BY <2>3, <2>4
<1>3. ASSUME NEW s \in Requests PROVE PutBack(req[s])'
  <2>1. CASE s = r
    BY <1>1, <2>1 DEF PutBack
  <2>2. CASE s # r
    <3> DEFINE p == req[s]
    <3>1. req'[s] = p /\ PutBack(p) /\ (p \in UpdateShape => joined[p.con] \subseteq joined'[p.con])
      BY <1>1, <2>2 DEF EditInv, AllPutBack
    <3>2. removed \subseteq removed' /\ nets \cup removed \subseteq (nets \cup removed)'
      OBVIOUS
    <3> QED BY <3>1, <3>2 DEF PutBack
  <2> QED BY <2>1, <2>2
<1>4. AllPutBack'
  BY <1>3 DEF AllPutBack
<1> QED BY <1>2, <1>4 DEF EditInv

LEMMA EditAnswer ==
  ASSUME EditInv, Typed', NEW r \in Requests, Answer(r),
         \A s \in Requests \ {r} : req[s] \in UpdateShape => joined[req[s].con] \subseteq joined'[req[s].con],
         removed \subseteq removed', nets \cup removed \subseteq (nets \cup removed)'
  PROVE  EditInv'
<1>1. Idle \in Shapes /\ Idle \notin OnContainer /\ Idle \notin UpdateShape
  BY IdleShape DEF OnContainer
<1>2. PutBack(Idle)'
  BY <1>1 DEF PutBack
<1> QED BY <1>1, <1>2, EditPut DEF Answer

\* The container of a request is nobody else's.
LEMMA OthersElsewhere ==
  ASSUME EditInv, NEW r \in Requests, req[r] \in OnContainer, NEW s \in Requests \ {r}
  PROVE  /\ ~About(s, req[r].con)
         /\ req[s] \in OnContainer => req[s].con # req[r].con
<1>1. req[r].con \in Containers
  BY DEF OnContainer, ConnectShape, UpdateShape, CreateShape
<1>2. About(r, req[r].con)
  BY AboutShape DEF EditInv
<1>3. ~About(s, req[r].con)
  BY <1>1, <1>2 DEF EditInv, OneAbout
<1> QED BY <1>3, AboutShape DEF EditInv

LEMMA EditNext ==
  ASSUME ~Overlap
  PROVE  EditInv /\ [Next]_vars => EditInv'
<1> SUFFICES ASSUME EditInv, [Next]_vars PROVE EditInv'
  OBVIOUS
<1>0. Typed /\ Typed' /\ joined \in [Containers -> SUBSET Names]
  BY TypedNext DEF EditInv, Typed, WorldTyped
<1>1. ASSUME NEW r \in Requests, Arrive(r) PROVE EditInv'
  <2>1. PICK q \in Shapes : Fresh(q) /\ Alone(q) /\ Start(r, q)
    BY <1>0, <1>1, Arrivals
  <2>2. req' = [req EXCEPT ![r] = q] /\ UNCHANGED <<nets, joined, removed>>
    BY <2>1 DEF Start, world
  <2>3. q \in OnContainer => \A s \in Requests \ {r} : ~About(s, q.con)
    BY <2>1 DEF Alone
  <2>4. ASSUME q \in UpdateShape PROVE q.keep = {} /\ q.step = "preset"
    BY <2>1, <2>4 DEF Fresh
  <2>5. PutBack(q)'
    BY <2>2, <2>4 DEF PutBack
  <2> QED BY <1>0, <2>2, <2>3, <2>5, EditPut
\* A request about a container goes on, or answers, and touches at most that container.
<1>2. ASSUME NEW r \in Requests, req[r] \in OnContainer, NEW q \in OnContainer, q.con = req[r].con,
             req' = [req EXCEPT ![r] = q], PutBack(q)', UNCHANGED <<nets, removed>>,
             \A c \in Containers \ {req[r].con} : joined'[c] = joined[c]
      PROVE  EditInv'
  <2>1. \A s \in Requests \ {r} : ~About(s, q.con)
    BY <1>2, OthersElsewhere
  <2>2. \A s \in Requests \ {r} : req[s] \in UpdateShape => joined[req[s].con] \subseteq joined'[req[s].con]
    BY <1>2, OthersElsewhere DEF OnContainer, UpdateShape
  <2>3. q \in Shapes
    BY DEF Shapes
  <2> QED BY <1>0, <1>2, <2>1, <2>2, <2>3, EditPut
<1>3. ASSUME NEW r \in Requests, req[r] \in OnContainer, Answer(r), UNCHANGED <<nets, removed>>,
             \A c \in Containers \ {req[r].con} : joined'[c] = joined[c]
      PROVE  EditInv'
  <2>1. \A s \in Requests \ {r} : req[s] \in UpdateShape => joined[req[s].con] \subseteq joined'[req[s].con]
    BY <1>3, OthersElsewhere DEF OnContainer, UpdateShape
  <2> QED BY <1>0, <1>3, <2>1, EditAnswer
<1>4. ASSUME NEW r \in Requests, Step(r) PROVE EditInv'
  <2>9. CASE Lookup(r)
    <3>1. req[r] \in OnContainer /\ UNCHANGED <<nets, removed, joined>>
      BY <1>0, <2>9, LookupPuts DEF world
    <3>2. CASE Answer(r)
      BY <1>3, <3>1, <3>2
    <3>3. CASE ~Answer(r)
      <4>1. PICK q : Looked(req[r], q) /\ req' = [req EXCEPT ![r] = q]
        BY <1>0, <2>9, <3>3, LookupPuts
      <4>2. /\ q \in OnContainer /\ q.con = req[r].con /\ q.step # "docker"
            /\ q \in UpdateShape => q.keep = req[r].keep \/ q.keep \subseteq joined[q.con]
        BY <4>1 DEF Looked
      <4>3. q \in UpdateShape => q.keep \subseteq nets \cup removed
        <5>1. q \in UpdateShape => req[r] \in UpdateShape /\ q.con \in Containers
          BY <1>0, <4>1, <4>2, Kinds DEF Looked, Typed, Shapes, UpdateShape
        <5>2. PutBack(req[r])
          BY DEF EditInv, AllPutBack
        <5> QED BY <1>0, <4>2, <5>1, <5>2 DEF PutBack, Typed, WorldTyped
      <4>4. PutBack(q)'
        BY <3>1, <4>2, <4>3 DEF PutBack
      <4> QED BY <1>2, <3>1, <4>1, <4>2, <4>4
    <3> QED BY <3>2, <3>3
  <2>1. CASE ConnectGuard(r) \/ ConnectDocker(r)
    <3>1. req[r] \in ConnectShape
      BY <1>0, <2>1, ConnectPuts
    <3>2. UNCHANGED <<nets, removed>> /\ \A c \in Containers \ {req[r].con} : joined'[c] = joined[c]
      BY <1>0, <2>1 DEF ConnectGuard, ConnectDocker, world
    <3>3. CASE Answer(r)
      BY <1>3, <3>1, <3>2, <3>3 DEF OnContainer
    <3>4. CASE ~Answer(r)
      <4>1. PICK q \in ConnectShape : req' = [req EXCEPT ![r] = q] /\ q.con = req[r].con
        BY <1>0, <2>1, <3>4, ConnectPuts
      <4>2. q \in OnContainer /\ q \notin UpdateShape
        BY DEF OnContainer, ConnectShape, UpdateShape
      <4>3. PutBack(q)'
        BY <4>2 DEF PutBack
      <4> QED BY <1>2, <3>1, <3>2, <4>1, <4>2, <4>3 DEF OnContainer
    <3> QED BY <3>3, <3>4
  <2>2. CASE UpdateResolve(r) \/ UpdateInspect(r)
    <3>1. req[r] \in UpdateShape
      BY <1>0, <2>2, UpdateResolved, UpdateInspected
    <3>2. UNCHANGED <<nets, removed, joined>>
      BY <2>2 DEF UpdateResolve, UpdateInspect, world
    <3>3. CASE Answer(r)
      BY <1>3, <3>1, <3>2, <3>3 DEF OnContainer
    <3>4. CASE ~Answer(r)
      <4>1. PICK q : /\ Edited(req[r], q) /\ req' = [req EXCEPT ![r] = q]
                     /\ q.step = "docker" => q.join = q.want
        BY <1>0, <2>2, <3>4, UpdateResolved, UpdateInspected
      <4>2. q \in UpdateShape /\ q.con = req[r].con /\ q.keep = req[r].keep
        BY <4>1 DEF Edited
      <4>3. q.keep \subseteq nets \cup removed
        BY <3>1, <4>2 DEF EditInv, AllPutBack, PutBack
      <4>4. PutBack(q)'
        BY <3>2, <4>1, <4>3 DEF PutBack
      <4> QED BY <1>2, <3>1, <3>2, <4>1, <4>2, <4>4 DEF OnContainer
    <3> QED BY <3>3, <3>4
  <2>3. ASSUME NEW n \in Names, UpdateLeave(r, n) PROVE EditInv'
    <3>1. PICK q : /\ Edited(req[r], q) /\ req' = [req EXCEPT ![r] = q] /\ q.step = "docker"
                   /\ q.want = req[r].want /\ q.join = req[r].join
      BY <1>0, <2>3, UpdateLeft
    <3>2. q \in UpdateShape /\ req[r] \in UpdateShape /\ q.con = req[r].con /\ q.keep = req[r].keep
      BY <3>1 DEF Edited
    <3>3. req[r].step = "docker" /\ req[r].leave # {}
      BY <1>0, <2>3, UpdateLeft
    <3>4. PutBack(req[r])
      BY DEF EditInv, AllPutBack
    <3>5. q.join = q.want /\ q.keep \subseteq nets \cup removed
      BY <3>1, <3>2, <3>3, <3>4 DEF PutBack
    <3>6. UNCHANGED <<nets, removed>> /\ \A c \in Containers \ {req[r].con} : joined'[c] = joined[c]
      BY <1>0, <2>3, UpdateLeft
    <3>7. PutBack(q)'
      BY <3>5, <3>6 DEF PutBack
    <3> QED BY <1>2, <3>1, <3>2, <3>6, <3>7 DEF OnContainer
  <2>4. ASSUME NEW n \in Names, UpdateJoin(r, n) PROVE EditInv'
    <3>1. req[r] \in UpdateShape /\ req[r].step = "docker"
      BY <1>0, <2>4, UpdateJoins
    <3>2. joined' = [joined EXCEPT ![req[r].con] = @ \cup ({n} \cap nets)] /\ UNCHANGED <<nets, removed>>
      BY <1>0, <2>4, UpdateJoins
    <3>3. \A c \in Containers \ {req[r].con} : joined'[c] = joined[c]
      BY <1>0, <3>2
    <3>4. CASE Answer(r)
      BY <1>3, <3>1, <3>2, <3>3, <3>4 DEF OnContainer
    <3>5. CASE ~Answer(r)
      <4>1. PICK q : /\ Edited(req[r], q) /\ req' = [req EXCEPT ![r] = q] /\ q.step = "docker"
                     /\ q.want = req[r].want /\ q.leave = {} /\ q.join = req[r].join \ {n}
        BY <1>0, <2>4, <3>5, UpdateJoins
      <4>2. q \in UpdateShape /\ q.con = req[r].con /\ q.keep = req[r].keep /\ q.con \in Containers
        BY <4>1 DEF Edited, UpdateShape
      <4>3. PutBack(req[r])
        BY DEF EditInv, AllPutBack
      <4>4. /\ q.keep \subseteq nets \cup removed
            /\ ((q.want \ req[r].join) \cap q.keep) \ removed \subseteq joined[q.con]
        BY <3>1, <4>1, <4>2, <4>3 DEF PutBack
      <4>5. joined'[q.con] = joined[q.con] \cup ({n} \cap nets)
        BY <1>0, <3>2, <4>2
      <4>6. ((q.want \ q.join) \cap q.keep) \ removed \subseteq joined'[q.con]
        BY <4>1, <4>4, <4>5
      <4>7. PutBack(q)'
        BY <3>2, <4>1, <4>4, <4>6 DEF PutBack
      <4> QED BY <1>2, <3>1, <3>2, <3>3, <4>1, <4>2, <4>7 DEF OnContainer
    <3> QED BY <3>4, <3>5
  <2>5. CASE CreateValidate(r)
    <3>1. req[r] \in CreateShape /\ UNCHANGED <<nets, removed, joined>>
      BY <1>0, <2>5, CreateValidated DEF world
    <3>2. CASE Answer(r)
      BY <1>3, <3>1, <3>2 DEF OnContainer
    <3>3. CASE ~Answer(r)
      <4>1. PICK q \in CreateShape : req' = [req EXCEPT ![r] = q] /\ q.con = req[r].con
        BY <1>0, <2>5, <3>3, CreateValidated
      <4>2. q \in OnContainer /\ q \notin UpdateShape
        BY DEF OnContainer, CreateShape, UpdateShape
      <4>3. PutBack(q)'
        BY <4>2 DEF PutBack
      <4> QED BY <1>2, <3>1, <4>1, <4>2, <4>3 DEF OnContainer
    <3> QED BY <3>2, <3>3
  <2>6. CASE CreateDocker(r)
    <3>1. req[r] \in CreateShape /\ Answer(r) /\ UNCHANGED <<nets, removed>>
      BY <1>0, <2>6, CreateDone
    <3>2. \A c \in Containers \ {req[r].con} : joined'[c] = joined[c]
      BY <1>0, <2>6, CreateDone
    <3> QED BY <1>3, <3>1, <3>2 DEF OnContainer
  <2>7. CASE DeleteDocker(r)
    <3>1. UNCHANGED joined /\ removed \subseteq removed' /\ nets \cup removed \subseteq (nets \cup removed)'
      BY <1>0, <2>7, DeleteDone
    <3>2. CASE Answer(r)
      BY <1>0, <3>1, <3>2, EditAnswer
    <3>3. CASE ~Answer(r)
      <4>1. ASSUME NEW s \in Requests
            PROVE  req'[s] = req[s] \/ (req'[s] \in DeleteShape \cup ShareShape /\ req'[s] # Idle)
        BY <1>0, <2>7, <3>3, DeleteDone, IdleShape
      <4>2. ASSUME NEW s \in Requests, NEW c \in Containers, About(s, c)' PROVE About(s, c)
        <5>1. req'[s] \in OnContainer
          BY <1>0, <4>2, NamesContainer DEF About, ForContainer, Typed
        <5>2. req'[s] \notin DeleteShape \cup ShareShape
          BY <5>1 DEF OnContainer, ConnectShape, UpdateShape, CreateShape, DeleteShape, ShareShape
        <5> QED BY <4>1, <4>2, <5>2 DEF About, ForContainer
      <4>3. OneAbout'
        BY <4>2 DEF EditInv, OneAbout
      <4>4. ASSUME NEW s \in Requests PROVE PutBack(req[s])'
        <5>1. CASE req'[s] = req[s]
          <6> DEFINE p == req[s]
          <6>1. req'[s] = p /\ PutBack(p)
            BY <5>1 DEF EditInv, AllPutBack
          <6> QED BY <3>1, <6>1 DEF PutBack
        <5>2. CASE req'[s] # req[s]
          <6>1. req'[s] \notin UpdateShape
            BY <4>1, <5>2 DEF UpdateShape, DeleteShape, ShareShape
          <6> QED BY <6>1 DEF PutBack
        <5> QED BY <5>1, <5>2
      <4> QED BY <1>0, <4>3, <4>4 DEF EditInv, AllPutBack
    <3> QED BY <3>2, <3>3
  <2>8. CASE DeleteGrants(r) \/ ShareGrants(r)
    <3>1. Answer(r) /\ UNCHANGED <<nets, joined, removed>>
      BY <1>0, <2>8, GrantsDropped, GrantsReplaced
    <3> QED BY <1>0, <3>1, EditAnswer
  <2> QED BY <1>4, <2>1, <2>2, <2>3, <2>4, <2>5, <2>6, <2>7, <2>8, <2>9 DEF Step, Lookup
<1>5. ASSUME UNCHANGED <<req, joined, removed>>, nets \subseteq nets' PROVE EditInv'
  BY <1>0, <1>5 DEF EditInv, OneAbout, About, Active, AllPutBack, PutBack
<1>6. ASSUME NEW n \in Names, CreateNetwork(n) PROVE EditInv'
  BY <1>5, <1>6 DEF CreateNetwork
<1>7. CASE Edit
  BY <1>5, <1>7 DEF Edit
<1>8. CASE UNCHANGED vars
  BY <1>5, <1>8 DEF vars, world
<1> QED BY <1>1, <1>4, <1>6, <1>7, <1>8 DEF Next

\* As long as requests about one container do not overlap, an edit of its networks, which
\* UpdateContainerSettings carries out by leaving all and joining the wanted ones, keeps
\* it on every network that it was on and that was asked for and not deleted meanwhile:
\* a network Docker refuses costs the container no other.
THEOREM EditsLoseNothing ==
  ASSUME ~Overlap
  PROVE  Spec => NothingLost
<1> DEFINE Kept == \A r \in Requests :
             Active(r) /\ req[r].op = "update" /\ req[r].step = "docker" /\ req'[r] = Idle
               => (req[r].keep \cap req[r].want) \ removed \subseteq joined'[req[r].con]
<1>1. Init => EditInv
  <2> SUFFICES ASSUME Init PROVE EditInv
    OBVIOUS
  <2>1. \A r \in Requests : req[r] = Idle
    BY DEF Init
  <2> QED BY <2>1, TypedInit, IdleShape DEF EditInv, OneAbout, About, Active, AllPutBack, PutBack, OnContainer, ForContainer
<1>2. EditInv /\ [Next]_vars => [Kept]_vars
  <2> SUFFICES ASSUME EditInv, [Next]_vars, NEW r \in Requests, Active(r), req[r].op = "update",
                      req[r].step = "docker", req'[r] = Idle
               PROVE  (req[r].keep \cap req[r].want) \ removed \subseteq joined'[req[r].con]
    OBVIOUS
  <2>0. Typed /\ joined \in [Containers -> SUBSET Names] /\ req \in [Requests -> Shapes]
    BY DEF EditInv, Typed, WorldTyped
  <2>1. req[r] \in UpdateShape /\ req[r] # Idle /\ req[r].con \in Containers
    BY <2>0, Kinds DEF Active, UpdateShape
  <2>2. ~Arrive(r) /\ req' # req
    <3>1. ASSUME Arrive(r) PROVE FALSE
      <4>1. PICK q \in Shapes : Start(r, q)
        BY <2>0, <3>1, Arrivals
      <4> QED BY <4>1 DEF Start
    <3> QED BY <2>1, <3>1
  <2>3. ASSUME NEW s \in Requests \ {r}, Arrive(s) \/ Step(s) PROVE req'[r] = req[r]
    <3>1. CASE Arrive(s)
      <4>1. PICK q \in Shapes : Start(s, q)
        BY <2>0, <3>1, Arrivals
      <4> QED BY <2>0, <4>1 DEF Start
    <3>2. CASE DeleteDocker(s)
      <4>1. req[r] \notin ShareShape
        BY <2>1 DEF UpdateShape, ShareShape
      <4> QED BY <2>0, <3>2, <4>1, DeleteDone DEF Answer
    <3>3. CASE Step(s) /\ ~DeleteDocker(s)
      <4>1. Answer(s) \/ \E q : req' = [req EXCEPT ![s] = q]
        BY <2>0, <3>3, LookupPuts, ConnectPuts, UpdateResolved, UpdateInspected, UpdateLeft, UpdateJoins, CreateValidated,
           CreateDone, GrantsDropped, GrantsReplaced DEF Step, Lookup
      <4> QED BY <2>0, <4>1 DEF Answer
    <3> QED BY <2>3, <3>1, <3>2, <3>3
  <2>4. Step(r)
    BY <2>1, <2>2, <2>3 DEF Next, Edit, CreateNetwork, vars
  <2>5. PICK n \in Names : UpdateLeave(r, n) \/ UpdateJoin(r, n)
    <3>1. req[r] \notin ConnectShape /\ req[r] \notin CreateShape /\ req[r] \notin DeleteShape /\ req[r] \notin ShareShape
      BY <2>1 DEF UpdateShape, ConnectShape, CreateShape, DeleteShape, ShareShape
    <3>2. ~UpdateResolve(r) /\ ~UpdateInspect(r)
      BY DEF UpdateResolve, UpdateInspect, At
    <3>3. ~Lookup(r)
      <4>1. \A q : ~(Looked(req[r], q) /\ req' = [req EXCEPT ![r] = q])
        <5>1. SUFFICES ASSUME NEW q, Looked(req[r], q), req' = [req EXCEPT ![r] = q] PROVE FALSE
          OBVIOUS
        <5>2. req'[r] = q /\ q \in OnContainer
          BY <2>0, <5>1 DEF Looked
        <5> QED BY <5>2, IdleShape
      <4>2. ~Answer(r) \/ ~Lookup(r)
        BY DEF Answer, Lookup, ReadPreset, ReadCurrent, ReadGrants, ReadList, At
      <4> QED BY <2>0, <4>1, <4>2, LookupPuts
    <3> QED BY <2>0, <2>4, <3>1, <3>2, <3>3, ConnectPuts, CreateValidated, CreateDone, DeleteDone, GrantsDropped,
               GrantsReplaced DEF Step, Lookup
  <2>6. ~UpdateLeave(r, n)
    <3>1. ASSUME UpdateLeave(r, n) PROVE FALSE
      <4>1. PICK q : Edited(req[r], q) /\ req' = [req EXCEPT ![r] = q]
        BY <2>0, <3>1, UpdateLeft
      <4>2. req'[r] = q /\ q \in UpdateShape
        BY <2>0, <4>1 DEF Edited
      <4> QED BY <4>2, IdleShape DEF OnContainer
    <3> QED BY <3>1
  <2>7. req[r].join = {n}
    <3>1. ASSUME NEW q, Edited(req[r], q), req' = [req EXCEPT ![r] = q] PROVE FALSE
      <4>1. req'[r] = q /\ q \in UpdateShape
        BY <2>0, <3>1 DEF Edited
      <4> QED BY <4>1, IdleShape DEF OnContainer
    <3> QED BY <2>0, <2>5, <2>6, <3>1, UpdateJoins
  <2>8. joined'[req[r].con] = joined[req[r].con] \cup ({n} \cap nets)
    BY <2>0, <2>1, <2>5, <2>6, UpdateJoins
  <2>9. /\ req[r].keep \subseteq nets \cup removed
        /\ ((req[r].want \ req[r].join) \cap req[r].keep) \ removed \subseteq joined[req[r].con]
    BY <2>1 DEF EditInv, AllPutBack, PutBack
  <2> QED BY <2>7, <2>8, <2>9
<1>3. EditInv /\ [Next]_vars => EditInv'
  BY EditNext
<1> QED BY <1>1, <1>2, <1>3, PTL DEF Spec, NothingLost

-----------------------------------------------------------------------------
\* Whatever is granted to whom and whichever networks exist, ListNetworks, the guard
\* of networkConnect and InspectNetwork agree on what a caller may join.
THEOREM RulesAgree == OneRule
<1> SUFFICES ASSUME NEW u \in Users, NEW a \in [granted : SUBSET Names, restricted : SUBSET Names],
                    NEW n \in Names
             PROVE  /\ n \in Attachable(a, u) <=> GuardUsable(a, u, n)
                    /\ GuardUsable(a, u, n) => Inspectable(a, u, n)
  BY DEF OneRule
<1>1. n \in System => n \notin HostNets \cup Managed
  BY NetworksAssumption
<1>2. n \notin System => n \in HostNets \cup Managed
  BY DEF Names
<1>3. n \in Attachable(a, u) <=> GuardUsable(a, u, n)
  BY <1>1, <1>2 DEF Attachable, GuardUsable
<1>4. GuardUsable(a, u, n) => Inspectable(a, u, n)
  BY DEF GuardUsable, Inspectable
<1> QED BY <1>3, <1>4
=============================================================================
