------------------------------ MODULE MCPProofs ------------------------------
(***************************************************************************)
(* Proofs about MCP, for any ports, streams and requests: a request is let *)
(* in only if every condition was met since it began, and the external     *)
(* listener follows the settings of one administrator at a time.  In the   *)
(* second half about Disks, for any directories, names, files and jobs:    *)
(* whoever is at work on the disks has claimed the places it writes to.    *)
(***************************************************************************)
EXTENDS MCP, SequenceTheorems, TLAPS

Conditions == {"token", "key", "managed", "owner", "settings", "networks"}

Resolving ==
  [pc : {"token", "managed", "owner", "settings", "networks", "key", "admitted", "send"},
   kind : {"open", "call", "post"}, s : Streams, via : {Lan} \cup Ports,
   hash : Nat, key : Nat, seen : Nat, cut : BOOLEAN]

RequestsTyped ==
  /\ row \in [live : BOOLEAN, hash : Nat, key : Nat, owner : BOOLEAN, managed : BOOLEAN, safe : BOOLEAN]
  /\ req \in [Reqs -> Resolving \cup {Idle}]
  /\ held \in [Reqs -> SUBSET Conditions]

\* The checks a request has behind it.
Passed(x) ==
  CASE x.pc = "managed"  -> {"token"}
    [] x.pc = "owner"    -> {"token", "managed"}
    [] x.pc = "settings" -> {"token", "managed", "owner"}
    [] x.pc = "networks" -> {"token", "managed", "owner", "settings"}
    [] x.pc = "key"      -> {"token", "managed", "owner", "settings", "networks"}
    [] x.pc = "admitted" -> {"token", "managed", "owner"} \cup
                              (IF x.via # Lan THEN {"settings", "networks", "key"} ELSE {})
    [] OTHER             -> {}

\* What a request has behind it was met, and so was the key it was compared with,
\* if that was the key of the moment.
Vouched(x, h) ==
  /\ Passed(x) \subseteq h
  /\ x.pc \in {"managed", "owner", "settings", "networks", "key"} => (x.seen = x.key => "key" \in h)

ResolveInv == RequestsTyped /\ \A q \in Reqs : Vouched(req[q], held[q])

-----------------------------------------------------------------------------
\* Whatever else happens in a step, what it does to requests keeps them vouched for, if
\* each request goes on as it was, begins, ends, or passes a check that is met.
LEMMA VouchedStep ==
  ASSUME ResolveInv,
         row' \in [live : BOOLEAN, hash : Nat, key : Nat, owner : BOOLEAN, managed : BOOLEAN, safe : BOOLEAN],
         req' \in [Reqs -> Resolving \cup {Idle}],
         held' = [q \in Reqs |-> IF req'[q] = Idle THEN {} ELSE held[q] \cup Meets(q)'],
         \A q \in Reqs : req'[q] # Idle => Vouched(req'[q], held[q] \cup Meets(q)')
  PROVE  ResolveInv'
<1>1. \A q \in Reqs : Meets(q)' \subseteq Conditions
  BY DEF Meets, Conditions
<1>2. held' \in [Reqs -> SUBSET Conditions]
  BY <1>1 DEF ResolveInv, RequestsTyped
<1>3. Vouched(Idle, {})
  BY DEF Vouched, Passed, Idle
<1>4. ASSUME NEW q \in Reqs
      PROVE  Vouched(req'[q], held'[q])
  BY <1>3
<1> QED BY <1>2, <1>4 DEF ResolveInv, RequestsTyped

\* What vouches for a request still does when more conditions are known to have been met.
LEMMA VouchedMore ==
  ASSUME NEW x, NEW h, NEW g, Vouched(x, h)
  PROVE  Vouched(x, h \cup g)
  BY DEF Vouched

\* A step that touches no request, or ends them.
LEMMA RequestsWait ==
  ASSUME ResolveInv,
         row' \in [live : BOOLEAN, hash : Nat, key : Nat, owner : BOOLEAN, managed : BOOLEAN, safe : BOOLEAN],
         held' = [q \in Reqs |-> IF req'[q] = Idle THEN {} ELSE held[q] \cup Meets(q)'],
         req' \in [Reqs -> Resolving \cup {Idle}],
         \A q \in Reqs : req'[q] = req[q] \/ req'[q] = Idle
  PROVE  ResolveInv'
<1>1. \A q \in Reqs : req'[q] # Idle => Vouched(req'[q], held[q] \cup Meets(q)')
  BY VouchedMore DEF ResolveInv
<1> QED BY <1>1, VouchedStep

\* A request that goes on alone.
LEMMA RequestGoes ==
  ASSUME ResolveInv, NEW q \in Reqs, NEW x \in Resolving, req' = [req EXCEPT ![q] = x], row' = row,
         held' = [p \in Reqs |-> IF req'[p] = Idle THEN {} ELSE held[p] \cup Meets(p)'],
         Vouched(x, held[q] \cup Meets(q)')
  PROVE  ResolveInv'
<1>1. req' \in [Reqs -> Resolving \cup {Idle}] /\ req'[q] = x /\ \A p \in Reqs \ {q} : req'[p] = req[p]
  BY DEF ResolveInv, RequestsTyped
<1>2. \A p \in Reqs : req'[p] # Idle => Vouched(req'[p], held[p] \cup Meets(p)')
  BY <1>1, VouchedMore DEF ResolveInv
<1> QED BY <1>1, <1>2, VouchedStep DEF ResolveInv, RequestsTyped

\* One of the checks after the token's.
LEMMA CheckStep ==
  ASSUME ResolveInv, NEW q \in Reqs,
         held' = [p \in Reqs |-> IF req'[p] = Idle THEN {} ELSE held[p] \cup Meets(p)'],
         CheckManaged(q) \/ CheckOwner(q) \/ CheckSettings(q) \/ CheckNetworks(q) \/ CheckKey(q)
  PROVE  ResolveInv'
<1>1. row' = row /\ stored' = stored
  BY DEF CheckManaged, CheckOwner, CheckSettings, CheckNetworks, CheckKey, Checks, listener
<1>2. req[q] \in Resolving
  BY DEF ResolveInv, RequestsTyped, CheckManaged, CheckOwner, CheckSettings, CheckNetworks, CheckKey, Checks, Idle
<1>3. CASE req' = [req EXCEPT ![q] = Idle]
  BY <1>1, <1>3, RequestsWait DEF ResolveInv, RequestsTyped
<1>4. ASSUME NEW next \in {"owner", "settings", "networks", "key", "admitted"}, req' = [req EXCEPT ![q].pc = next],
             \/ req[q].pc = "managed" /\ next = "owner" /\ row.managed
             \/ req[q].pc = "owner" /\ row.owner /\ next = IF External(q) THEN "settings" ELSE "admitted"
             \/ req[q].pc = "settings" /\ next = "networks" /\ stored # Off
             \/ req[q].pc = "networks" /\ next = "key" /\ row.safe
             \/ req[q].pc = "key" /\ next = "admitted" /\ req[q].seen = req[q].key
      PROVE  ResolveInv'
  <2>1. PICK x : x = [req[q] EXCEPT !.pc = next]
    OBVIOUS
  <2>2. x \in Resolving /\ x.pc = next /\ x.via = req[q].via /\ x.seen = req[q].seen /\ x.key = req[q].key
    BY <1>2, <2>1 DEF Resolving
  <2>3. req' = [req EXCEPT ![q] = x]
    BY <1>4, <2>1
  <2>4. req'[q] = x /\ x # Idle
    BY <1>4, <2>2, <2>3 DEF ResolveInv, RequestsTyped, Idle
  <2>5. /\ row.managed => "managed" \in Meets(q)'
        /\ row.owner => "owner" \in Meets(q)'
        /\ row.safe => "networks" \in Meets(q)'
        /\ stored # Off => "settings" \in Meets(q)'
    BY <1>1, <2>4 DEF Meets
  <2>6. Vouched(req[q], held[q])
    BY DEF ResolveInv
  <2>7. Vouched(x, held[q] \cup Meets(q)')
    BY <1>4, <2>2, <2>5, <2>6 DEF Vouched, Passed, External
  <2> QED BY <1>1, <2>2, <2>3, <2>7, RequestGoes
<1> QED BY <1>3, <1>4 DEF CheckManaged, CheckOwner, CheckSettings, CheckNetworks, CheckKey, Checks

\* The first check, which also reads the hash of the key.
LEMMA TokenStep ==
  ASSUME ResolveInv, NEW q \in Reqs, CheckToken(q),
         held' = [p \in Reqs |-> IF req'[p] = Idle THEN {} ELSE held[p] \cup Meets(p)']
  PROVE  ResolveInv'
<1>1. row' = row
  BY DEF CheckToken
<1>2. req[q] \in Resolving /\ row.key \in Nat
  BY DEF ResolveInv, RequestsTyped, CheckToken, Idle
<1>3. CASE req' = [req EXCEPT ![q] = Idle]
  BY <1>1, <1>3, RequestsWait DEF ResolveInv, RequestsTyped
<1>4. CASE row.live /\ row.hash = req[q].hash /\ req' = [req EXCEPT ![q].pc = "managed", ![q].seen = row.key]
  <2>1. PICK x : x = [req[q] EXCEPT !.pc = "managed", !.seen = row.key]
    OBVIOUS
  <2>2. x \in Resolving /\ x.pc = "managed" /\ x.seen = row.key /\ x.key = req[q].key /\ x.hash = req[q].hash
    BY <1>2, <2>1 DEF Resolving
  <2>3. req' = [req EXCEPT ![q] = x]
    BY <1>4, <2>1
  <2>4. req'[q] = x /\ x # Idle
    BY <2>2, <2>3 DEF ResolveInv, RequestsTyped, Idle
  <2>5. "token" \in Meets(q)' /\ (x.seen = x.key => "key" \in Meets(q)')
    BY <1>1, <1>4, <2>2, <2>4 DEF Meets
  <2>6. Vouched(x, held[q] \cup Meets(q)')
    BY <2>2, <2>5 DEF Vouched, Passed
  <2> QED BY <1>1, <2>2, <2>3, <2>6, RequestGoes
<1> QED BY <1>3, <1>4 DEF CheckToken

\* A request begins with nothing behind it.
LEMMA BeginStep ==
  ASSUME ResolveInv, NEW q \in Reqs, NEW k \in {"open", "call", "post"}, NEW s \in Streams, NEW p \in {Lan} \cup Ports,
         NEW h \in 1 .. row.hash, NEW e \in 0 .. row.key, Request(q, k, s, p, h, e),
         held' = [x \in Reqs |-> IF req'[x] = Idle THEN {} ELSE held[x] \cup Meets(x)']
  PROVE  ResolveInv'
<1>1. h \in Nat /\ e \in Nat
  BY DEF ResolveInv, RequestsTyped
<1>2. PICK x \in Resolving : x = [pc |-> "token", kind |-> k, s |-> s, via |-> p,
                                 hash |-> h, key |-> e, seen |-> 0, cut |-> FALSE]
  BY <1>1 DEF Resolving
<1>3. req' = [req EXCEPT ![q] = x] /\ row' = row
  BY <1>2 DEF Request
<1>4. Vouched(x, held[q] \cup Meets(q)')
  BY <1>2 DEF Vouched, Passed
<1> QED BY <1>3, <1>4, RequestGoes

\* The answer to a post is prepared.
LEMMA PostStep ==
  ASSUME ResolveInv, NEW q \in Reqs, NEW m, Post(q, m),
         held' = [p \in Reqs |-> IF req'[p] = Idle THEN {} ELSE held[p] \cup Meets(p)']
  PROVE  ResolveInv'
<1>1. row' = row /\ req[q] \in Resolving
  BY DEF Post, Passes, ResolveInv, RequestsTyped, Idle
<1>2. CASE req' = [req EXCEPT ![q] = Idle]
  BY <1>1, <1>2, RequestsWait DEF ResolveInv, RequestsTyped
<1>3. CASE req' = [req EXCEPT ![q].pc = "send"]
  <2>1. PICK x : x = [req[q] EXCEPT !.pc = "send"]
    OBVIOUS
  <2>2. x \in Resolving /\ x.pc = "send"
    BY <1>1, <2>1 DEF Resolving
  <2>3. Vouched(x, held[q] \cup Meets(q)')
    BY <2>2 DEF Vouched, Passed
  <2> QED BY <1>1, <1>3, <2>1, <2>2, <2>3, RequestGoes
<1> QED BY <1>2, <1>3 DEF Post, Drop

\* Close cuts the requests that came over the listener; what they passed they passed.
LEMMA CutStep ==
  ASSUME ResolveInv, NEW a \in Appliers, StopServer(a),
         held' = [p \in Reqs |-> IF req'[p] = Idle THEN {} ELSE held[p] \cup Meets(p)']
  PROVE  ResolveInv'
<1>1. row' = row
  BY DEF StopServer
<1>2. ASSUME NEW q \in Reqs
      PROVE  req'[q] \in Resolving \cup {Idle} /\ Vouched(req'[q], held[q] \cup Meets(q)')
  <2>1. CASE req'[q] = req[q]
    BY <2>1, VouchedMore DEF ResolveInv, RequestsTyped
  <2>2. CASE req[q] # Idle /\ req'[q] = [req[q] EXCEPT !.cut = TRUE]
    <3>1. req[q] \in Resolving
      BY <2>2 DEF ResolveInv, RequestsTyped
    <3>2. PICK x : x = [req[q] EXCEPT !.cut = TRUE]
      OBVIOUS
    <3>3. /\ x \in Resolving /\ x.pc = req[q].pc /\ x.via = req[q].via
          /\ x.seen = req[q].seen /\ x.key = req[q].key
      BY <3>1, <3>2 DEF Resolving
    <3>4. Vouched(x, held[q])
      BY <3>3 DEF ResolveInv, Vouched, Passed
    <3> QED BY <2>2, <3>2, <3>3, <3>4, VouchedMore
  <2> QED BY <2>1, <2>2 DEF StopServer
<1>3. req' \in [Reqs -> Resolving \cup {Idle}]
  BY <1>2 DEF StopServer
<1> QED BY <1>1, <1>2, <1>3, VouchedStep DEF ResolveInv, RequestsTyped

\* Every step keeps it.
LEMMA ResolveInvKept == ResolveInv /\ [Next]_vars => ResolveInv'
<1> SUFFICES ASSUME ResolveInv, [Next]_vars PROVE ResolveInv'
  OBVIOUS
<1>1. CASE UNCHANGED vars
  BY <1>1 DEF vars, ResolveInv, RequestsTyped
<1>2. CASE Next
  <2> DEFINE Row == [live : BOOLEAN, hash : Nat, key : Nat, owner : BOOLEAN, managed : BOOLEAN, safe : BOOLEAN]
  <2>1. held' = [q \in Reqs |-> IF req'[q] = Idle THEN {} ELSE held[q] \cup Meets(q)']
    BY <1>2 DEF Next
  <2>2. row \in Row /\ req \in [Reqs -> Resolving \cup {Idle}]
    BY DEF ResolveInv, RequestsTyped
  <2>3. CASE row' \in Row /\ req' = req
    BY <2>1, <2>2, <2>3, RequestsWait
  <2>4. CASE row' = row /\ (req' = [q \in Reqs |-> Idle] \/ \E q \in Reqs : req' = [req EXCEPT ![q] = Idle])
    BY <2>1, <2>2, <2>4, RequestsWait
  <2>5. CASE \E a \in Savers, p \in {Off} \cup Ports : Save(a, p)
    BY <2>2, <2>3, <2>5 DEF Save
  <2>6. ASSUME NEW a \in Appliers, Apply(a) PROVE ResolveInv'
    BY <2>1, <2>2, <2>3, <2>6, CutStep DEF Apply, ReadSettings, TakeLock, Listen
  <2>7. CASE Restart \/ Upgrade
    BY <2>4, <2>7 DEF Restart, Upgrade, Restarted
  <2>8. CASE OldCloses
    BY <2>2, <2>3, <2>8 DEF OldCloses
  <2>9. CASE CreateToken \/ RotateToken \/ RotateKey \/ DeleteToken \/ OwnerChanges \/ ContainerChanges
    <3>1. req' = req
      BY <2>9 DEF CreateToken, RotateToken, RotateKey, DeleteToken, OwnerChanges, ContainerChanges, Edit
    <3>2. row' \in Row
      <4>1. CASE CreateToken
        <5>1. row' = [live |-> TRUE, hash |-> row.hash + 1, key |-> 0, owner |-> row.owner,
                      managed |-> row.managed, safe |-> row.safe]
          BY <2>2, <4>1 DEF CreateToken
        <5>2. row.hash + 1 \in Nat /\ 0 \in Nat
          BY <2>2
        <5> QED BY <2>2, <5>1, <5>2
      <4>2. CASE RotateToken
        BY <2>2, <4>2 DEF RotateToken
      <4>3. CASE RotateKey
        BY <2>2, <4>3 DEF RotateKey
      <4>4. CASE DeleteToken
        BY <2>2, <4>4 DEF DeleteToken
      <4>5. CASE OwnerChanges
        BY <2>2, <4>5 DEF OwnerChanges
      <4>6. CASE ContainerChanges
        BY <2>2, <4>6 DEF ContainerChanges
      <4> QED BY <2>9, <4>1, <4>2, <4>3, <4>4, <4>5, <4>6
    <3> QED BY <2>3, <3>1, <3>2
  <2>10. ASSUME NEW q \in Reqs, Resolve(q) PROVE ResolveInv'
    <3>1. CASE OpenStream(q) \/ Call(q) \/ Send(q)
      BY <2>4, <3>1 DEF OpenStream, Call, Send, Passes, Drop
    <3> QED BY <2>1, <2>10, <3>1, TokenStep, CheckStep, PostStep DEF Resolve
  <2>11. CASE \E q \in Reqs, k \in {"open", "call", "post"}, s \in Streams, p \in {Lan} \cup Ports,
                h \in 1 .. row.hash, e \in 0 .. row.key : Request(q, k, s, p, h, e)
    BY <2>1, <2>11, BeginStep
  <2>12. CASE \E s \in Streams : Serve(s) \/ Disconnect(s)
    BY <2>2, <2>3, <2>12 DEF Serve, WriteEvent, EndStream, Disconnect
  <2> QED BY <1>2, <2>5, <2>6, <2>7, <2>8, <2>9, <2>10, <2>11, <2>12 DEF Next, Step
<1> QED BY <1>1, <1>2

\* However tokens, keys, owners, networks and settings change while a request is resolved,
\* it is let in only if each condition was met at some moment since it began.
THEOREM OnlyWhatWasMet == Spec => OnlyIfAllowed
<1>1. Init => ResolveInv
  BY DEF Init, ResolveInv, RequestsTyped, Vouched, Passed, Idle
<1>2. ResolveInv /\ [Next]_vars => ResolveInv'
  BY ResolveInvKept
<1>3. ResolveInv => \A q \in Reqs : req[q].pc = "admitted" => Needed(q) \subseteq held[q]
  BY DEF ResolveInv, Vouched, Passed, Needed, External
<1>4. ResolveInv /\ [Next]_vars =>
        [\A q \in Reqs : req[q].pc = "admitted" /\ req'[q] # req[q] => Needed(q) \subseteq held[q]]_vars
  BY <1>3
<1> QED BY <1>1, <1>2, <1>4, PTL DEF Spec, OnlyIfAllowed

-----------------------------------------------------------------------------
ListenerTyped ==
  /\ {stored, srv, old} \subseteq {Off} \cup Ports
  /\ applier \in [Appliers -> [pc : {"read", "lock", "stop", "listen"}, prev : {Off} \cup Ports,
                             seen : {Off} \cup Ports, back : BOOLEAN] \cup {Idle}]

\* One applier at a time is at work.  What it has read is what is stored, it has closed the
\* server before it goes on, and when it is done the settings hold or the port was missed.
ApplyInv ==
  /\ ListenerTyped
  /\ srv \notin Taken
  /\ \A a, b \in Appliers : applier[a] # Idle /\ applier[b] # Idle => a = b
  /\ \A a \in Appliers : applier[a].pc \in {"lock", "stop", "listen"} => applier[a].seen = stored
  /\ \A a \in Appliers : applier[a].pc \in {"stop", "listen"} => srv = Off
  /\ \A a \in Appliers : applier[a].pc = "listen" => applier[a].seen # Off
  /\ (\A a \in Appliers : applier[a] = Idle) => missed \/ AsStored

\* The applier at work takes a step that keeps it at work.
LEMMA ApplierGoes ==
  ASSUME ApplyInv, NEW a \in Appliers, applier[a] # Idle,
         NEW x \in [pc : {"read", "lock", "stop", "listen"}, prev : {Off} \cup Ports,
                    seen : {Off} \cup Ports, back : BOOLEAN],
         applier' = [applier EXCEPT ![a] = x], stored' \in {Off} \cup Ports, srv' \in {Off, srv}, old' = old,
         x.pc \in {"lock", "stop", "listen"} => x.seen = stored', x.pc \in {"stop", "listen"} => srv' = Off,
         x.pc = "listen" => x.seen # Off
  PROVE  ApplyInv'
<1>1. applier'[a] = x /\ \A b \in Appliers \ {a} : applier'[b] = Idle
  BY DEF ApplyInv, ListenerTyped
<1>2. x # Idle /\ Idle.pc = "idle"
  BY DEF Idle
<1>3. ListenerTyped'
  BY DEF ApplyInv, ListenerTyped
<1>4. Off \notin Taken
  BY MCPAssumption
<1>5. srv' \notin Taken
  BY <1>4 DEF ApplyInv
<1> QED BY <1>1, <1>2, <1>3, <1>5 DEF ApplyInv

\* The applier at work is done.
LEMMA ApplierDone ==
  ASSUME ApplyInv, NEW a \in Appliers, applier[a] # Idle, applier' = [applier EXCEPT ![a] = Idle],
         UNCHANGED <<stored, old>>, srv' \in {Off} \cup Ports, srv' \notin Taken, missed' \/ AsStored'
  PROVE  ApplyInv'
<1>1. \A b \in Appliers : applier'[b] = Idle
  BY DEF ApplyInv, ListenerTyped
<1>2. Idle.pc = "idle"
  BY DEF Idle
<1>3. ListenerTyped'
  BY DEF ApplyInv, ListenerTyped
<1> QED BY <1>1, <1>2, <1>3 DEF ApplyInv

\* No applier takes a step.
LEMMA ListenerRests ==
  ASSUME ApplyInv, UNCHANGED <<stored, srv, applier, missed>>, old' \in {Off, old}
  PROVE  ApplyInv'
  BY DEF ApplyInv, ListenerTyped, AsStored

LEMMA ApplyKept ==
  ASSUME ApplyInv, NEW a \in Appliers, Apply(a)
  PROVE  ApplyInv'
<1> DEFINE Rec == [pc : {"read", "lock", "stop", "listen"}, prev : {Off} \cup Ports,
                   seen : {Off} \cup Ports, back : BOOLEAN]
<1>1. applier[a] # Idle /\ applier[a] \in Rec
  BY DEF Apply, ReadSettings, TakeLock, StopServer, Listen, Idle, ApplyInv, ListenerTyped
<1>2. CASE ReadSettings(a)
  <2>1. PICK x : x = [applier[a] EXCEPT !.pc = "lock", !.seen = stored]
    OBVIOUS
  <2>2. x \in Rec /\ x.pc = "lock" /\ x.seen = stored
    BY <1>1, <2>1 DEF ApplyInv, ListenerTyped
  <2>3. applier' = [applier EXCEPT ![a] = x] /\ UNCHANGED <<stored, srv, old>>
    BY <1>2, <2>1 DEF ReadSettings
  <2> QED BY <1>1, <2>2, <2>3, ApplierGoes DEF ApplyInv, ListenerTyped
<1>3. CASE TakeLock(a)
  <2>1. applier[a].pc = "lock" /\ applier[a].seen = stored /\ UNCHANGED <<stored, old>>
    BY <1>3 DEF TakeLock, ApplyInv
  <2>2. CASE srv = applier[a].seen /\ applier' = [applier EXCEPT ![a] = Idle] /\ srv' = srv
    <3>1. AsStored'
      BY <2>1, <2>2 DEF AsStored, ApplyInv
    <3> QED BY <1>1, <2>1, <2>2, <3>1, ApplierDone DEF ApplyInv, ListenerTyped
  <2>3. ASSUME NEW l \in {"stop", "listen"}, applier' = [applier EXCEPT ![a].pc = l], srv' = Off,
               l = "listen" => applier[a].seen # Off
        PROVE  ApplyInv'
    <3>1. PICK x : x = [applier[a] EXCEPT !.pc = l]
      OBVIOUS
    <3>2. x \in Rec /\ x.pc = l /\ x.seen = applier[a].seen
      BY <1>1, <3>1
    <3>3. applier' = [applier EXCEPT ![a] = x]
      BY <2>3, <3>1
    <3>4. stored' \in {Off} \cup Ports
      BY <2>1 DEF ApplyInv, ListenerTyped
    <3> HIDE DEF Rec
    <3> QED BY <1>1, <2>1, <2>3, <3>2, <3>3, <3>4, ApplierGoes DEF Rec
  <2> QED BY <1>3, <2>2, <2>3 DEF TakeLock, Goto
<1>4. CASE StopServer(a)
  <2>1. applier[a].pc = "stop" /\ applier[a].seen = stored /\ srv = Off /\ UNCHANGED <<stored, srv, old>>
    BY <1>4 DEF StopServer, ApplyInv
  <2>2. CASE applier[a].seen = Off /\ applier' = [applier EXCEPT ![a] = Idle]
    <3>1. AsStored'
      BY <2>1, <2>2 DEF AsStored, ApplyInv
    <3> QED BY <1>1, <2>1, <2>2, <3>1, ApplierDone DEF ApplyInv, ListenerTyped
  <2>3. CASE applier[a].seen # Off /\ applier' = [applier EXCEPT ![a].pc = "listen"]
    <3>1. PICK x : x = [applier[a] EXCEPT !.pc = "listen"]
      OBVIOUS
    <3>2. x \in Rec /\ x.pc = "listen" /\ x.seen = applier[a].seen
      BY <1>1, <3>1
    <3>3. applier' = [applier EXCEPT ![a] = x]
      BY <2>3, <3>1
    <3> QED BY <1>1, <2>1, <2>3, <3>2, <3>3, ApplierGoes DEF ApplyInv, ListenerTyped
  <2> QED BY <1>4, <2>2, <2>3 DEF StopServer, Goto
<1>5. CASE Listen(a)
  <2>1. applier[a].pc = "listen" /\ applier[a].seen = stored /\ srv = Off /\ stored # Off /\ old' = old
        /\ missed' = (applier[a].seen = old)
    BY <1>5 DEF Listen, ApplyInv
  <2>2. CASE Bindable(applier[a].seen) /\ srv' = applier[a].seen /\ applier' = [applier EXCEPT ![a] = Idle] /\ stored' = stored
    <3>1. AsStored' /\ srv' \notin Taken
      BY <2>1, <2>2 DEF AsStored, Bindable
    <3> QED BY <1>1, <2>1, <2>2, <3>1, ApplierDone DEF ApplyInv, ListenerTyped
  <2>3. CASE applier' = [applier EXCEPT ![a].pc = "read", ![a].back = TRUE] /\ stored' = applier[a].prev /\ srv' = srv
    <3>1. PICK x : x = [applier[a] EXCEPT !.pc = "read", !.back = TRUE]
      OBVIOUS
    <3>2. x \in Rec /\ x.pc = "read"
      BY <1>1, <3>1
    <3>3. applier' = [applier EXCEPT ![a] = x]
      BY <2>3, <3>1
    <3>4. stored' \in {Off} \cup Ports
      BY <1>1, <2>3
    <3> HIDE DEF Rec
    <3> QED BY <1>1, <2>1, <2>3, <3>2, <3>3, <3>4, ApplierGoes DEF Rec
  <2>4. CASE ~Bindable(applier[a].seen) /\ applier' = [applier EXCEPT ![a] = Idle] /\ UNCHANGED <<srv, stored>>
    <3>1. missed' \/ AsStored'
      BY <2>1, <2>4 DEF AsStored, Bindable
    <3> QED BY <1>1, <2>1, <2>4, <3>1, ApplierDone DEF ApplyInv, ListenerTyped
  <2> QED BY <1>5, <2>2, <2>3, <2>4 DEF Listen
<1> QED BY <1>2, <1>3, <1>4, <1>5 DEF Apply

\* The appliers when a process starts: the one that boots.
LEMMA BootAlone ==
  ASSUME applier' = [a \in Appliers |-> IF a = Boot THEN [pc |-> "read", prev |-> Off, seen |-> Off, back |-> FALSE]
                                        ELSE Idle],
         srv' = Off, {stored', old'} \subseteq {Off} \cup Ports
  PROVE  ApplyInv'
<1>1. Off \notin Taken
  BY MCPAssumption
<1>2. Boot \in Appliers /\ applier'[Boot] # Idle
  BY DEF Appliers, Idle
<1>3. ListenerTyped'
  BY DEF ListenerTyped
<1>4. \A a \in Appliers : applier'[a].pc \notin {"lock", "stop", "listen"}
  BY DEF Idle
<1> QED BY <1>1, <1>2, <1>3, <1>4 DEF ApplyInv

\* With one administrator saving at a time, the external listener is what the settings say
\* once nothing is being applied, other than when another program has the port or had it
\* when an upgrade started this process.
THEOREM ListenerFollowsSettings == (\A a, b \in Savers : a = b) => (Spec => []InLine)
<1> SUFFICES ASSUME \A a, b \in Savers : a = b PROVE Spec => []InLine
  OBVIOUS
<1>1. Init => ApplyInv
  <2> SUFFICES ASSUME Init PROVE ApplyInv
    OBVIOUS
  <2>1. Off \notin Taken
    BY MCPAssumption
  <2>2. Boot \in Appliers /\ applier[Boot] # Idle
    BY DEF Init, Appliers, Idle
  <2>3. ListenerTyped
    BY DEF Init, ListenerTyped
  <2>4. \A a \in Appliers : applier[a].pc \notin {"lock", "stop", "listen"}
    BY DEF Init, Idle
  <2> QED BY <2>1, <2>2, <2>3, <2>4 DEF Init, ApplyInv
<1>2. ApplyInv /\ [Next]_vars => ApplyInv'
  <2> SUFFICES ASSUME ApplyInv, [Next]_vars PROVE ApplyInv'
    OBVIOUS
  <2>1. CASE UNCHANGED <<stored, srv, applier, missed>> /\ old' \in {Off, old}
    BY <2>1, ListenerRests
  <2>2. ASSUME NEW a \in Savers, NEW p \in {Off} \cup Ports, Save(a, p) PROVE ApplyInv'
    <3>1. PICK x : x = [pc |-> "read", prev |-> stored, seen |-> Off, back |-> FALSE]
      OBVIOUS
    <3>2. /\ x.pc = "read" /\ x # Idle
          /\ x \in [pc : {"read", "lock", "stop", "listen"}, prev : {Off} \cup Ports,
                    seen : {Off} \cup Ports, back : BOOLEAN]
      BY <3>1 DEF ApplyInv, ListenerTyped, Idle
    <3>3. a \in Appliers /\ applier[a] = Idle /\ \A b \in Appliers \ {a} : applier[b] = Idle
      BY <2>2 DEF Save, Appliers
    <3>4. applier' = [applier EXCEPT ![a] = x] /\ stored' = p /\ UNCHANGED <<srv, old>>
      BY <2>2, <3>1 DEF Save
    <3>5. applier'[a] = x /\ \A b \in Appliers \ {a} : applier'[b] = Idle
      BY <3>3, <3>4 DEF ApplyInv, ListenerTyped
    <3>6. ListenerTyped'
      BY <3>2, <3>4 DEF ApplyInv, ListenerTyped
    <3> QED BY <3>2, <3>3, <3>4, <3>5, <3>6 DEF ApplyInv, Idle
  <2>3. ASSUME NEW a \in Appliers, Apply(a) PROVE ApplyInv'
    BY <2>3, ApplyKept
  <2>4. CASE Restart \/ Upgrade
    BY <2>4, BootAlone DEF Restart, Upgrade, Restarted, ApplyInv, ListenerTyped
  <2>5. CASE OldCloses
    BY <2>1, <2>5 DEF OldCloses
  <2>6. CASE CreateToken \/ RotateToken \/ RotateKey \/ DeleteToken \/ OwnerChanges \/ ContainerChanges
    BY <2>1, <2>6 DEF CreateToken, RotateToken, RotateKey, DeleteToken, OwnerChanges, ContainerChanges, Edit, listener
  <2>7. ASSUME NEW q \in Reqs, Resolve(q) PROVE UNCHANGED listener
    BY <2>7 DEF Resolve, CheckToken, CheckManaged, CheckOwner, CheckSettings, CheckNetworks, CheckKey, Checks,
                OpenStream, Call, Post, Send, Passes
  <2>8. ASSUME NEW s \in Streams, Serve(s) \/ Disconnect(s) PROVE UNCHANGED listener
    BY <2>8 DEF Serve, WriteEvent, EndStream, Disconnect
  <2>9. ASSUME NEW q \in Reqs, NEW k, NEW s, NEW p, NEW h, NEW e, Request(q, k, s, p, h, e) PROVE UNCHANGED listener
    BY <2>9 DEF Request
  <2>10. CASE UNCHANGED listener
    BY <2>1, <2>10 DEF listener
  <2>11. CASE UNCHANGED vars
    BY <2>10, <2>11 DEF vars
  <2> QED BY <2>2, <2>3, <2>4, <2>5, <2>6, <2>7, <2>8, <2>9, <2>10, <2>11 DEF Next, Step
<1>3. ApplyInv => InLine
  BY DEF ApplyInv, InLine, Quiet
<1> QED BY <1>1, <1>2, <1>3, PTL DEF Spec
-----------------------------------------------------------------------------
(***************************************************************************)
(* The disks that an agent's files are copied to and backed up on (Disks), *)
(* for any directories, names, files, requests and jobs.  The module is    *)
(* instantiated, so its assumption is a hypothesis of each result; its     *)
(* requests are called asks here, for MCP has requests of its own.        *)
(***************************************************************************)
CONSTANTS Netdisk, Backup, Names, Folders, Parts, PartsOf, MaxSuffix, Start, Asks, Jobs,
          MaxKept, Overlap, MaxOps, MaxWrites, MaxFaults
VARIABLES tree, ask, job, kept, cancel, ops, writes, faults

D == INSTANCE Disks WITH Reqs <- Asks, req <- ask

USE DEF D!DisksAssumption

DiskSafety == D!Init /\ [][D!Next]_D!vars

Contained == [is : BOOLEAN, has : [Parts -> D!Contents]]
Pairs == {i \in D!Items : i.to.name = i.from.name}
ReqRows == [pc : {"choose", "rename", "list", "copy"}, move : BOOLEAN, policy : D!Policies,
            items : Seq(Pairs), todo : SUBSET Parts, at : Nat]
JobRows == [pc : {"name", "list", "copy", "cancelled", "done", "ended"}, from : D!Slots, to : D!Slots,
            status : {"running", "done", "error", "cancelled"}, stop : BOOLEAN, failed : BOOLEAN,
            todo : SUBSET Parts, read : [Parts -> D!Contents]]

TreeTyped ==
  /\ tree \in [D!Slots -> Contained]
  /\ \A s \in D!Slots : ~tree[s].is => tree[s] = D!Empty
  /\ \A s \in D!Slots, p \in Parts : tree[s].has[p] # D!NoFile => tree[s].is /\ p \in PartsOf[s.name]
ReqTyped == ask \in [Asks -> {D!Idle} \cup ReqRows] /\ \A r \in Asks : ask[r] # D!Idle => ask[r].items # <<>>
JobTyped ==
  /\ job \in [Jobs -> {D!NoJob} \cup JobRows]
  /\ \A j \in Jobs : job[j] # D!NoJob => job[j].to.name = job[j].from.name
  /\ cancel \subseteq {j \in Jobs : job[j] # D!NoJob}
Bounds == writes \in Nat /\ ops \in Nat
TypeInv == TreeTyped /\ ReqTyped /\ JobTyped /\ Bounds

-----------------------------------------------------------------------------
LEMMA ReqRow == ASSUME D!DisksAssumption, ReqTyped, NEW r \in Asks, ask[r] # D!Idle
                PROVE  ask[r] \in ReqRows /\ ask[r].items \in Seq(Pairs) /\ Len(ask[r].items) \in Nat \ {0}
                       /\ 1 \in DOMAIN ask[r].items /\ \A i \in DOMAIN ask[r].items : ask[r].items[i] \in Pairs
<1>1. ask[r] \in ReqRows BY DEF ReqTyped
<1>2. ask[r].items \in Seq(Pairs) /\ ask[r].items # <<>> BY <1>1 DEF ReqTyped, ReqRows
<1> QED BY <1>1, <1>2

LEMMA NotIdle == ASSUME D!DisksAssumption, NEW x \in ReqRows PROVE x # D!Idle
  BY DEF ReqRows, D!Idle

LEMMA Ends == ASSUME D!DisksAssumption, NEW s \in D!Slots
              PROVE  s.dir \in D!Dirs /\ s.name \in Names /\ s.n \in 0 .. MaxSuffix /\ \A d \in D!Dirs : [s EXCEPT !.dir = d] \in D!Slots
  BY DEF D!Slots

LEMMA FromTo ==
  ASSUME D!DisksAssumption, ReqTyped, NEW r \in Asks, ask[r] # D!Idle
  PROVE  /\ D!To(r) = ask[r].items[1].to /\ D!From(r) = ask[r].items[1].from
         /\ D!To(r) \in D!Slots /\ D!From(r) \in D!Slots /\ D!To(r).name = D!From(r).name
<1>1. ask[r].items \in Seq(Pairs) /\ ask[r].items # <<>> /\ ask[r].items[1] \in Pairs
  BY ReqRow, 1 \in DOMAIN ask[r].items DEF ReqTyped
<1>2. Head(ask[r].items) = ask[r].items[1] BY <1>1
<1> QED BY <1>1, <1>2 DEF D!To, D!From, D!Work, Pairs, D!Items

LEMMA EmptyIs == ASSUME D!DisksAssumption PROVE D!Empty \in Contained /\ ~D!Empty.is /\ \A p \in Parts : D!Empty.has[p] = D!NoFile
  BY DEF D!Empty, Contained, D!Contents, D!NoFile

LEMMA PutTyped ==
  ASSUME D!DisksAssumption, TreeTyped, NEW s \in D!Slots, NEW p \in PartsOf[s.name],
         NEW c \in D!Contents, tree' = D!Put(s, p, c)
  PROVE  /\ TreeTyped'
         /\ tree'[s].is /\ tree'[s].has[p] = c /\ \A q \in Parts \ {p} : tree'[s].has[q] = tree[s].has[q]
         /\ \A t \in D!Slots \ {s} : tree'[t] = tree[t]
<1>1. s.name \in Names /\ p \in Parts BY Ends
<1>2. tree[s] \in Contained BY DEF TreeTyped
<1>3. tree'[s] = [is |-> TRUE, has |-> [tree[s].has EXCEPT ![p] = c]]
  BY <1>2 DEF D!Put, TreeTyped, Contained
<1>4. \A t \in D!Slots \ {s} : tree'[t] = tree[t] BY DEF D!Put, TreeTyped
<1>5. tree'[s] \in Contained BY <1>1, <1>2, <1>3 DEF Contained
<1>6. tree' \in [D!Slots -> Contained] BY <1>4, <1>5 DEF D!Put, TreeTyped
<1>7. tree'[s].is /\ tree'[s].has[p] = c /\ \A q \in Parts \ {p} : tree'[s].has[q] = tree[s].has[q]
  BY <1>1, <1>2, <1>3 DEF Contained
<1>8. TreeTyped'
  <2>1. ASSUME NEW t \in D!Slots, ~tree'[t].is PROVE tree'[t] = D!Empty
    <3>1. t # s BY <1>7, <2>1
    <3> QED BY <1>4, <2>1, <3>1 DEF TreeTyped
  <2>2. ASSUME NEW t \in D!Slots, NEW q \in Parts, tree'[t].has[q] # D!NoFile
        PROVE  tree'[t].is /\ q \in PartsOf[t.name]
    <3>1. CASE t # s BY <1>4, <2>2, <3>1 DEF TreeTyped
    <3>2. CASE t = s BY <1>1, <1>7, <2>2, <3>2 DEF TreeTyped
    <3> QED BY <3>1, <3>2
  <2> QED BY <1>6, <2>1, <2>2 DEF TreeTyped
<1> QED BY <1>4, <1>7, <1>8

LEMMA EmptyTyped ==
  ASSUME D!DisksAssumption, TreeTyped, NEW s \in D!Slots, tree' = [tree EXCEPT ![s] = D!Empty]
  PROVE  TreeTyped' /\ tree'[s] = D!Empty /\ \A t \in D!Slots \ {s} : tree'[t] = tree[t]
<1>1. tree'[s] = D!Empty /\ \A t \in D!Slots \ {s} : tree'[t] = tree[t] BY DEF TreeTyped
<1>2. tree' \in [D!Slots -> Contained] BY EmptyIs DEF TreeTyped
<1> QED BY <1>1, <1>2, EmptyIs DEF TreeTyped

LEMMA DirTyped ==
  ASSUME D!DisksAssumption, TreeTyped, NEW s \in D!Slots, tree' = [tree EXCEPT ![s].is = TRUE]
  PROVE  TreeTyped' /\ tree'[s].is /\ tree'[s].has = tree[s].has /\ \A t \in D!Slots \ {s} : tree'[t] = tree[t]
<1>1. tree[s] \in Contained BY DEF TreeTyped
<1>2. tree'[s] = [is |-> TRUE, has |-> tree[s].has] BY <1>1 DEF TreeTyped, Contained
<1>3. \A t \in D!Slots \ {s} : tree'[t] = tree[t] BY DEF TreeTyped
<1>4. tree' \in [D!Slots -> Contained] BY <1>1, <1>2, <1>3 DEF TreeTyped, Contained
<1>5. tree'[s].is /\ tree'[s].has = tree[s].has BY <1>2
<1>6. TreeTyped' BY <1>3, <1>4, <1>5 DEF TreeTyped
<1> QED BY <1>3, <1>5, <1>6

LEMMA MoveTyped ==
  ASSUME D!DisksAssumption, TreeTyped, NEW s \in D!Slots, NEW t \in D!Slots, s # t, s.name = t.name,
         tree' = [tree EXCEPT ![t] = tree[s], ![s] = D!Empty]
  PROVE  TreeTyped' /\ tree'[t] = tree[s] /\ tree'[s] = D!Empty /\ \A x \in D!Slots \ {s, t} : tree'[x] = tree[x]
<1>1. tree'[t] = tree[s] /\ tree'[s] = D!Empty /\ \A x \in D!Slots \ {s, t} : tree'[x] = tree[x]
  BY DEF TreeTyped
<1>2. tree' \in [D!Slots -> Contained] BY EmptyIs DEF TreeTyped
<1>3. TreeTyped' BY <1>1, <1>2, EmptyIs DEF TreeTyped
<1> QED BY <1>1, <1>3

LEMMA NewRow ==
  ASSUME D!DisksAssumption, ReqTyped, NEW r \in Asks,
         NEW m \in ReqRows, m.items # <<>>, ask' = [ask EXCEPT ![r] = m]
  PROVE  ReqTyped' /\ ask'[r] = m /\ ask'[r] # D!Idle /\ \A q \in Asks \ {r} : ask'[q] = ask[q]
  BY NotIdle DEF ReqTyped

LEMMA Nexts ==
  ASSUME D!DisksAssumption, ReqTyped, NEW r \in Asks, ask[r] # D!Idle, D!NextItem(r)
  PROVE  /\ ReqTyped' /\ \A q \in Asks \ {r} : ask'[q] = ask[q]
         /\ Len(ask[r].items) = 1 => ask'[r] = D!Idle
         /\ Len(ask[r].items) # 1 =>
              /\ ask'[r] # D!Idle /\ ask'[r].pc = "list" /\ ask'[r].todo = {} /\ ask'[r].items # ask[r].items
              /\ ask'[r].move = ask[r].move /\ ask'[r].policy = ask[r].policy /\ ask'[r].at = ask[r].at
              /\ \A i \in DOMAIN ask'[r].items :
                   i \in Nat \ {0} /\ i + 1 \in DOMAIN ask[r].items /\ ask'[r].items[i] = ask[r].items[i + 1]
<1>1. ask[r] \in ReqRows /\ ask[r].items \in Seq(Pairs) /\ Len(ask[r].items) \in Nat \ {0} BY ReqRow
<1>2. CASE Len(ask[r].items) = 1
  <2>1. ask' = [ask EXCEPT ![r] = D!Idle] BY <1>2 DEF D!NextItem, ReqTyped
  <2> QED BY <1>2, <2>1 DEF ReqTyped
<1>3. CASE Len(ask[r].items) # 1
  <2> DEFINE m == [ask[r] EXCEPT !.pc = "list", !.todo = {}, !.items = Tail(ask[r].items)]
  <2>1. ask' = [ask EXCEPT ![r] = m] BY <1>3 DEF D!NextItem, ReqTyped
  <2>2. Tail(ask[r].items) \in Seq(Pairs) /\ Len(Tail(ask[r].items)) = Len(ask[r].items) - 1
        /\ \A i \in 1 .. Len(ask[r].items) - 1 : Tail(ask[r].items)[i] = ask[r].items[i + 1]
    BY <1>1
  <2>3. m \in ReqRows BY <1>1, <2>2 DEF ReqRows
  <2>4. m.pc = "list" /\ m.todo = {} /\ m.items = Tail(ask[r].items)
        /\ m.move = ask[r].move /\ m.policy = ask[r].policy /\ m.at = ask[r].at
    BY <1>1 DEF ReqRows
  <2> HIDE DEF m
  <2>5. m.items # <<>>
    <3>1. Len(<<>>) = 0 OBVIOUS
    <3>2. Len(m.items) # 0 BY <1>1, <1>3, <2>2, <2>4
    <3> QED BY <3>1, <3>2
  <2>6. ReqTyped' /\ ask'[r] = m /\ ask'[r] # D!Idle /\ \A q \in Asks \ {r} : ask'[q] = ask[q]
    BY <2>1, <2>3, <2>5, NewRow
  <2>8. m.items # ask[r].items
    <3>1. Len(m.items) # Len(ask[r].items) BY <1>1, <2>2, <2>4
    <3> QED BY <3>1
  <2>7. \A i \in DOMAIN m.items : i \in Nat \ {0} /\ i + 1 \in DOMAIN ask[r].items /\ m.items[i] = ask[r].items[i + 1]
    BY <1>1, <2>2, <2>4
  <2> QED BY <1>3, <2>4, <2>6, <2>7, <2>8
<1> QED BY <1>2, <1>3

-----------------------------------------------------------------------------
(***************************************************************************)
(* The invariant.  Whoever is at work has claimed where it writes: the     *)
(* claims of two are apart, and so are they from what a move takes away.   *)
(***************************************************************************)
Place(s) == <<s.dir, s.name>>
Places(r) == IF ask[r] = D!Idle THEN {} ELSE {Place(ask[r].items[i].to) : i \in DOMAIN ask[r].items}
JobPlaces(j) == IF D!Alive(j) THEN {Place(job[j].to)} ELSE {}
Apart ==
  /\ \A r, q \in Asks : r # q => Places(r) \cap Places(q) = {}
  /\ \A r \in Asks, j \in Jobs : Places(r) \cap JobPlaces(j) = {}
  /\ \A i, j \in Jobs : i # j => JobPlaces(i) \cap JobPlaces(j) = {}
  /\ \A r \in D!Movers : /\ \A q \in Asks : Place(D!From(r)) \notin Places(q)
                         /\ \A j \in Jobs : Place(D!From(r)) \notin JobPlaces(j)

Shape(r) ==
  /\ ask[r].at <= writes
  /\ ask[r].move \/ ask[r].pc \in {"choose", "rename"} => Len(ask[r].items) = 1
  /\ ask[r].pc = "rename" => ask[r].move

\* What is written to is not there yet, unless it may be.
Renaming(r) == ask[r].policy = "rename"
Careful(r) == Renaming(r) \/ (ask[r].policy = "skip" /\ ask[r].move)
Unused(r) ==
  /\ ask[r].pc = "rename" /\ ask[r].policy # "overwrite" => ~tree[D!To(r)].is
  /\ Careful(r) /\ ask[r].pc = "list" => ~tree[D!To(r)].is
  /\ Careful(r) /\ ask[r].pc = "copy" => \A p \in ask[r].todo : tree[D!To(r)].has[p] = D!NoFile
  /\ Renaming(r) => \A i, k \in DOMAIN ask[r].items :
       i # k => ask[r].items[i].to # ask[r].items[k].to /\ (i > 1 => ~tree[ask[r].items[i].to].is)

\* What a move has copied so far of what was there when it began.
Copied(r) ==
  ask[r].move /\ ask[r].pc = "copy" =>
    \A p \in Parts : tree[D!From(r)].has[p] \in 0 .. ask[r].at =>
      p \in ask[r].todo \/ tree[D!To(r)].has[p] = tree[D!From(r)].has[p]

ReqOK(r) == ask[r] # D!Idle => Shape(r) /\ Unused(r) /\ Copied(r)

JobOK(j) ==
  D!Alive(j) =>
    /\ job[j].pc \in {"name", "list"} => \A p \in Parts : job[j].read[p] = D!NoFile
    /\ job[j].pc = "list" => ~tree[job[j].to].is
    /\ job[j].pc = "copy" => \A p \in job[j].todo : tree[job[j].to].has[p] = D!NoFile
    /\ ~job[j].failed => \A p \in Parts : job[j].read[p] # D!NoFile => tree[job[j].to].has[p] = job[j].read[p]

DiskInv == Apart /\ (\A r \in Asks : ReqOK(r)) /\ (\A j \in Jobs : JobOK(j))

-----------------------------------------------------------------------------
LEMMA Claims ==
  ASSUME D!DisksAssumption, ReqTyped, NEW r \in Asks, ask[r] # D!Idle
  PROVE  Place(D!To(r)) \in Places(r)
         /\ \A i \in DOMAIN ask[r].items : Place(ask[r].items[i].to) \in Places(r) /\ ask[r].items[i].to \in D!Slots
<1>1. 1 \in DOMAIN ask[r].items /\ \A i \in DOMAIN ask[r].items : ask[r].items[i] \in Pairs
  BY ReqRow
<1> QED BY <1>1, FromTo DEF Places, Pairs, D!Items

\* A request that is left alone, and an end of a move that only grows newer or less.
LEMMA ReqStays ==
  ASSUME D!DisksAssumption, TypeInv, NEW r \in Asks,
         ReqOK(r), ask'[r] = ask[r], writes' \in Nat, writes <= writes',
         \A s \in D!Slots : Place(s) \in Places(r) => tree'[s] = tree[s],
         r \in D!Movers => \A p \in Parts : \/ tree'[D!From(r)].has[p] = tree[D!From(r)].has[p]
                                            \/ tree'[D!From(r)].has[p] \notin 0 .. ask[r].at
  PROVE  ReqOK(r)'
<1> SUFFICES ASSUME ask[r] # D!Idle PROVE (Shape(r) /\ Unused(r) /\ Copied(r))'
  BY DEF ReqOK
<1> USE DEF TypeInv
<1>1. Shape(r) /\ Unused(r) /\ Copied(r) BY DEF ReqOK
<1>2. D!To(r)' = D!To(r) /\ D!From(r)' = D!From(r) BY DEF D!To, D!From, D!Work
<1>3. tree'[D!To(r)] = tree[D!To(r)] BY Claims, FromTo
<1>4. \A i \in DOMAIN ask[r].items : tree'[ask[r].items[i].to] = tree[ask[r].items[i].to] BY Claims
<1>5. ask[r] \in ReqRows /\ ask[r].at \in Nat BY ReqRow DEF ReqRows
<1>6. Shape(r)' BY <1>1, <1>5 DEF Shape, Bounds
<1>7. Unused(r)' BY <1>1, <1>2, <1>3, <1>4 DEF Unused, Careful, Renaming
<1>8. Copied(r)' BY <1>1, <1>2, <1>3 DEF Copied, D!Movers
<1> QED BY <1>6, <1>7, <1>8

LEMMA JobStays ==
  ASSUME D!DisksAssumption, TypeInv, NEW j \in Jobs, JobOK(j),
         D!Alive(j)' => /\ D!Alive(j) /\ job'[j].pc = job[j].pc /\ job'[j].to = job[j].to
                        /\ job'[j].todo = job[j].todo /\ job'[j].read = job[j].read /\ job'[j].failed = job[j].failed,
         \A s \in D!Slots : Place(s) \in JobPlaces(j) => tree'[s] = tree[s]
  PROVE  JobOK(j)'
<1> SUFFICES ASSUME D!Alive(j)' PROVE JobOK(j)' BY DEF JobOK
<1>1. job[j] \in JobRows BY DEF TypeInv, JobTyped, D!Alive, D!NoJob
<1>2. tree'[job[j].to] = tree[job[j].to] BY <1>1 DEF JobPlaces, JobRows
<1> QED BY <1>2 DEF JobOK

LEMMA ApartNarrows ==
  ASSUME D!DisksAssumption,
         Apart, \A r \in Asks : Places(r)' \subseteq Places(r), \A j \in Jobs : JobPlaces(j)' \subseteq JobPlaces(j),
         \A r \in D!Movers' : r \in D!Movers /\ D!From(r)' = D!From(r)
  PROVE  Apart'
<1>1. (\A r, q \in Asks : r # q => Places(r) \cap Places(q) = {})' BY DEF Apart
<1>2. (\A r \in Asks, j \in Jobs : Places(r) \cap JobPlaces(j) = {})' BY DEF Apart
<1>3. (\A i, j \in Jobs : i # j => JobPlaces(i) \cap JobPlaces(j) = {})' BY DEF Apart
<1>4. \A r \in D!Movers' : Place(D!From(r))' = Place(D!From(r)) BY DEF Place
<1>5. (\A r \in D!Movers : /\ \A q \in Asks : Place(D!From(r)) \notin Places(q)
                         /\ \A j \in Jobs : Place(D!From(r)) \notin JobPlaces(j))'
  BY <1>4 DEF Apart
<1> QED BY <1>1, <1>2, <1>3, <1>5 DEF Apart

\* A request goes on: it writes within its claim, or empties what it moves.
Advances(r) ==
  /\ \A q \in Asks \ {r} : ask'[q] = ask[q]
  /\ UNCHANGED <<job, cancel, writes>>
  /\ Places(r)' \subseteq Places(r)
  /\ ask'[r] # D!Idle /\ ask'[r].move => ask[r].move /\ D!From(r)' = D!From(r)
  /\ \A s \in D!Slots : \/ tree'[s] = tree[s] \/ Place(s) \in Places(r)
                        \/ r \in D!Movers /\ s = D!From(r) /\ tree'[s] = D!Empty

LEMMA RequestGoesOn ==
  ASSUME D!DisksAssumption, TypeInv, DiskInv, NEW r \in Asks, ask[r] # D!Idle, Advances(r),
         ReqOK(r)'
  PROVE  DiskInv'
<1> USE DEF TypeInv
<1>1. ASSUME NEW q \in Asks PROVE Places(q)' \subseteq Places(q)
  <2>1. CASE q = r BY <2>1 DEF Advances
  <2>2. CASE q # r BY <2>2 DEF Advances, Places
  <2> QED BY <2>1, <2>2
<1>2. \A j \in Jobs : JobPlaces(j)' = JobPlaces(j) BY DEF Advances, JobPlaces, D!Alive
<1>3. \A q \in D!Movers' : q \in D!Movers /\ D!From(q)' = D!From(q)
  BY DEF Advances, D!Movers, D!From, D!Work
<1>4. Apart' BY <1>1, <1>2, <1>3, ApartNarrows DEF DiskInv
<1>5. ASSUME NEW q \in Asks, q # r PROVE ReqOK(q)'
  <2>1. ask'[q] = ask[q] /\ ReqOK(q) BY <1>5 DEF Advances, DiskInv
  <2>2. \A s \in D!Slots : Place(s) \in Places(q) => tree'[s] = tree[s]
    BY <1>5 DEF Advances, DiskInv, Apart
  <2>3. q \in D!Movers => \A p \in Parts : \/ tree'[D!From(q)].has[p] = tree[D!From(q)].has[p]
                                           \/ tree'[D!From(q)].has[p] \notin 0 .. ask[q].at
    <3> SUFFICES ASSUME q \in D!Movers, NEW p \in Parts, tree'[D!From(q)].has[p] # tree[D!From(q)].has[p]
                 PROVE  tree'[D!From(q)].has[p] = D!NoFile
      BY ReqRow DEF D!NoFile, ReqRows, D!Movers
    <3>1. D!From(q) \in D!Slots BY FromTo DEF D!Movers
    <3>2. Place(D!From(q)) \notin Places(r) BY DEF DiskInv, Apart
    <3> QED BY <3>1, <3>2, EmptyIs DEF Advances
  <2> QED BY <2>1, <2>2, <2>3, ReqStays DEF Advances, Bounds
<1>6. ASSUME NEW j \in Jobs PROVE JobOK(j)'
  <2>1. \A s \in D!Slots : Place(s) \in JobPlaces(j) => tree'[s] = tree[s]
    BY DEF Advances, DiskInv, Apart
  <2>2. job' = job /\ JobOK(j) BY DEF Advances, DiskInv
  <2> QED BY <2>1, <2>2, JobStays DEF D!Alive
<1> QED BY <1>4, <1>5, <1>6 DEF DiskInv
-----------------------------------------------------------------------------
(***************************************************************************)
(* What each step of a request does.                                       *)
(***************************************************************************)
LEMMA Busy ==
  ASSUME D!DisksAssumption, NEW r, NEW pc \in {"choose", "rename", "list", "copy"}, D!At(r, pc)
  PROVE  ask[r] # D!Idle /\ ask[r].pc = pc
  BY DEF D!At, D!Idle

LEMMA SameItems ==
  ASSUME D!DisksAssumption,
         NEW r \in Asks, ask[r] # D!Idle, ask'[r] # D!Idle, ask'[r].items = ask[r].items
  PROVE  D!To(r)' = D!To(r) /\ D!From(r)' = D!From(r) /\ Places(r)' = Places(r)
  BY DEF D!To, D!From, D!Work, Places

\* What a move takes away is at the destination.
MovedAll(r) ==
  LET s == D!From(r) IN
  ask[r].move /\ tree[s].is /\ ~tree'[s].is =>
    \A p \in Parts : tree[s].has[p] \in 0 .. ask[r].at => tree'[D!To(r)].has[p] = tree[s].has[p]

Carries(r) ==
  /\ TreeTyped' /\ ReqTyped' /\ Advances(r) /\ ReqOK(r)' /\ ask'[r] # ask[r]
  /\ \A s \in D!Slots, p \in Parts : D!Writing(s, p) => ask[r].policy = "overwrite"
  /\ MovedAll(r)

LEMMA SourceApart ==
  ASSUME D!DisksAssumption, TypeInv, DiskInv, NEW r \in Asks, ask[r] # D!Idle, ask[r].move
  PROVE  D!From(r) # D!To(r) /\ r \in D!Movers
  BY Claims DEF DiskInv, Apart, D!Movers, TypeInv

\* Changes that are within what the request's item is about.
Within(r) ==
  \A s \in D!Slots : tree'[s] = tree[s] \/ s = D!To(r) \/ (r \in D!Movers /\ s = D!From(r) /\ tree'[s] = D!Empty)

LEMMA NextGoes ==
  ASSUME D!DisksAssumption, TypeInv, DiskInv, NEW r \in Asks, ask[r] # D!Idle, D!NextItem(r),
         UNCHANGED <<job, cancel, writes>>, Within(r)
  PROVE  ReqTyped' /\ Advances(r) /\ ReqOK(r)' /\ ask'[r] # ask[r]
<1> USE DEF TypeInv
<1>1. Shape(r) /\ Unused(r) /\ Place(D!To(r)) \in Places(r) BY Claims DEF DiskInv, ReqOK
<1>2. \A s \in D!Slots : \/ tree'[s] = tree[s] \/ Place(s) \in Places(r)
                         \/ r \in D!Movers /\ s = D!From(r) /\ tree'[s] = D!Empty
  BY <1>1 DEF Within
<1>3. CASE Len(ask[r].items) = 1
  <2>1. ask'[r] = D!Idle /\ ReqTyped' /\ \A q \in Asks \ {r} : ask'[q] = ask[q] BY <1>3, Nexts
  <2>2. Places(r)' = {} /\ ReqOK(r)' BY <2>1 DEF Places, ReqOK
  <2> QED BY <1>2, <2>1, <2>2 DEF Advances
<1>4. CASE Len(ask[r].items) # 1
  <2>1. /\ ReqTyped' /\ ask'[r] # D!Idle /\ ask'[r].pc = "list" /\ ask'[r].items # ask[r].items
        /\ ask'[r].move = ask[r].move /\ ask'[r].policy = ask[r].policy /\ ask'[r].at = ask[r].at
        /\ \A q \in Asks \ {r} : ask'[q] = ask[q]
    BY <1>4, Nexts
  <2>2. \A i \in DOMAIN ask'[r].items :
           i \in Nat \ {0} /\ i + 1 \in DOMAIN ask[r].items /\ ask'[r].items[i] = ask[r].items[i + 1]
    BY <1>4, Nexts
  <2>3. ~ask[r].move BY <1>1, <1>4 DEF Shape
  <2>4. Places(r)' \subseteq Places(r) BY <2>1, <2>2 DEF Places
  <2>5. Advances(r) BY <1>2, <2>1, <2>3, <2>4 DEF Advances
  <2>6. D!To(r)' = ask'[r].items[1].to /\ 1 \in DOMAIN ask'[r].items
    <3>2. ask'[r].items \in Seq(Pairs) /\ ask'[r].items # <<>> BY <2>1 DEF ReqTyped, ReqRows
    <3> QED BY <3>2 DEF D!To, D!Work
  <2>7. D!To(r) = ask[r].items[1].to /\ 1 \in DOMAIN ask[r].items BY FromTo, ReqRow
  <2>8. ASSUME ask[r].policy = "rename"
        PROVE  \A i, k \in DOMAIN ask'[r].items :
                 ~tree'[ask'[r].items[i].to].is /\ (i # k => ask'[r].items[i].to # ask'[r].items[k].to)
    <3> SUFFICES ASSUME NEW i \in DOMAIN ask'[r].items, NEW k \in DOMAIN ask'[r].items
                 PROVE  ~tree'[ask'[r].items[i].to].is /\ (i # k => ask'[r].items[i].to # ask'[r].items[k].to)
      OBVIOUS
    <3>1. /\ i \in Nat \ {0} /\ i + 1 \in DOMAIN ask[r].items /\ ask'[r].items[i] = ask[r].items[i + 1]
          /\ k \in Nat \ {0} /\ k + 1 \in DOMAIN ask[r].items /\ ask'[r].items[k] = ask[r].items[k + 1]
      BY <2>2
    <3>2. i + 1 # 1 /\ i + 1 > 1 /\ (i # k => i + 1 # k + 1) BY <3>1
    <3>3. ask[r].items[i + 1].to # D!To(r) /\ ~tree[ask[r].items[i + 1].to].is
          /\ (i # k => ask[r].items[i + 1].to # ask[r].items[k + 1].to)
      BY <1>1, <2>7, <2>8, <3>1, <3>2 DEF Unused, Renaming
    <3>4. ask[r].items[i + 1].to \in D!Slots BY <3>1, Claims
    <3>5. tree'[ask[r].items[i + 1].to] = tree[ask[r].items[i + 1].to]
      BY <2>3, <3>3, <3>4 DEF Within, D!Movers
    <3> QED BY <3>1, <3>3, <3>5
  <2>9. Shape(r)' BY <1>1, <2>1, <2>3 DEF Shape
  <2>10. Unused(r)' BY <2>1, <2>3, <2>6, <2>8 DEF Unused, Careful, Renaming
  <2>11. Copied(r)' BY <2>1 DEF Copied
  <2> QED BY <2>1, <2>5, <2>9, <2>10, <2>11 DEF ReqOK
<1> QED BY <1>3, <1>4
\* A step that leaves the disks alone and ends the item.
LEMMA SkipsItem ==
  ASSUME D!DisksAssumption, TypeInv, DiskInv, NEW r \in Asks, ask[r] # D!Idle, D!NextItem(r),
         UNCHANGED <<tree, job, cancel, writes>>
  PROVE  Carries(r)
<1>1. ReqTyped' /\ Advances(r) /\ ReqOK(r)' /\ ask'[r] # ask[r] BY NextGoes DEF Within
<1>2. TreeTyped' BY DEF TypeInv, TreeTyped
<1> QED BY <1>1, <1>2 DEF Carries, D!Writing, MovedAll

LEMMA NewPc ==
  ASSUME D!DisksAssumption, ReqTyped, NEW r \in Asks, ask[r] # D!Idle,
         NEW pc \in {"choose", "rename", "list", "copy"},
         ask[r].pc # pc, D!Goto(r, pc)
  PROVE  /\ ReqTyped' /\ ask'[r] # D!Idle /\ ask'[r] # ask[r] /\ \A q \in Asks \ {r} : ask'[q] = ask[q]
         /\ ask'[r].pc = pc /\ ask'[r].items = ask[r].items /\ ask'[r].move = ask[r].move
         /\ ask'[r].policy = ask[r].policy /\ ask'[r].at = ask[r].at /\ ask'[r].todo = ask[r].todo
<1> DEFINE m == [ask[r] EXCEPT !.pc = pc]
<1>1. ask[r] \in ReqRows /\ ask[r].items # <<>> BY ReqRow DEF ReqTyped
<1>2. m \in ReqRows /\ m.pc = pc /\ m.items = ask[r].items /\ m.move = ask[r].move
      /\ m.policy = ask[r].policy /\ m.at = ask[r].at /\ m.todo = ask[r].todo
  BY <1>1 DEF ReqRows
<1>3. ask' = [ask EXCEPT ![r] = m] BY DEF D!Goto
<1> HIDE DEF m
<1> QED BY <1>1, <1>2, <1>3, NewRow

LEMMA OneItem ==
  ASSUME D!DisksAssumption, ReqTyped, NEW r \in Asks, ask[r] # D!Idle, Len(ask[r].items) = 1
  PROVE  DOMAIN ask[r].items = {1} /\ Places(r) = {Place(D!To(r))}
<1>1. DOMAIN ask[r].items = {1} BY ReqRow
<1> QED BY <1>1, FromTo DEF Places

LEMMA ChooseCarries ==
  ASSUME D!DisksAssumption, TypeInv, DiskInv, NEW r \in Asks, D!Choose(r)
  PROVE  Carries(r)
<1> USE DEF TypeInv
<1> DEFINE after == IF ask[r].move THEN "rename" ELSE "list"
<1>1. ask[r] # D!Idle /\ ask[r].pc = "choose" BY Busy DEF D!Choose
<1>2. Shape(r) /\ Len(ask[r].items) = 1 /\ DOMAIN ask[r].items = {1} /\ Places(r) = {Place(D!To(r))} /\ D!To(r) \in D!Slots
  BY <1>1, OneItem, FromTo DEF DiskInv, ReqOK, Shape
<1>3. UNCHANGED <<job, cancel, writes>> BY DEF D!Choose, D!counters
<1>4. ASSUME ~tree[D!To(r)].is \/ ask[r].policy = "overwrite", D!Goto(r, after),
             tree' = tree \/ (ask[r].policy = "overwrite" /\ tree' = [tree EXCEPT ![D!To(r)] = D!Empty])
      PROVE  Carries(r)
  <2>1. /\ ReqTyped' /\ ask'[r] # D!Idle /\ ask'[r] # ask[r] /\ \A q \in Asks \ {r} : ask'[q] = ask[q]
        /\ ask'[r].pc = after /\ ask'[r].items = ask[r].items /\ ask'[r].move = ask[r].move
        /\ ask'[r].policy = ask[r].policy /\ ask'[r].at = ask[r].at
    BY <1>1, <1>4, NewPc
  <2>2. D!To(r)' = D!To(r) /\ D!From(r)' = D!From(r) /\ Places(r)' = Places(r)
    BY <1>1, <2>1, SameItems
  <2>3. TreeTyped' /\ \A s \in D!Slots : tree'[s] = tree[s] \/ (s = D!To(r) /\ tree'[s] = D!Empty)
    BY <1>2, <1>4, EmptyTyped DEF TreeTyped
  <2>4. Advances(r) BY <1>2, <1>3, <2>1, <2>2, <2>3 DEF Advances
  <2>5. Shape(r)' BY <1>2, <1>3, <2>1 DEF Shape
  <2>6. Unused(r)' BY <1>1, <1>2, <1>4, <2>1, <2>2 DEF Unused, Careful, Renaming
  <2>7. Copied(r)' BY <2>1 DEF Copied
  <2>8. \A s \in D!Slots, p \in Parts : ~D!Writing(s, p) BY <2>3, EmptyIs DEF D!Writing
  <2>9. MovedAll(r) BY <1>1, <2>3, SourceApart, FromTo DEF MovedAll
  <2> QED BY <2>1, <2>3, <2>4, <2>5, <2>6, <2>7, <2>8, <2>9 DEF Carries, ReqOK
<1>5. ASSUME D!NextItem(r), UNCHANGED tree PROVE Carries(r) BY <1>1, <1>3, <1>5, SkipsItem
<1>6. ASSUME NEW t \in D!Slots, D!IsNextFree(t, D!To(r), {}), ask[r].policy = "rename", UNCHANGED tree,
             ask' = [ask EXCEPT ![r].pc = after, ![r].items[1].to = t]
      PROVE  Carries(r)
  <2> DEFINE items == [ask[r].items EXCEPT ![1].to = t]
             m == [ask[r] EXCEPT !.pc = after, !.items = items]
  <2>1. ask[r] \in ReqRows /\ ask[r].items \in Seq(Pairs) /\ ask[r].items[1] \in Pairs
    BY <1>1, <1>2, ReqRow
  <2>2. D!Same(D!To(r), t) /\ ~tree[t].is /\ D!To(r) = ask[r].items[1].to /\ D!From(r) = ask[r].items[1].from
    BY <1>1, <1>6, FromTo DEF D!IsNextFree, D!FreeNames
  <2>3. [ask[r].items[1] EXCEPT !.to = t] \in Pairs BY <2>1, <2>2 DEF Pairs, D!Items, D!Same
  <2>4. items \in Seq(Pairs) /\ Len(items) = 1 /\ items[1].to = t /\ items[1].from = ask[r].items[1].from
    BY <1>2, <2>1, <2>3 DEF Pairs, D!Items
  <2>5. ask' = [ask EXCEPT ![r] = m] BY <1>6, <2>1 DEF ReqTyped, ReqRows
  <2>6. m \in ReqRows /\ m.pc = after /\ m.items = items /\ m.move = ask[r].move
        /\ m.policy = ask[r].policy /\ m.at = ask[r].at /\ m.pc # ask[r].pc
    BY <1>1, <2>1, <2>4 DEF ReqRows
  <2> HIDE DEF m, items
  <2>7. m.items # <<>>
    <3>1. Len(<<>>) # 1 OBVIOUS
    <3> QED BY <2>4, <2>6, <3>1
  <2>8. ReqTyped' /\ ask'[r] = m /\ ask'[r] # D!Idle /\ \A q \in Asks \ {r} : ask'[q] = ask[q]
    BY <2>5, <2>6, <2>7, NewRow
  <2>9. D!To(r)' = t /\ D!From(r)' = D!From(r) /\ DOMAIN ask'[r].items = {1}
    <3>1. Head(items) = items[1] /\ DOMAIN items = {1} BY <2>4
    <3> QED BY <2>2, <2>4, <2>6, <2>8, <3>1 DEF D!To, D!From, D!Work
  <2>10. Places(r)' = {Place(t)} BY <2>4, <2>6, <2>8, <2>9 DEF Places
  <2>11. Places(r)' \subseteq Places(r) BY <1>2, <2>2, <2>10 DEF Place, D!Same
  <2>12. Advances(r) BY <1>3, <1>6, <2>6, <2>8, <2>9, <2>11 DEF Advances
  <2>13. Shape(r)' BY <1>2, <1>3, <2>4, <2>6, <2>8 DEF Shape
  <2>14. Unused(r)'
    <3>1. (~tree[D!To(r)].is)' /\ ask'[r].pc # "copy" BY <1>6, <2>2, <2>6, <2>8, <2>9
    <3>2. \A i, k \in DOMAIN ask'[r].items : i = k BY <2>9
    <3> QED BY <3>1, <3>2 DEF Unused, Careful, Renaming
  <2>15. Copied(r)' BY <2>6, <2>8 DEF Copied
  <2>16. TreeTyped' BY <1>6 DEF TreeTyped
  <2>17. \A s \in D!Slots, p \in Parts : ~D!Writing(s, p) BY <1>6 DEF D!Writing
  <2>18. MovedAll(r) BY <1>6 DEF MovedAll
  <2> QED BY <2>6, <2>8, <2>12, <2>13, <2>14, <2>15, <2>16, <2>17, <2>18 DEF Carries, ReqOK
<1> QED BY <1>4, <1>5, <1>6 DEF D!Choose
LEMMA RenameCarries ==
  ASSUME D!DisksAssumption, TypeInv, DiskInv, NEW r \in Asks, D!RenameStep(r)
  PROVE  Carries(r)
<1> USE DEF TypeInv
<1>1. ask[r] # D!Idle /\ ask[r].pc = "rename" BY Busy DEF D!RenameStep
<1>2. Shape(r) /\ Unused(r) /\ Len(ask[r].items) = 1 /\ DOMAIN ask[r].items = {1} /\ ask[r].move
      /\ D!From(r) # D!To(r) /\ r \in D!Movers
      /\ D!To(r) \in D!Slots /\ D!From(r) \in D!Slots /\ D!To(r).name = D!From(r).name
  BY <1>1, OneItem, FromTo, SourceApart DEF DiskInv, ReqOK, Shape
<1>3. UNCHANGED <<job, cancel, writes>> BY DEF D!RenameStep, D!counters
<1>4. ASSUME tree' = [tree EXCEPT ![D!To(r)] = tree[D!From(r)], ![D!From(r)] = D!Empty], D!NextItem(r) PROVE Carries(r)
  <2>1. TreeTyped' /\ tree'[D!To(r)] = tree[D!From(r)] /\ tree'[D!From(r)] = D!Empty
        /\ \A x \in D!Slots \ {D!From(r), D!To(r)} : tree'[x] = tree[x]
    BY <1>2, <1>4, MoveTyped
  <2>2. ReqTyped' /\ Advances(r) /\ ReqOK(r)' /\ ask'[r] # ask[r]
    BY <1>1, <1>2, <1>3, <1>4, <2>1, NextGoes DEF Within
  <2>3. \A s \in D!Slots, p \in Parts : D!Writing(s, p) => ask[r].policy = "overwrite"
    <3> SUFFICES ASSUME NEW s \in D!Slots, NEW p \in Parts, D!Writing(s, p), ask[r].policy # "overwrite" PROVE FALSE
      OBVIOUS
    <3>1. tree[D!To(r)] = D!Empty BY <1>1, <1>2 DEF Unused, TreeTyped
    <3>2. s # D!From(r) /\ s # D!To(r) BY <2>1, <3>1, EmptyIs DEF D!Writing
    <3> QED BY <2>1, <3>2 DEF D!Writing
  <2>4. MovedAll(r) BY <2>1 DEF MovedAll
  <2> QED BY <2>1, <2>2, <2>3, <2>4 DEF Carries
<1>5. ASSUME D!NextItem(r), UNCHANGED tree PROVE Carries(r) BY <1>1, <1>3, <1>5, SkipsItem
<1>6. ASSUME D!Goto(r, "list"), UNCHANGED tree PROVE Carries(r)
  <2>1. /\ ReqTyped' /\ ask'[r] # D!Idle /\ ask'[r] # ask[r] /\ \A q \in Asks \ {r} : ask'[q] = ask[q]
        /\ ask'[r].pc = "list" /\ ask'[r].items = ask[r].items /\ ask'[r].move = ask[r].move
        /\ ask'[r].policy = ask[r].policy /\ ask'[r].at = ask[r].at
    BY <1>1, <1>6, NewPc
  <2>2. D!To(r)' = D!To(r) /\ D!From(r)' = D!From(r) /\ Places(r)' = Places(r)
    BY <1>1, <2>1, SameItems
  <2>4. Advances(r) BY <1>3, <1>6, <2>1, <2>2 DEF Advances
  <2>5. Shape(r)' BY <1>2, <1>3, <2>1 DEF Shape
  <2>6. Unused(r)' BY <1>1, <1>2, <1>6, <2>1, <2>2 DEF Unused, Careful, Renaming
  <2>7. Copied(r)' BY <2>1 DEF Copied
  <2>8. TreeTyped' /\ MovedAll(r) /\ \A s \in D!Slots, p \in Parts : ~D!Writing(s, p)
    BY <1>6 DEF TreeTyped, MovedAll, D!Writing
  <2> QED BY <2>1, <2>4, <2>5, <2>6, <2>7, <2>8 DEF Carries, ReqOK
<1> QED BY <1>4, <1>5, <1>6 DEF D!RenameStep

\* An item is at work on a file that is there: what is left to do gets less.
LEMMA NewTodo ==
  ASSUME D!DisksAssumption, ReqTyped, NEW r \in Asks, ask[r] # D!Idle, NEW T \in SUBSET Parts,
         ask' = [ask EXCEPT ![r].pc = "copy", ![r].todo = T] \/ (ask[r].pc = "copy" /\ ask' = [ask EXCEPT ![r].todo = T])
  PROVE  /\ ReqTyped' /\ ask'[r] # D!Idle /\ \A q \in Asks \ {r} : ask'[q] = ask[q]
         /\ ask'[r].pc = "copy" /\ ask'[r].items = ask[r].items /\ ask'[r].move = ask[r].move
         /\ ask'[r].policy = ask[r].policy /\ ask'[r].at = ask[r].at /\ ask'[r].todo = T
<1> DEFINE m == [ask[r] EXCEPT !.pc = "copy", !.todo = T]
<1>1. ask[r] \in ReqRows /\ ask[r].items # <<>> BY ReqRow DEF ReqTyped
<1>2. m \in ReqRows /\ m.pc = "copy" /\ m.items = ask[r].items /\ m.move = ask[r].move
      /\ m.policy = ask[r].policy /\ m.at = ask[r].at /\ m.todo = T
  BY <1>1 DEF ReqRows
<1>3. ask' = [ask EXCEPT ![r] = m]
  <2>1. CASE ask' = [ask EXCEPT ![r].pc = "copy", ![r].todo = T] BY <1>1, <2>1 DEF ReqTyped, ReqRows
  <2>2. CASE ask[r].pc = "copy" /\ ask' = [ask EXCEPT ![r].todo = T]
    <3>1. [ask[r] EXCEPT !.todo = T] = m BY <1>1, <2>2 DEF ReqRows
    <3>2. ask' = [ask EXCEPT ![r] = [ask[r] EXCEPT !.todo = T]] BY <2>2 DEF ReqTyped
    <3> QED BY <3>1, <3>2
  <2> QED BY <2>1, <2>2
<1> HIDE DEF m
<1> QED BY <1>1, <1>2, <1>3, NewRow

LEMMA ListCarries ==
  ASSUME D!DisksAssumption, TypeInv, DiskInv, NEW r \in Asks, D!ListFiles(r)
  PROVE  Carries(r)
<1> USE DEF TypeInv
<1>1. ask[r] # D!Idle /\ ask[r].pc = "list" BY Busy DEF D!ListFiles
<1>2. Shape(r) /\ Unused(r) /\ D!To(r) \in D!Slots /\ D!From(r) \in D!Slots /\ D!To(r) = ask[r].items[1].to
      /\ Place(D!To(r)) \in Places(r) /\ 1 \in DOMAIN ask[r].items /\ DOMAIN ask[r].items = 1 .. Len(ask[r].items)
  BY <1>1, FromTo, Claims, ReqRow DEF DiskInv, ReqOK
<1>3. UNCHANGED <<job, cancel, writes>> BY DEF D!ListFiles, D!counters
<1>4. CASE ~tree[D!From(r)].is BY <1>1, <1>3, <1>4, SkipsItem DEF D!ListFiles
<1>5. CASE tree[D!From(r)].is
  <2> DEFINE T == D!Listed(D!From(r))
  <2>1. T \in SUBSET Parts BY <1>2, Ends DEF D!Listed
  <2>2. /\ ReqTyped' /\ ask'[r] # D!Idle /\ \A q \in Asks \ {r} : ask'[q] = ask[q]
        /\ ask'[r].pc = "copy" /\ ask'[r].items = ask[r].items /\ ask'[r].move = ask[r].move
        /\ ask'[r].policy = ask[r].policy /\ ask'[r].at = ask[r].at /\ ask'[r].todo = T
    <3>1. ask' = [ask EXCEPT ![r].pc = "copy", ![r].todo = T] BY <1>5 DEF D!ListFiles
    <3> HIDE DEF T
    <3> QED BY <1>1, <2>1, <3>1, NewTodo
  <2>3. D!To(r)' = D!To(r) /\ D!From(r)' = D!From(r) /\ Places(r)' = Places(r)
    BY <1>1, <2>2, SameItems
  <2>4. TreeTyped' /\ (\A s \in D!Slots : tree'[s] = tree[s] \/ s = D!To(r))
        /\ \A s \in D!Slots : tree'[s].has = tree[s].has /\ (tree[s].is => tree'[s].is)
    <3>1. tree' = [tree EXCEPT ![D!To(r)].is = TRUE] \/ tree' = tree BY <1>5 DEF D!ListFiles
    <3> QED BY <1>2, <3>1, DirTyped DEF TreeTyped
  <2>5. Advances(r) BY <1>2, <1>3, <2>2, <2>3, <2>4 DEF Advances
  <2>6. Shape(r)' BY <1>2, <1>3, <2>2 DEF Shape
  <2>7. Unused(r)'
    <3>1. Careful(r) => \A p \in Parts : (tree[D!To(r)].has[p] = D!NoFile)'
      <4> SUFFICES ASSUME Careful(r), NEW p \in Parts PROVE tree'[D!To(r)].has[p] = D!NoFile BY <2>3
      <4>1. tree'[D!To(r)].has = tree[D!To(r)].has BY <1>2, <2>4
      <4>2. ~tree[D!To(r)].is BY <1>1, <1>2 DEF Unused
      <4>3. tree[D!To(r)] = D!Empty BY <1>2, <4>2 DEF TreeTyped
      <4> QED BY <4>1, <4>3, EmptyIs
    <3>2. Renaming(r) => \A i, k \in DOMAIN ask[r].items : i # k => 
             ask[r].items[i].to # ask[r].items[k].to /\ (i > 1 => ~tree'[ask[r].items[i].to].is)
      <4> SUFFICES ASSUME Renaming(r), NEW i \in DOMAIN ask[r].items, NEW k \in DOMAIN ask[r].items, i # k
                   PROVE  ask[r].items[i].to # ask[r].items[k].to /\ (i > 1 => ~tree'[ask[r].items[i].to].is)
        OBVIOUS
      <4>1. ask[r].items[i].to # ask[r].items[k].to /\ (i > 1 => ~tree[ask[r].items[i].to].is)
        BY <1>2 DEF Unused
      <4>2. i > 1 => ask[r].items[i].to # D!To(r) /\ ask[r].items[i].to \in D!Slots
        BY <1>1, <1>2, Claims DEF Unused
      <4> QED BY <2>4, <4>1, <4>2
    <3> QED BY <2>1, <2>2, <3>1, <3>2 DEF Unused, Careful, Renaming
  <2>8. Copied(r)'
    <3> SUFFICES ASSUME NEW p \in Parts, tree[D!From(r)].has[p] \in 0 .. ask[r].at PROVE p \in T
      BY <1>2, <2>2, <2>3, <2>4 DEF Copied
    <3> QED BY <1>2 DEF D!Listed, TreeTyped, D!NoFile
  <2>9. \A s \in D!Slots, p \in Parts : ~D!Writing(s, p) BY <2>4 DEF D!Writing
  <2>10. MovedAll(r) BY <1>2, <2>4 DEF MovedAll
  <2> QED BY <1>1, <2>2, <2>4, <2>5, <2>6, <2>7, <2>8, <2>9, <2>10 DEF Carries, ReqOK
<1> QED BY <1>4, <1>5

LEMMA CopyCarries ==
  ASSUME D!DisksAssumption, TypeInv, DiskInv, NEW r \in Asks, NEW p \in Parts, D!CopyFile(r, p)
  PROVE  Carries(r)
<1> USE DEF TypeInv
<1>1. ask[r] # D!Idle /\ ask[r].pc = "copy" /\ p \in ask[r].todo BY Busy DEF D!CopyFile
<1>2. Shape(r) /\ Unused(r) /\ Copied(r) /\ D!To(r) \in D!Slots /\ D!From(r) \in D!Slots /\ D!To(r) = ask[r].items[1].to
      /\ D!To(r).name = D!From(r).name /\ Place(D!To(r)) \in Places(r) /\ 1 \in DOMAIN ask[r].items
      /\ DOMAIN ask[r].items = 1 .. Len(ask[r].items) /\ ask[r] \in ReqRows
  BY <1>1, FromTo, Claims, ReqRow DEF DiskInv, ReqOK
<1>3. UNCHANGED <<job, cancel, writes>> BY DEF D!CopyFile, D!counters
<1>4. ASSUME D!NextItem(r), UNCHANGED tree PROVE Carries(r) BY <1>1, <1>3, <1>4, SkipsItem
<1>5. ASSUME D!Skips(r, p) \/ p \in D!Listed(D!From(r)), ask' = [ask EXCEPT ![r].todo = @ \ {p}],
             tree' = IF D!Skips(r, p) THEN tree ELSE D!Put(D!To(r), p, tree[D!From(r)].has[p])
      PROVE  Carries(r)
  <2> DEFINE T == ask[r].todo \ {p}
             c == tree[D!From(r)].has[p]
  <2>1. T \in SUBSET Parts BY <1>2 DEF ReqRows
  <2>2. /\ ReqTyped' /\ ask'[r] # D!Idle /\ \A q \in Asks \ {r} : ask'[q] = ask[q]
        /\ ask'[r].pc = "copy" /\ ask'[r].items = ask[r].items /\ ask'[r].move = ask[r].move
        /\ ask'[r].policy = ask[r].policy /\ ask'[r].at = ask[r].at /\ ask'[r].todo = T
    <3>1. ask' = [ask EXCEPT ![r].todo = T] BY <1>5 DEF ReqTyped
    <3> HIDE DEF T
    <3> QED BY <1>1, <2>1, <3>1, NewTodo
  <2>3. D!To(r)' = D!To(r) /\ D!From(r)' = D!From(r) /\ Places(r)' = Places(r)
    BY <1>1, <2>2, SameItems
  <2>4. /\ TreeTyped' /\ (\A s \in D!Slots : tree'[s] = tree[s] \/ s = D!To(r)) /\ (\A s \in D!Slots : tree[s].is => tree'[s].is)
        /\ \A q \in Parts \ {p} : tree'[D!To(r)].has[q] = tree[D!To(r)].has[q]
        /\ \/ D!Skips(r, p) /\ tree' = tree
           \/ ~D!Skips(r, p) /\ tree'[D!To(r)].has[p] = c
    <3>1. CASE D!Skips(r, p) BY <1>5, <3>1 DEF TreeTyped
    <3>2. CASE ~D!Skips(r, p)
      <4>1. p \in PartsOf[D!To(r).name] /\ c \in D!Contents /\ tree' = D!Put(D!To(r), p, c)
        BY <1>2, <1>5, <3>2 DEF D!Listed, TreeTyped, Contained
      <4>2. ASSUME NEW d \in D!Contents, tree' = D!Put(D!To(r), p, d)
            PROVE  TreeTyped' /\ tree'[D!To(r)].is /\ tree'[D!To(r)].has[p] = d
                   /\ (\A q \in Parts \ {p} : tree'[D!To(r)].has[q] = tree[D!To(r)].has[q])
                   /\ \A s \in D!Slots \ {D!To(r)} : tree'[s] = tree[s]
        <5>1. D!To(r) \in D!Slots BY <1>2
        <5>2. p \in PartsOf[D!To(r).name] BY <4>1
        <5>3. TreeTyped OBVIOUS
        <5>4. d \in D!Contents /\ tree' = D!Put(D!To(r), p, d) BY <4>2
        <5>5. TreeTyped' BY <5>1, <5>2, <5>3, <5>4, PutTyped
        <5>6. tree'[D!To(r)].is BY <5>1, <5>2, <5>3, <5>4, PutTyped
        <5>7. tree'[D!To(r)].has[p] = d BY <5>1, <5>2, <5>3, <5>4, PutTyped
        <5>8. (\A q \in Parts \ {p} : tree'[D!To(r)].has[q] = tree[D!To(r)].has[q])
          BY <5>1, <5>2, <5>3, <5>4, PutTyped
        <5>9. (\A s \in D!Slots \ {D!To(r)} : tree'[s] = tree[s])
          BY <5>1, <5>2, <5>3, <5>4, PutTyped
        <5> QED BY <5>5, <5>6, <5>7, <5>8, <5>9
      <4> HIDE DEF c
      <4> QED BY <3>2, <4>1, <4>2
    <3> QED BY <3>1, <3>2
  <2>5. Advances(r) BY <1>2, <1>3, <2>2, <2>3, <2>4 DEF Advances
  <2>6. Shape(r)' BY <1>2, <1>3, <2>2 DEF Shape
  <2>7. Careful(r) => \A q \in ask[r].todo : tree[D!To(r)].has[q] = D!NoFile
    BY <1>1, <1>2 DEF Unused
  <2>8. Unused(r)'
    <3>1. Careful(r) => \A q \in T : (tree[D!To(r)].has[q] = D!NoFile)' BY <2>1, <2>3, <2>4, <2>7
    <3>2. Renaming(r) => \A i, k \in DOMAIN ask[r].items : i # k => 
             ask[r].items[i].to # ask[r].items[k].to /\ (i > 1 => ~tree'[ask[r].items[i].to].is)
      <4> SUFFICES ASSUME Renaming(r), NEW i \in DOMAIN ask[r].items, NEW k \in DOMAIN ask[r].items, i # k
                   PROVE  ask[r].items[i].to # ask[r].items[k].to /\ (i > 1 => ~tree'[ask[r].items[i].to].is)
        OBVIOUS
      <4>1. ask[r].items[i].to # ask[r].items[k].to /\ (i > 1 => ~tree[ask[r].items[i].to].is)
        BY <1>2 DEF Unused
      <4>2. i > 1 => ask[r].items[i].to # D!To(r) /\ ask[r].items[i].to \in D!Slots
        BY <1>1, <1>2, Claims DEF Unused
      <4> QED BY <2>4, <4>1, <4>2
    <3> QED BY <2>2, <3>1, <3>2 DEF Unused, Careful, Renaming
  <2>9. Copied(r)'
    <3> SUFFICES ASSUME ask[r].move, NEW q \in Parts, (tree[D!From(r)].has[q] \in 0 .. ask[r].at)', q \notin T
                 PROVE  (tree[D!To(r)].has[q] = tree[D!From(r)].has[q])'
      BY <2>2, <2>3 DEF Copied
    <3>1. D!From(r) # D!To(r) BY <1>1, SourceApart
    <3>2. tree'[D!From(r)] = tree[D!From(r)] /\ tree[D!From(r)].has[q] \in 0 .. ask[r].at
      BY <1>2, <2>2, <2>3, <2>4, <3>1
    <3>3. CASE q = p
      <4>1. ~D!Skips(r, p) BY <1>1, <2>7 DEF D!Skips, Careful
      <4> QED BY <2>3, <2>4, <3>2, <3>3, <4>1
    <3>4. CASE q # p BY <1>1, <1>2, <2>3, <2>4, <3>2, <3>4 DEF Copied
    <3> QED BY <3>3, <3>4
  <2>10. \A s \in D!Slots, q \in Parts : D!Writing(s, q) => ask[r].policy = "overwrite"
    <3> SUFFICES ASSUME NEW s \in D!Slots, NEW q \in Parts, D!Writing(s, q), ask[r].policy # "overwrite" PROVE FALSE
      OBVIOUS
    <3>1. s = D!To(r) /\ q = p /\ ~D!Skips(r, p) BY <2>4 DEF D!Writing
    <3>2. ask[r].policy = "rename" BY <1>2, <3>1 DEF D!Skips, D!Writing, ReqRows, D!Policies
    <3> QED BY <1>1, <2>7, <3>1, <3>2 DEF Careful, Renaming, D!Writing
  <2>11. MovedAll(r) BY <1>2, <2>4 DEF MovedAll
  <2>12. ask'[r] # ask[r] BY <1>1, <2>2
  <2> QED BY <2>2, <2>4, <2>5, <2>6, <2>8, <2>9, <2>10, <2>11, <2>12 DEF Carries, ReqOK
<1> QED BY <1>4, <1>5 DEF D!CopyFile

LEMMA CopyFailsCarries ==
  ASSUME D!DisksAssumption, TypeInv, DiskInv, NEW r \in Asks, NEW p \in Parts, D!CopyFails(r, p)
  PROVE  Carries(r)
<1> USE DEF TypeInv
<1>1. ask[r] # D!Idle /\ ask[r].pc = "copy" /\ p \in ask[r].todo /\ ~D!Skips(r, p)
  BY Busy DEF D!CopyFails
<1>2. Unused(r) /\ D!To(r) \in D!Slots /\ D!From(r) \in D!Slots /\ D!To(r).name = D!From(r).name /\ ask[r] \in ReqRows
  BY <1>1, FromTo, ReqRow DEF DiskInv, ReqOK
<1>3. p \in PartsOf[D!To(r).name] /\ D!Torn \in D!Contents /\ tree' = D!Put(D!To(r), p, D!Torn)
  BY <1>2 DEF D!CopyFails, D!Listed, D!Torn, D!Contents, D!NoFile
<1>4. TreeTyped' /\ tree'[D!To(r)].is /\ (\A q \in Parts \ {p} : tree'[D!To(r)].has[q] = tree[D!To(r)].has[q])
      /\ \A s \in D!Slots \ {D!To(r)} : tree'[s] = tree[s]
  BY <1>2, <1>3, PutTyped
<1>5. ReqTyped' /\ Advances(r) /\ ReqOK(r)' /\ ask'[r] # ask[r]
  BY <1>1, <1>4, NextGoes DEF D!CopyFails, Within
<1>6. \A s \in D!Slots, q \in Parts : D!Writing(s, q) => ask[r].policy = "overwrite"
  <2> SUFFICES ASSUME NEW s \in D!Slots, NEW q \in Parts, D!Writing(s, q), ask[r].policy # "overwrite" PROVE FALSE
    OBVIOUS
  <2>1. s = D!To(r) /\ q = p BY <1>4 DEF D!Writing
  <2>2. ask[r].policy = "rename" BY <1>1, <1>2, <2>1 DEF D!Skips, D!Writing, ReqRows, D!Policies
  <2> QED BY <1>1, <1>2, <2>1, <2>2 DEF Unused, Careful, Renaming, D!Writing
<1>7. MovedAll(r) BY <1>1, <1>2, <1>4 DEF MovedAll
<1> QED BY <1>4, <1>5, <1>6, <1>7 DEF Carries

LEMMA EndCopyCarries ==
  ASSUME D!DisksAssumption, TypeInv, DiskInv, NEW r \in Asks, D!EndCopy(r)
  PROVE  Carries(r)
<1> USE DEF TypeInv
<1>1. ask[r] # D!Idle /\ ask[r].pc = "copy" /\ ask[r].todo = {} BY Busy DEF D!EndCopy
<1>2. CASE ~ask[r].move BY <1>1, <1>2, SkipsItem DEF D!EndCopy, D!counters
<1>3. CASE ask[r].move
  <2>1. Copied(r) /\ D!To(r) \in D!Slots /\ D!From(r) \in D!Slots /\ D!From(r) # D!To(r) /\ r \in D!Movers
    BY <1>1, <1>3, FromTo, SourceApart DEF DiskInv, ReqOK
  <2>2. tree' = [tree EXCEPT ![D!From(r)] = D!Empty] BY <1>3 DEF D!EndCopy
  <2>3. TreeTyped' /\ tree'[D!From(r)] = D!Empty /\ \A s \in D!Slots \ {D!From(r)} : tree'[s] = tree[s]
    BY <2>1, <2>2, EmptyTyped
  <2>4. ReqTyped' /\ Advances(r) /\ ReqOK(r)' /\ ask'[r] # ask[r]
    BY <1>1, <2>1, <2>3, NextGoes DEF D!EndCopy, D!counters, Within
  <2>5. \A s \in D!Slots, q \in Parts : ~D!Writing(s, q) BY <2>3, EmptyIs DEF D!Writing
  <2>6. MovedAll(r) BY <1>1, <1>3, <2>1, <2>3 DEF MovedAll, Copied
  <2> QED BY <2>3, <2>4, <2>5, <2>6 DEF Carries
<1> QED BY <1>2, <1>3

LEMMA StepCarries ==
  ASSUME D!DisksAssumption, TypeInv, DiskInv, NEW r \in Asks, D!RequestStep(r)
  PROVE  Carries(r)
  BY ChooseCarries, RenameCarries, ListCarries, CopyCarries, CopyFailsCarries,
     EndCopyCarries DEF D!RequestStep
-----------------------------------------------------------------------------
(***************************************************************************)
(* What each step of a job does.                                           *)
(***************************************************************************)
JobAdvances(j) ==
  /\ \A i \in Jobs \ {j} : job'[i] = job[i]
  /\ UNCHANGED <<ask, writes>>
  /\ JobPlaces(j)' \subseteq JobPlaces(j)
  /\ \A s \in D!Slots : tree'[s] = tree[s] \/ Place(s) \in JobPlaces(j)

JobCarries(j) ==
  /\ TreeTyped' /\ JobTyped' /\ JobAdvances(j) /\ JobOK(j)'
  /\ \A s \in D!Slots, p \in Parts : ~D!Writing(s, p)

LEMMA JobGoesOn ==
  ASSUME D!DisksAssumption, TypeInv, DiskInv, NEW j \in Jobs, JobAdvances(j), JobOK(j)'
  PROVE  DiskInv'
<1> USE DEF TypeInv
<1>1. \A r \in Asks : Places(r)' = Places(r) /\ D!From(r)' = D!From(r)
  BY DEF JobAdvances, Places, D!From, D!Work
<1>2. \A i \in Jobs : JobPlaces(i)' \subseteq JobPlaces(i)
  <2> SUFFICES ASSUME NEW i \in Jobs PROVE JobPlaces(i)' \subseteq JobPlaces(i) OBVIOUS
  <2>1. CASE i = j BY <2>1 DEF JobAdvances
  <2>2. CASE i # j BY <2>2 DEF JobAdvances, JobPlaces, D!Alive
  <2> QED BY <2>1, <2>2
<1>3. \A r \in D!Movers' : r \in D!Movers /\ D!From(r)' = D!From(r)
  BY <1>1 DEF JobAdvances, D!Movers
<1>4. Apart' BY <1>1, <1>2, <1>3, ApartNarrows DEF DiskInv
<1>5. ASSUME NEW r \in Asks PROVE ReqOK(r)'
  <2>1. ask'[r] = ask[r] /\ ReqOK(r) BY DEF JobAdvances, DiskInv
  <2>2. \A s \in D!Slots : Place(s) \in Places(r) => tree'[s] = tree[s]
    BY DEF JobAdvances, DiskInv, Apart
  <2>3. r \in D!Movers => tree'[D!From(r)] = tree[D!From(r)]
    <3> SUFFICES ASSUME r \in D!Movers PROVE tree'[D!From(r)] = tree[D!From(r)] OBVIOUS
    <3>1. D!From(r) \in D!Slots BY FromTo DEF D!Movers
    <3>2. Place(D!From(r)) \notin JobPlaces(j) BY DEF DiskInv, Apart
    <3> QED BY <3>1, <3>2 DEF JobAdvances
  <2> QED BY <2>1, <2>2, <2>3, ReqStays DEF JobAdvances, Bounds
<1>6. ASSUME NEW i \in Jobs, i # j PROVE JobOK(i)'
  <2>1. \A s \in D!Slots : Place(s) \in JobPlaces(i) => tree'[s] = tree[s]
    BY <1>6 DEF JobAdvances, DiskInv, Apart
  <2>2. job'[i] = job[i] /\ JobOK(i) BY <1>6 DEF JobAdvances, DiskInv
  <2> QED BY <2>1, <2>2, JobStays DEF D!Alive
<1> QED BY <1>4, <1>5, <1>6 DEF DiskInv

LEMMA JobRow ==
  ASSUME D!DisksAssumption, JobTyped, NEW j \in Jobs, job[j] # D!NoJob
  PROVE  job[j] \in JobRows /\ job[j].to \in D!Slots /\ job[j].from \in D!Slots /\ job[j].to.name = job[j].from.name
  BY DEF JobTyped, JobRows

LEMMA NewJobRow ==
  ASSUME D!DisksAssumption, JobTyped, NEW j \in Jobs, NEW m \in JobRows, m.to.name = m.from.name,
         job' = [job EXCEPT ![j] = m], cancel' \subseteq cancel \cup {j}
  PROVE  JobTyped' /\ job'[j] = m /\ \A i \in Jobs \ {j} : job'[i] = job[i]
<1>1. m # D!NoJob BY DEF JobRows, D!NoJob
<1> QED BY <1>1 DEF JobTyped

\* A job that is over, whatever its status.
LEMMA JobOver ==
  ASSUME D!DisksAssumption, TypeInv, NEW j \in Jobs, job[j] # D!NoJob,
         NEW status \in {"done", "error", "cancelled"},
         job' = [job EXCEPT ![j] = [D!Finish(j, status) EXCEPT !.pc = "ended"]], UNCHANGED <<tree, ask, cancel, writes>>
  PROVE  JobCarries(j)
<1> USE DEF TypeInv
<1> DEFINE m == [D!Finish(j, status) EXCEPT !.pc = "ended"]
<1>1. job[j] \in JobRows /\ job[j].to.name = job[j].from.name BY JobRow
<1>2. m \in JobRows /\ m.pc = "ended" /\ m.to = job[j].to /\ m.from = job[j].from
  BY <1>1 DEF JobRows, D!Finish
<1>3. job' = [job EXCEPT ![j] = m] OBVIOUS
<1> HIDE DEF m
<1>8. m.to.name = m.from.name /\ cancel' \subseteq cancel \cup {j} BY <1>1, <1>2
<1>4. JobTyped' /\ job'[j] = m /\ \A i \in Jobs \ {j} : job'[i] = job[i]
  BY <1>2, <1>3, <1>8, NewJobRow
<1>5. ~D!Alive(j)' BY <1>2, <1>4 DEF D!Alive
<1>6. JobPlaces(j)' = {} /\ JobOK(j)' BY <1>5 DEF JobPlaces, JobOK
<1>7. TreeTyped' BY DEF TreeTyped
<1> QED BY <1>4, <1>6, <1>7 DEF JobCarries, JobAdvances, D!Writing

LEMMA NameCarries ==
  ASSUME D!DisksAssumption, TypeInv, DiskInv, NEW j \in Jobs, D!NameJob(j)
  PROVE  JobCarries(j)
<1> USE DEF TypeInv
<1>1. job[j] # D!NoJob /\ D!Alive(j) /\ job[j].pc = "name" BY DEF D!NameJob, D!NoJob, D!Alive
<1>2. UNCHANGED <<tree, ask, cancel, writes>> BY DEF D!NameJob, D!counters
<1>3. CASE job' = [job EXCEPT ![j] = [D!Finish(j, "error") EXCEPT !.pc = "ended"]]
  BY <1>1, <1>2, <1>3, JobOver
<1>4. ASSUME NEW t \in D!Slots, D!IsNextFree(t, job[j].to, {}), job' = [job EXCEPT ![j].pc = "list", ![j].to = t]
      PROVE  JobCarries(j)
  <2> DEFINE m == [job[j] EXCEPT !.pc = "list", !.to = t]
  <2>1. job[j] \in JobRows /\ job[j].to.name = job[j].from.name BY <1>1, JobRow
  <2>2. D!Same(job[j].to, t) /\ ~tree[t].is BY <1>4 DEF D!IsNextFree, D!FreeNames
  <2>3. m \in JobRows /\ m.pc = "list" /\ m.to = t /\ m.from = job[j].from /\ m.read = job[j].read
    BY <2>1 DEF JobRows
  <2>4. job' = [job EXCEPT ![j] = m] BY <1>4, <2>1 DEF JobTyped, JobRows
  <2>5. m.to.name = m.from.name BY <2>1, <2>2, <2>3 DEF D!Same
  <2> HIDE DEF m
  <2>6. JobTyped' /\ job'[j] = m /\ \A i \in Jobs \ {j} : job'[i] = job[i]
    BY <1>2, <2>3, <2>4, <2>5, NewJobRow
  <2>7. JobPlaces(j) = {Place(job[j].to)} /\ JobPlaces(j)' = {Place(t)}
    BY <1>1, <2>3, <2>6 DEF JobPlaces, D!Alive
  <2>8. JobPlaces(j)' \subseteq JobPlaces(j) BY <2>2, <2>7 DEF Place, D!Same
  <2>9. \A p \in Parts : job[j].read[p] = D!NoFile BY <1>1 DEF DiskInv, JobOK
  <2>10. JobOK(j)' BY <1>2, <2>2, <2>3, <2>6, <2>9 DEF JobOK
  <2>11. TreeTyped' BY <1>2 DEF TreeTyped
  <2> QED BY <1>2, <2>6, <2>8, <2>10, <2>11 DEF JobCarries, JobAdvances, D!Writing
<1> QED BY <1>3, <1>4 DEF D!NameJob

LEMMA ListJobCarries ==
  ASSUME D!DisksAssumption, TypeInv, DiskInv, NEW j \in Jobs, D!ListJob(j)
  PROVE  JobCarries(j)
<1> USE DEF TypeInv
<1>1. job[j] # D!NoJob /\ D!Alive(j) /\ job[j].pc = "list" BY DEF D!ListJob, D!NoJob, D!Alive
<1>2. UNCHANGED <<ask, cancel, writes>> BY DEF D!ListJob, D!counters
<1>3. job[j] \in JobRows /\ job[j].to \in D!Slots /\ job[j].from \in D!Slots /\ job[j].to.name = job[j].from.name
      /\ JobPlaces(j) = {Place(job[j].to)}
  BY <1>1, JobRow DEF JobPlaces
<1>4. /\ TreeTyped' /\ (\A s \in D!Slots : tree'[s] = tree[s] \/ s = job[j].to)
      /\ \A s \in D!Slots : tree'[s].has = tree[s].has
  <2>1. tree' = [tree EXCEPT ![job[j].to].is = TRUE] \/ tree' = tree BY DEF D!ListJob
  <2>2. CASE tree' = [tree EXCEPT ![job[j].to].is = TRUE]
    <3>1. TreeTyped' /\ tree'[job[j].to].has = tree[job[j].to].has
          /\ \A t \in D!Slots \ {job[j].to} : tree'[t] = tree[t]
      BY <1>3, <2>2, DirTyped
    <3> QED BY <3>1
  <2>3. CASE tree' = tree BY <2>3 DEF TreeTyped
  <2> QED BY <2>1, <2>2, <2>3
<1>5. PICK T \in SUBSET Parts, failed \in BOOLEAN : job' = [job EXCEPT ![j].pc = "copy", ![j].todo = T, ![j].failed = failed]
  <2>1. CASE job[j].stop
    <3>1. job[j].todo \in SUBSET Parts /\ job[j].failed \in BOOLEAN BY <1>3 DEF JobRows
    <3>2. job' = [job EXCEPT ![j].pc = "copy", ![j].todo = job[j].todo, ![j].failed = job[j].failed]
      BY <1>3, <2>1 DEF D!ListJob, JobTyped, JobRows
    <3> QED BY <3>1, <3>2
  <2>2. CASE ~job[j].stop
    <3>1. D!Listed(job[j].from) \in SUBSET Parts /\ (~tree[job[j].from].is) \in BOOLEAN
      BY <1>3, Ends DEF D!Listed
    <3> QED BY <2>2, <3>1 DEF D!ListJob
  <2> QED BY <2>1, <2>2
<1> DEFINE m == [job[j] EXCEPT !.pc = "copy", !.todo = T, !.failed = failed]
<1>6. job' = [job EXCEPT ![j] = m] BY <1>3, <1>5 DEF JobTyped, JobRows
<1>7. m \in JobRows /\ m.pc = "copy" /\ m.to = job[j].to /\ m.from = job[j].from /\ m.read = job[j].read /\ m.todo = T
  BY <1>3 DEF JobRows
<1> HIDE DEF m
<1>8. JobTyped' /\ job'[j] = m /\ \A i \in Jobs \ {j} : job'[i] = job[i]
  BY <1>2, <1>3, <1>6, <1>7, NewJobRow
<1>9. JobPlaces(j)' = JobPlaces(j) BY <1>3, <1>7, <1>8 DEF JobPlaces, D!Alive
<1>10. \A p \in Parts : job[j].read[p] = D!NoFile /\ tree[job[j].to].has[p] = D!NoFile
  BY <1>1, <1>3, EmptyIs DEF DiskInv, JobOK, TreeTyped
<1>11. JobOK(j)' BY <1>3, <1>4, <1>7, <1>8, <1>10 DEF JobOK
<1>12. \A s \in D!Slots, p \in Parts : ~D!Writing(s, p) BY <1>4 DEF D!Writing
<1> QED BY <1>2, <1>3, <1>4, <1>8, <1>9, <1>11, <1>12 DEF JobCarries, JobAdvances

\* A file of a job: copied, cut short, or missing.
LEMMA FileCarries ==
  ASSUME D!DisksAssumption, TypeInv, DiskInv, NEW j \in Jobs,
         NEW p \in Parts, job[j].pc = "copy", p \in job[j].todo,
         NEW failed \in BOOLEAN, job[j].failed => failed, NEW read \in [Parts -> D!Contents],
         \A q \in Parts \ {p} : read[q] = job[j].read[q],
         job' = [job EXCEPT ![j].todo = @ \ {p}, ![j].failed = failed, ![j].read = read],
         UNCHANGED <<ask, cancel, writes>>, TreeTyped',
         \A s \in D!Slots \ {job[j].to} : tree'[s] = tree[s],
         \A q \in Parts \ {p} : tree'[job[j].to].has[q] = tree[job[j].to].has[q],
         failed \/ tree'[job[j].to].has[p] = read[p]
  PROVE  JobCarries(j)
<1> USE DEF TypeInv
<1>1. job[j] # D!NoJob /\ D!Alive(j) BY DEF D!NoJob, D!Alive
<1>2. job[j] \in JobRows /\ job[j].to \in D!Slots /\ job[j].to.name = job[j].from.name
      /\ JobPlaces(j) = {Place(job[j].to)}
  BY <1>1, JobRow DEF JobPlaces
<1> DEFINE m == [job[j] EXCEPT !.todo = job[j].todo \ {p}, !.failed = failed, !.read = read]
<1>3. job' = [job EXCEPT ![j] = m] BY <1>2 DEF JobTyped, JobRows
<1>4. m \in JobRows /\ m.pc = "copy" /\ m.to = job[j].to /\ m.from = job[j].from /\ m.read = read
      /\ m.todo = job[j].todo \ {p} /\ m.failed = failed
  BY <1>2 DEF JobRows
<1> HIDE DEF m
<1>13. m.to.name = m.from.name /\ cancel' \subseteq cancel \cup {j} BY <1>2, <1>4
<1>5. JobTyped' /\ job'[j] = m /\ \A i \in Jobs \ {j} : job'[i] = job[i]
  BY <1>3, <1>4, <1>13, NewJobRow
<1>6. JobPlaces(j)' = JobPlaces(j) BY <1>2, <1>4, <1>5 DEF JobPlaces, D!Alive
<1>7. job[j].todo \subseteq Parts /\ (\A q \in job[j].todo : tree[job[j].to].has[q] = D!NoFile)
      /\ (~job[j].failed => \A q \in Parts : job[j].read[q] # D!NoFile => tree[job[j].to].has[q] = job[j].read[q])
  BY <1>1, <1>2 DEF DiskInv, JobOK, JobRows
<1>8. \A q \in m.todo : tree'[job[j].to].has[q] = D!NoFile BY <1>4, <1>7
<1>9. ~failed => \A q \in Parts : read[q] # D!NoFile => tree'[job[j].to].has[q] = read[q] BY <1>7
<1>10. JobOK(j)'
  <2>1. job'[j].pc = "copy" /\ job'[j].to = job[j].to /\ job'[j].todo = m.todo /\ job'[j].read = read
        /\ job'[j].failed = failed
    BY <1>4, <1>5
  <2> QED BY <1>8, <1>9, <2>1 DEF JobOK
<1>11. \A s \in D!Slots, q \in Parts : ~D!Writing(s, q) BY <1>7 DEF D!Writing
<1>12. \A s \in D!Slots : tree'[s] = tree[s] \/ Place(s) \in JobPlaces(j) BY <1>2
<1> QED BY <1>5, <1>6, <1>10, <1>11, <1>12 DEF JobCarries, JobAdvances
LEMMA BackupCarries ==
  ASSUME D!DisksAssumption, TypeInv, DiskInv, NEW j \in Jobs, NEW p \in Parts,
         D!BackupFile(j, p) \/ D!BackupFileFails(j, p)
  PROVE  JobCarries(j)
<1> USE DEF TypeInv
<1> DEFINE c == tree[job[j].from].has[p]
           read == [job[j].read EXCEPT ![p] = c]
<1>1. job[j] # D!NoJob /\ job[j].pc = "copy" /\ p \in job[j].todo
  BY DEF D!BackupFile, D!BackupFileFails, D!NoJob
<1>2. UNCHANGED <<ask, cancel, writes>> BY DEF D!BackupFile, D!BackupFileFails, D!counters
<1>3. job[j] \in JobRows /\ job[j].to \in D!Slots /\ job[j].from \in D!Slots /\ job[j].to.name = job[j].from.name
  BY <1>1, JobRow
<1>4. job[j].failed \in BOOLEAN /\ job[j].read \in [Parts -> D!Contents] /\ c \in D!Contents /\ read \in [Parts -> D!Contents]
      /\ read[p] = c /\ (\A q \in Parts \ {p} : read[q] = job[j].read[q]) /\ (c # D!NoFile => p \in PartsOf[job[j].to.name])
  BY <1>3 DEF JobRows, TreeTyped, Contained
<1>5. CASE D!BackupFile(j, p) /\ c = D!NoFile
  <2>1. job' = [job EXCEPT ![j].todo = @ \ {p}, ![j].failed = TRUE] /\ tree' = tree
    BY <1>5 DEF D!BackupFile
  <2>2. job' = [job EXCEPT ![j].todo = @ \ {p}, ![j].failed = TRUE, ![j].read = job[j].read]
    BY <1>3, <2>1 DEF JobTyped, JobRows
  <2>3. TreeTyped' BY <2>1 DEF TreeTyped
  <2> QED BY <1>1, <1>2, <1>4, <2>1, <2>2, <2>3, FileCarries
<1>6. ASSUME NEW d \in D!Contents, NEW failed \in BOOLEAN, job[j].failed => failed, c # D!NoFile, d = c \/ failed,
             tree' = D!Put(job[j].to, p, d),
             job' = [job EXCEPT ![j].todo = @ \ {p}, ![j].failed = failed, ![j].read[p] = c]
      PROVE  JobCarries(j)
  <2>1. p \in PartsOf[job[j].to.name] BY <1>4, <1>6
  <2>2. TreeTyped' /\ tree'[job[j].to].has[p] = d
    <3>1. TreeTyped /\ job[j].to \in D!Slots /\ tree' = D!Put(job[j].to, p, d) BY <1>3, <1>6
    <3>2. TreeTyped' BY <2>1, <3>1, PutTyped
    <3>3. tree'[job[j].to].has[p] = d BY <2>1, <3>1, PutTyped
    <3> QED BY <3>2, <3>3
  <2>3. (\A q \in Parts \ {p} : tree'[job[j].to].has[q] = tree[job[j].to].has[q])
    BY <1>3, <1>6, <2>1, PutTyped
  <2>4. (\A s \in D!Slots \ {job[j].to} : tree'[s] = tree[s]) BY <1>3, <1>6, <2>1, PutTyped
  <2>5. job' = [job EXCEPT ![j].todo = @ \ {p}, ![j].failed = failed, ![j].read = read]
    BY <1>3, <1>6 DEF JobTyped, JobRows
  <2>6. failed \/ tree'[job[j].to].has[p] = read[p] BY <1>4, <1>6, <2>2
  <2> HIDE DEF read, c
  <2> QED BY <1>1, <1>2, <1>4, <1>6, <2>2, <2>3, <2>4, <2>5, <2>6, FileCarries
<1>7. CASE D!BackupFile(j, p) /\ c # D!NoFile
  <2>1. tree' = D!Put(job[j].to, p, c) /\ job' = [job EXCEPT ![j].todo = @ \ {p}, ![j].read[p] = c]
    BY <1>7 DEF D!BackupFile
  <2>2. job' = [job EXCEPT ![j].todo = @ \ {p}, ![j].failed = job[j].failed, ![j].read[p] = c]
    BY <1>3, <2>1 DEF JobTyped, JobRows
  <2> QED BY <1>4, <1>6, <1>7, <2>1, <2>2
<1>8. CASE D!BackupFileFails(j, p)
  <2>1. tree' = D!Put(job[j].to, p, D!Torn) /\ c # D!NoFile
        /\ job' = [job EXCEPT ![j].todo = @ \ {p}, ![j].failed = TRUE, ![j].read[p] = c]
    BY <1>8 DEF D!BackupFileFails
  <2>2. D!Torn \in D!Contents BY DEF D!Torn, D!Contents, D!NoFile
  <2> QED BY <1>4, <1>6, <2>1, <2>2
<1> QED BY <1>5, <1>7, <1>8

\* The walk is over, or the job is cancelled: its files are as they were.
LEMMA MarkCarries ==
  ASSUME D!DisksAssumption, TypeInv, DiskInv, NEW j \in Jobs, job[j] # D!NoJob,
         NEW m \in JobRows, job' = [job EXCEPT ![j] = m],
         m.from = job[j].from, m.to = job[j].to, m.read = job[j].read, m.failed = job[j].failed, m.todo = job[j].todo,
         m.pc = job[j].pc \/ (job[j].pc = "copy" /\ m.pc \in {"cancelled", "done"}),
         UNCHANGED <<tree, ask, writes>>, cancel' \subseteq cancel
  PROVE  JobCarries(j)
<1> USE DEF TypeInv
<1>1. m.to.name = m.from.name /\ cancel' \subseteq cancel \cup {j} BY JobRow
<1>2. JobTyped' /\ job'[j] = m /\ \A i \in Jobs \ {j} : job'[i] = job[i] BY <1>1, NewJobRow
<1>3. D!Alive(j)' => D!Alive(j) BY <1>2 DEF D!Alive
<1>4. JobPlaces(j)' \subseteq JobPlaces(j) BY <1>2, <1>3 DEF JobPlaces
<1>5. JobOK(j)' BY <1>2, <1>3 DEF DiskInv, JobOK
<1>6. TreeTyped' BY DEF TreeTyped
<1> QED BY <1>2, <1>4, <1>5, <1>6 DEF JobCarries, JobAdvances, D!Writing

LEMMA EndWalkCarries ==
  ASSUME D!DisksAssumption, TypeInv, DiskInv, NEW j \in Jobs, D!EndWalk(j)
  PROVE  JobCarries(j)
<1> USE DEF TypeInv
<1>1. job[j] # D!NoJob /\ job[j].pc = "copy" BY DEF D!EndWalk, D!NoJob
<1>2. UNCHANGED <<tree, ask, writes>> /\ cancel' \subseteq cancel BY DEF D!EndWalk, D!counters
<1>3. PICK pc \in {"cancelled", "done"} : job' = [job EXCEPT ![j].pc = pc] BY DEF D!EndWalk
<1> DEFINE m == [job[j] EXCEPT !.pc = pc]
<1>4. job[j] \in JobRows BY <1>1, JobRow
<1>5. job' = [job EXCEPT ![j] = m] BY <1>3
<1>6. m \in JobRows /\ m.pc = pc /\ m.from = job[j].from /\ m.to = job[j].to /\ m.read = job[j].read
      /\ m.failed = job[j].failed /\ m.todo = job[j].todo
  BY <1>4 DEF JobRows
<1> HIDE DEF m
<1> QED BY <1>1, <1>2, <1>5, <1>6, MarkCarries

LEMMA CancelCarries ==
  ASSUME D!DisksAssumption, TypeInv, DiskInv, NEW j \in Jobs, D!CancelSet(j)
  PROVE  JobCarries(j)
<1> USE DEF TypeInv
<1>1. job[j] # D!NoJob BY DEF D!CancelSet, JobTyped
<1>2. UNCHANGED <<tree, ask, writes>> /\ cancel' \subseteq cancel BY DEF D!CancelSet, D!counters
<1> DEFINE m == [D!Finish(j, "cancelled") EXCEPT !.stop = TRUE]
<1>4. job[j] \in JobRows BY <1>1, JobRow
<1>5. job' = [job EXCEPT ![j] = m] BY DEF D!CancelSet
<1>6. m \in JobRows /\ m.pc = job[j].pc /\ m.from = job[j].from /\ m.to = job[j].to /\ m.read = job[j].read
      /\ m.failed = job[j].failed /\ m.todo = job[j].todo
  BY <1>4 DEF JobRows, D!Finish
<1> HIDE DEF m
<1> QED BY <1>1, <1>2, <1>5, <1>6, MarkCarries

LEMMA JobStepCarries ==
  ASSUME D!DisksAssumption, TypeInv, DiskInv, NEW j \in Jobs, D!JobStep(j)
  PROVE  JobCarries(j)
<1>1. CASE D!NameJob(j) BY <1>1, NameCarries
<1>2. CASE D!ListJob(j) BY <1>2, ListJobCarries
<1>3. CASE D!EndWalk(j) BY <1>3, EndWalkCarries
<1>4. CASE D!EndJob(j)
  <2>1. job[j] # D!NoJob /\ job[j].pc \in {"done", "error", "cancelled"}
    BY <1>4 DEF D!EndJob, D!NoJob
  <2> QED BY <1>4, <2>1, JobOver DEF D!EndJob, D!counters
<1>5. CASE D!JobFails(j)
  <2>1. job[j] # D!NoJob BY <1>5 DEF D!JobFails, D!NoJob
  <2> QED BY <1>5, <2>1, JobOver DEF D!JobFails
<1>6. CASE \E p \in Parts : D!BackupFile(j, p) \/ D!BackupFileFails(j, p) BY <1>6, BackupCarries
<1> QED BY <1>1, <1>2, <1>3, <1>4, <1>5, <1>6 DEF D!JobStep, D!JobGoes

-----------------------------------------------------------------------------
(***************************************************************************)
(* What others do to the disks, and how requests and jobs begin.  From     *)
(* here on nobody touches what a request or a job at work writes to.       *)
(***************************************************************************)
LEMMA Sameness == ASSUME D!DisksAssumption, NEW s, NEW t PROVE D!Same(s, t) <=> Place(s) = Place(t)
  BY DEF D!Same, Place

LEMMA FreeSlots ==
  ASSUME D!DisksAssumption, ~Overlap, ReqTyped, NEW s
  PROVE  D!Untouched(s) <=> /\ \A r \in Asks : Place(s) \notin Places(r)
                            /\ \A j \in Jobs : Place(s) \notin JobPlaces(j)
  BY Sameness DEF D!Untouched, Places, JobPlaces

\* Somebody else changes what nobody writes to: it goes, or gets newer, or is no
\* source of a move.
Disturbs ==
  \A s \in D!Slots : \/ tree'[s] = tree[s]
                     \/ /\ D!Untouched(s)
                        /\ \A r \in D!Movers : s = D!From(r) => \A p \in Parts :
                             tree'[s].has[p] = tree[s].has[p] \/ tree'[s].has[p] \notin 0 .. writes

LEMMA DisturbedStays ==
  ASSUME D!DisksAssumption, ~Overlap, TypeInv, DiskInv, Disturbs,
         UNCHANGED <<ask, job>>, writes' \in Nat, writes <= writes'
  PROVE  DiskInv'
<1> USE DEF TypeInv
<1>1. Apart'
  <2>1. \A r \in Asks : Places(r)' = Places(r) /\ D!From(r)' = D!From(r)
    BY DEF Places, D!From, D!Work
  <2>2. \A j \in Jobs : JobPlaces(j)' = JobPlaces(j) BY DEF JobPlaces, D!Alive
  <2>3. \A r \in D!Movers' : r \in D!Movers /\ D!From(r)' = D!From(r) BY <2>1 DEF D!Movers
  <2> QED BY <2>1, <2>2, <2>3, ApartNarrows DEF DiskInv
<1>2. ASSUME NEW r \in Asks PROVE ReqOK(r)'
  <2>1. ask'[r] = ask[r] /\ ReqOK(r) BY DEF DiskInv
  <2>2. \A s \in D!Slots : Place(s) \in Places(r) => tree'[s] = tree[s] BY FreeSlots DEF Disturbs
  <2>3. r \in D!Movers => \A p \in Parts : \/ tree'[D!From(r)].has[p] = tree[D!From(r)].has[p]
                                           \/ tree'[D!From(r)].has[p] \notin 0 .. ask[r].at
    <3> SUFFICES ASSUME r \in D!Movers, NEW p \in Parts, tree'[D!From(r)].has[p] # tree[D!From(r)].has[p]
                 PROVE  tree'[D!From(r)].has[p] \notin 0 .. ask[r].at
      OBVIOUS
    <3>1. D!From(r) \in D!Slots /\ ask[r] \in ReqRows BY FromTo, ReqRow DEF D!Movers
    <3>2. ask[r].at \in Nat /\ ask[r].at <= writes
      BY <3>1 DEF DiskInv, ReqOK, Shape, D!Movers, ReqRows
    <3>3. tree'[D!From(r)].has[p] \notin 0 .. writes BY <3>1 DEF Disturbs
    <3> QED BY <3>2, <3>3 DEF Bounds
  <2> QED BY <2>1, <2>2, <2>3, ReqStays
<1>3. ASSUME NEW j \in Jobs PROVE JobOK(j)'
  <2>1. \A s \in D!Slots : Place(s) \in JobPlaces(j) => tree'[s] = tree[s] BY FreeSlots DEF Disturbs
  <2>2. job' = job /\ JobOK(j) BY DEF DiskInv
  <2> QED BY <2>1, <2>2, JobStays DEF D!Alive
<1> QED BY <1>1, <1>2, <1>3 DEF DiskInv
LEMMA SamePlace ==
  ASSUME D!DisksAssumption, ~Overlap, ReqTyped, NEW s, NEW t, Place(s) = Place(t)
  PROVE  (D!Untouched(s) <=> D!Untouched(t)) /\ (D!Moving(s) <=> D!Moving(t))
  BY FreeSlots, Sameness DEF D!Moving

LEMMA NotMoving ==
  ASSUME D!DisksAssumption, ~Overlap, ReqTyped, NEW s, ~D!Moving(s), NEW r \in D!Movers
  PROVE  Place(D!From(r)) # Place(s)
<1>1. r \in Asks /\ ask[r] # D!Idle BY DEF D!Movers
<1>2. D!From(r) = ask[r].items[1].from BY <1>1, FromTo
<1> QED BY <1>2, Sameness DEF D!Moving

LEMMA WriteDisturbs ==
  ASSUME D!DisksAssumption, ~Overlap, TypeInv, DiskInv, NEW s \in D!Slots, NEW p \in Parts,
         D!Write(s, p)
  PROVE  TypeInv' /\ DiskInv'
<1> USE DEF TypeInv
<1>1. p \in PartsOf[s.name] /\ writes + 1 \in D!Contents /\ writes' = writes + 1 /\ writes \in Nat
  BY DEF D!Write, Bounds, D!Contents, D!NoFile
<1>2. TreeTyped' BY <1>1, PutTyped DEF D!Write
<1>3. tree'[s].has[p] = writes + 1 /\ \A q \in Parts \ {p} : tree'[s].has[q] = tree[s].has[q]
  BY <1>1, PutTyped DEF D!Write
<1>4. \A t \in D!Slots \ {s} : tree'[t] = tree[t] BY <1>1, PutTyped DEF D!Write
<1>5. Disturbs
  <2>1. D!Untouched(s) BY DEF D!Write
  <2>2. \A q \in Parts : tree'[s].has[q] = tree[s].has[q] \/ tree'[s].has[q] \notin 0 .. writes
    BY <1>1, <1>3
  <2> QED BY <1>4, <2>1, <2>2 DEF Disturbs
<1>6. UNCHANGED <<ask, job, cancel, ops>> BY DEF D!Write
<1>7. ReqTyped' /\ JobTyped' /\ Bounds' BY <1>1, <1>6 DEF ReqTyped, JobTyped, Bounds
<1> QED BY <1>1, <1>2, <1>5, <1>6, <1>7, DisturbedStays

LEMMA BeginsOp ==
  ASSUME D!DisksAssumption, Bounds, D!BeginOp
  PROVE  Bounds' /\ ops' # ops /\ writes' = writes
  BY DEF Bounds, D!BeginOp

LEMMA DeleteDisturbs ==
  ASSUME D!DisksAssumption, ~Overlap, TypeInv, DiskInv, NEW s \in D!Slots, D!Deleted(s)
  PROVE  TypeInv' /\ DiskInv' /\ ops' # ops
<1> USE DEF TypeInv
<1>1. Bounds' /\ ops' # ops /\ writes' = writes BY BeginsOp DEF D!Deleted
<1>2. TreeTyped' /\ tree'[s] = D!Empty /\ \A t \in D!Slots \ {s} : tree'[t] = tree[t]
  BY EmptyTyped DEF D!Deleted
<1>3. \A p \in Parts : tree'[s].has[p] \notin 0 .. writes BY <1>2, EmptyIs DEF Bounds, D!NoFile
<1>4. Disturbs BY <1>2, <1>3 DEF Disturbs, D!Deleted
<1>5. UNCHANGED <<ask, job, cancel>> BY DEF D!Deleted
<1>6. ReqTyped' /\ JobTyped' BY <1>5 DEF ReqTyped, JobTyped
<1>7. writes' \in Nat /\ writes <= writes' BY <1>1 DEF Bounds
<1> QED BY <1>1, <1>2, <1>4, <1>5, <1>6, <1>7, DisturbedStays

LEMMA RenameDisturbs ==
  ASSUME D!DisksAssumption, ~Overlap, TypeInv, DiskInv, NEW s \in D!Slots, NEW t \in D!Slots,
         D!Rename(s, t)
  PROVE  TypeInv' /\ DiskInv' /\ ops' # ops
<1> USE DEF TypeInv
<1>1. Bounds' /\ ops' # ops /\ writes' = writes BY BeginsOp DEF D!Rename
<1>2. TreeTyped' /\ tree'[s] = D!Empty /\ \A x \in D!Slots \ {s, t} : tree'[x] = tree[x]
  BY MoveTyped DEF D!Rename
<1>3. \A p \in Parts : tree'[s].has[p] \notin 0 .. writes BY <1>2, EmptyIs DEF Bounds, D!NoFile
<1>4. \A r \in D!Movers : t # D!From(r) BY NotMoving DEF D!Rename
<1>5. Disturbs BY <1>2, <1>3, <1>4 DEF Disturbs, D!Rename
<1>6. UNCHANGED <<ask, job, cancel>> BY DEF D!Rename
<1>7. ReqTyped' /\ JobTyped' BY <1>6 DEF ReqTyped, JobTyped
<1>8. writes' \in Nat /\ writes <= writes' BY <1>1 DEF Bounds
<1> QED BY <1>1, <1>2, <1>5, <1>6, <1>7, <1>8, DisturbedStays

\* A request begins: its claim is apart from those that are there.
LEMMA Begun ==
  ASSUME D!DisksAssumption, ~Overlap, TypeInv, DiskInv, NEW r \in Asks, ask[r] = D!Idle,
         NEW m \in ReqRows, m.items # <<>>,
         ask' = [ask EXCEPT ![r] = m], UNCHANGED <<tree, job, cancel, writes>>,
         \A i \in DOMAIN m.items : D!Untouched(m.items[i].to) /\ ~D!Moving(m.items[i].to),
         m.move => /\ D!Untouched(m.items[1].from)
                   /\ \A i \in DOMAIN m.items : Place(m.items[1].from) # Place(m.items[i].to),
         ReqOK(r)'
  PROVE  TreeTyped' /\ ReqTyped' /\ JobTyped' /\ DiskInv'
<1> USE DEF TypeInv
<1>1. ReqTyped' /\ ask'[r] = m /\ ask'[r] # D!Idle /\ \A q \in Asks \ {r} : ask'[q] = ask[q]
  BY NewRow
<1>2. TreeTyped' /\ JobTyped' BY DEF TreeTyped, JobTyped
<1>3. Places(r)' = {Place(m.items[i].to) : i \in DOMAIN m.items} /\ Places(r) = {}
  BY <1>1 DEF Places
<1>4. \A q \in Asks \ {r} : Places(q)' = Places(q) /\ D!From(q)' = D!From(q)
  BY <1>1 DEF Places, D!From, D!Work
<1>5. \A j \in Jobs : JobPlaces(j)' = JobPlaces(j) BY DEF JobPlaces, D!Alive
<1>6. \A x \in Places(r)' : /\ \A q \in Asks : x \notin Places(q)
                            /\ \A j \in Jobs : x \notin JobPlaces(j)
                            /\ \A q \in D!Movers : x # Place(D!From(q))
  BY <1>3, FreeSlots, NotMoving
<1>7. D!From(r)' = m.items[1].from
  <2>1. m.items \in Seq(Pairs) BY DEF ReqRows
  <2> QED BY <1>1, <2>1 DEF D!From, D!Work
<1>8. D!Movers' \subseteq D!Movers \cup {r} /\ (r \in D!Movers' => m.move) /\ D!Movers \subseteq Asks \ {r}
  BY <1>1 DEF D!Movers
<1>9. Apart'
  <2>1. Apart BY DEF DiskInv
  <2>2. (\A q, s \in Asks : q # s => Places(q) \cap Places(s) = {})'
    <3> SUFFICES ASSUME NEW q \in Asks, NEW s \in Asks, q # s PROVE (Places(q) \cap Places(s) = {})' OBVIOUS
    <3>1. CASE q = r BY <1>4, <1>6, <3>1
    <3>2. CASE s = r BY <1>4, <1>6, <3>2
    <3>3. CASE q # r /\ s # r BY <1>4, <2>1, <3>3 DEF Apart
    <3> QED BY <3>1, <3>2, <3>3
  <2>3. (\A q \in Asks, j \in Jobs : Places(q) \cap JobPlaces(j) = {})'
    <3> SUFFICES ASSUME NEW q \in Asks, NEW j \in Jobs PROVE (Places(q) \cap JobPlaces(j) = {})' OBVIOUS
    <3>1. CASE q = r BY <1>5, <1>6, <3>1
    <3>2. CASE q # r BY <1>4, <1>5, <2>1, <3>2 DEF Apart
    <3> QED BY <3>1, <3>2
  <2>4. (\A i, j \in Jobs : i # j => JobPlaces(i) \cap JobPlaces(j) = {})' BY <1>5, <2>1 DEF Apart
  <2>5. ASSUME NEW q \in D!Movers'
        PROVE  (\A s \in Asks : Place(D!From(q)) \notin Places(s))' /\ (\A j \in Jobs : Place(D!From(q)) \notin JobPlaces(j))'
    <3>1. CASE q = r
      <4>1. Place(D!From(q))' = Place(m.items[1].from) BY <1>7, <3>1 DEF Place
      <4>2. m.move BY <1>8, <3>1
      <4>3. Place(m.items[1].from) \notin Places(r)' BY <1>3, <4>2
      <4>4. (\A s \in Asks : Place(m.items[1].from) \notin Places(s)) /\ \A j \in Jobs : Place(m.items[1].from) \notin JobPlaces(j)
        BY <4>2, FreeSlots
      <4>5. \A s \in Asks : Place(m.items[1].from) \notin Places(s)' BY <1>4, <4>3, <4>4
      <4> QED BY <1>5, <4>1, <4>4, <4>5
    <3>2. CASE q # r
      <4>1. q \in D!Movers /\ Place(D!From(q))' = Place(D!From(q)) BY <1>4, <1>8, <3>2 DEF Place
      <4>2. (\A s \in Asks : Place(D!From(q)) \notin Places(s)) /\ \A j \in Jobs : Place(D!From(q)) \notin JobPlaces(j)
        BY <2>1, <4>1 DEF Apart
      <4>3. Place(D!From(q)) \notin Places(r)' BY <1>6, <4>1
      <4> QED BY <1>4, <1>5, <4>1, <4>2, <4>3
    <3> QED BY <3>1, <3>2
  <2> QED BY <2>2, <2>3, <2>4, <2>5 DEF Apart
<1>10. ASSUME NEW q \in Asks, q # r PROVE ReqOK(q)'
  <2>1. ask'[q] = ask[q] /\ ReqOK(q) BY <1>1, <1>10 DEF DiskInv
  <2> QED BY <2>1, ReqStays DEF Bounds
<1>11. ASSUME NEW j \in Jobs PROVE JobOK(j)'
  <2>1. job' = job /\ JobOK(j) BY DEF DiskInv
  <2> QED BY <2>1, JobStays DEF D!Alive
<1> QED BY <1>1, <1>2, <1>9, <1>10, <1>11 DEF DiskInv
LEMMA BeginHolds ==
  ASSUME D!DisksAssumption, ~Overlap, TypeInv, DiskInv, NEW r \in Asks, NEW s \in D!Slots,
         NEW dir \in D!Dirs,
         NEW move \in BOOLEAN, NEW policy \in D!Policies, D!Begin(r, s, dir, move, policy)
  PROVE  TypeInv' /\ DiskInv' /\ tree' = tree /\ ask[r] = D!Idle /\ \A q \in Asks \ {r} : ask'[q] = ask[q]
<1> USE DEF TypeInv
<1> DEFINE t == [s EXCEPT !.dir = dir]
           items == <<D!Item(s, t)>>
           m == [pc |-> "choose", move |-> move, policy |-> policy, items |-> items, todo |-> {}, at |-> writes]
<1>1. Bounds' /\ writes' = writes /\ writes \in Nat /\ UNCHANGED <<tree, job, cancel>>
  BY BeginsOp DEF D!Begin, Bounds
<1>2. t \in D!Slots /\ t.name = s.name /\ t.dir = dir /\ (t # s => t.dir # s.dir)
  BY Ends DEF D!Slots
<1>3. D!Item(s, t) \in Pairs /\ D!Item(s, t).to = t /\ D!Item(s, t).from = s
  BY <1>2 DEF D!Item, Pairs, D!Items
<1>4. items \in Seq(Pairs) /\ Len(items) = 1 /\ DOMAIN items = {1} /\ items[1].to = t /\ items[1].from = s
  BY <1>3
<1>5. ask[r] = D!Idle /\ D!Untouched(t) /\ ~D!Moving(t) /\ (move => D!Untouched(s) /\ t # s)
  BY DEF D!Begin
<1>6. ask' = [ask EXCEPT ![r] = m] BY DEF D!Begin
<1> HIDE DEF items
<1>7. m \in ReqRows /\ m.items = items /\ m.pc = "choose" /\ m.at = writes /\ m.policy = policy /\ m.move = move
  BY <1>1, <1>4 DEF ReqRows
<1> HIDE DEF m, t
<1>8. m.items # <<>>
  <2>1. Len(<<>>) # 1 OBVIOUS
  <2> QED BY <1>4, <1>7, <2>1
<1>9. ask'[r] = m /\ \A q \in Asks \ {r} : ask'[q] = ask[q] BY <1>6, <1>7, <1>8, NewRow
<1>10. ReqOK(r)'
  <2>1. Shape(r)' BY <1>1, <1>4, <1>7, <1>9 DEF Shape
  <2>2. Unused(r)' BY <1>4, <1>7, <1>9 DEF Unused
  <2>3. Copied(r)' BY <1>7, <1>9 DEF Copied
  <2> QED BY <2>1, <2>2, <2>3 DEF ReqOK
<1>11. \A i \in DOMAIN m.items : D!Untouched(m.items[i].to) /\ ~D!Moving(m.items[i].to)
  BY <1>4, <1>5, <1>7
<1>12. m.move => /\ D!Untouched(m.items[1].from)
                 /\ \A i \in DOMAIN m.items : Place(m.items[1].from) # Place(m.items[i].to)
  BY <1>2, <1>4, <1>5, <1>7 DEF Place
<1>13. TreeTyped' /\ ReqTyped' /\ JobTyped' /\ DiskInv'
  BY <1>1, <1>5, <1>6, <1>7, <1>8, <1>10, <1>11, <1>12, Begun
<1> QED BY <1>1, <1>5, <1>9, <1>13

LEMMA ASeq ==
  ASSUME D!DisksAssumption, NEW n \in Nat, NEW S, NEW f \in [1 .. n -> S]
  PROVE  f \in Seq(S) /\ Len(f) = n /\ DOMAIN f = 1 .. n
  BY SeqDef, LenProperties

LEMMA Planned ==
  ASSUME D!DisksAssumption, NEW s \in D!Slots, NEW dir \in D!Dirs, NEW n \in 0 .. MaxSuffix
  PROVE  LET x == [[s EXCEPT !.dir = dir] EXCEPT !.n = n]
         IN  x \in D!Slots /\ x.name = s.name /\ Place(x) = Place([s EXCEPT !.dir = dir])
  BY DEF D!Slots, Place

LEMMA RestoreHolds ==
  ASSUME D!DisksAssumption, ~Overlap, TypeInv, DiskInv, NEW r \in Asks, NEW n \in {1, 2},
         NEW order \in [1 .. n -> D!Slots], NEW dir \in D!Dirs,
         NEW policy \in D!Policies, D!BeginRestore(r, order, dir, policy)
  PROVE  TypeInv' /\ DiskInv' /\ tree' = tree /\ ask[r] = D!Idle /\ \A q \in Asks \ {r} : ask'[q] = ask[q]
<1> USE DEF TypeInv
<1> DEFINE Plain(i) == [order[i] EXCEPT !.dir = dir]
           dom == DOMAIN order
<1>1. Bounds' /\ writes' = writes /\ writes \in Nat /\ UNCHANGED <<tree, job, cancel>>
  BY BeginsOp DEF D!BeginRestore, Bounds
<1>2. dom = 1 .. n /\ \A i \in 1 .. n : order[i] \in D!Slots OBVIOUS
<1>3. PICK ns \in [dom -> 0 .. MaxSuffix] :
        LET plan == [i \in dom |-> [Plain(i) EXCEPT !.n = ns[i]]] IN
        /\ \A i \in dom :
             IF policy = "rename" THEN D!IsNextFree(plan[i], Plain(i), {plan[k] : k \in 1 .. i - 1})
             ELSE plan[i] = Plain(i)
        /\ ask' = [ask EXCEPT ![r] = [pc |-> "list", move |-> FALSE, policy |-> policy, todo |-> {},
                     items |-> [i \in dom |-> D!Item(order[i], plan[i])], at |-> writes]]
  BY DEF D!BeginRestore
<1> DEFINE plan == [i \in dom |-> [Plain(i) EXCEPT !.n = ns[i]]]
           items == [i \in dom |-> D!Item(order[i], plan[i])]
           m == [pc |-> "list", move |-> FALSE, policy |-> policy, todo |-> {}, items |-> items, at |-> writes]
<1>4. \A i \in dom : D!Untouched(Plain(i)) /\ ~D!Moving(Plain(i)) BY DEF D!BeginRestore
<1>5. ask[r] = D!Idle /\ ask' = [ask EXCEPT ![r] = m] BY <1>3 DEF D!BeginRestore
<1>6. \A i \in dom : plan[i] \in D!Slots /\ plan[i].name = order[i].name /\ Place(plan[i]) = Place(Plain(i))
  <2> SUFFICES ASSUME NEW i \in dom PROVE plan[i] \in D!Slots /\ plan[i].name = order[i].name /\ Place(plan[i]) = Place(Plain(i))
    OBVIOUS
  <2>1. plan[i] = [Plain(i) EXCEPT !.n = ns[i]]
    <3> HIDE DEF Plain, dom
    <3> QED OBVIOUS
  <2>2. ns[i] \in 0 .. MaxSuffix /\ order[i] \in D!Slots
    <3>1. order[i] \in D!Slots BY <1>2
    <3> HIDE DEF dom
    <3> QED BY <3>1
  <2>3. [Plain(i) EXCEPT !.n = ns[i]] \in D!Slots /\ [Plain(i) EXCEPT !.n = ns[i]].name = order[i].name
        /\ Place([Plain(i) EXCEPT !.n = ns[i]]) = Place(Plain(i))
    <3> HIDE DEF plan, dom
    <3> QED BY <2>2, Planned
  <2> HIDE DEF plan, Plain
  <2> QED BY <2>1, <2>3
<1>7. policy = "rename" => \A i \in dom : ~tree[plan[i]].is /\ \A k \in 1 .. i - 1 : plan[i] # plan[k]
  <2> SUFFICES ASSUME policy = "rename", NEW i \in dom
               PROVE  ~tree[plan[i]].is /\ \A k \in 1 .. i - 1 : plan[i] # plan[k]
    OBVIOUS
  <2>1. D!IsNextFree(plan[i], Plain(i), {plan[k] : k \in 1 .. i - 1}) BY <1>3
  <2> HIDE DEF plan, Plain
  <2>2. ~tree[plan[i]].is /\ plan[i] \notin {plan[k] : k \in 1 .. i - 1}
    BY <2>1 DEF D!IsNextFree, D!FreeNames
  <2> QED BY <2>2
<1> HIDE DEF plan, Plain, dom
<1>8. \A i \in dom : D!Item(order[i], plan[i]) \in Pairs
  BY <1>2, <1>6 DEF D!Item, Pairs, D!Items
<1>9. \A i \in dom : items[i].to = plan[i] BY DEF D!Item
<1>10. items \in Seq(Pairs) /\ Len(items) = n /\ DOMAIN items = 1 .. n /\ dom = 1 .. n
  <2>1. items \in [1 .. n -> Pairs] BY <1>2, <1>8
  <2> HIDE DEF items
  <2> QED BY <1>2, <2>1, ASeq
<1> HIDE DEF items
<1>11. m \in ReqRows /\ m.items = items /\ m.pc = "list" /\ m.at = writes /\ m.policy = policy /\ ~m.move
  BY <1>1, <1>10 DEF ReqRows
<1> HIDE DEF m
<1>12. m.items # <<>>
  <2>1. Len(<<>>) = 0 OBVIOUS
  <2> QED BY <1>10, <1>11, <2>1
<1>13. ask'[r] = m /\ \A q \in Asks \ {r} : ask'[q] = ask[q] BY <1>5, <1>11, <1>12, NewRow
<1>14. ReqOK(r)'
  <2>1. Shape(r)' BY <1>1, <1>11, <1>13 DEF Shape
  <2>2. D!To(r)' = plan[1]
    <3>1. Head(items) = items[1] BY <1>10
    <3> QED BY <1>9, <1>10, <1>11, <1>13, <3>1 DEF D!To, D!Work
  <2>3. policy = "rename" => \A i, k \in 1 .. n : ~tree[plan[i]].is /\ (i # k => plan[i] # plan[k])
    <3> SUFFICES ASSUME policy = "rename", NEW i \in 1 .. n, NEW k \in 1 .. n
                 PROVE  ~tree[plan[i]].is /\ (i # k => plan[i] # plan[k])
      OBVIOUS
    <3>1. i = k \/ i \in 1 .. k - 1 \/ k \in 1 .. i - 1 OBVIOUS
    <3> QED BY <1>7, <1>10, <3>1
  <2>4. Unused(r)' BY <1>1, <1>9, <1>10, <1>11, <1>13, <2>2, <2>3 DEF Unused, Careful, Renaming
  <2>5. Copied(r)' BY <1>11, <1>13 DEF Copied
  <2> QED BY <2>1, <2>4, <2>5 DEF ReqOK
<1>15. \A i \in DOMAIN m.items : D!Untouched(m.items[i].to) /\ ~D!Moving(m.items[i].to)
  BY <1>4, <1>6, <1>9, <1>10, <1>11, SamePlace
<1>16. TreeTyped' /\ ReqTyped' /\ JobTyped' /\ DiskInv'
  BY <1>1, <1>5, <1>11, <1>12, <1>14, <1>15, Begun
<1> QED BY <1>1, <1>5, <1>13, <1>16

LEMMA StartHolds ==
  ASSUME D!DisksAssumption, ~Overlap, TypeInv, DiskInv, NEW j \in Jobs, NEW s \in D!Slots,
         NEW dir \in D!Dirs, D!StartJob(j, s, dir)
  PROVE  TypeInv' /\ DiskInv' /\ tree' = tree /\ ask' = ask
<1> USE DEF TypeInv
<1> DEFINE t == [s EXCEPT !.dir = dir]
           none == [p \in Parts |-> D!NoFile]
           m == [pc |-> "name", from |-> s, to |-> t, status |-> "running",
                 stop |-> FALSE, failed |-> FALSE, todo |-> {}, read |-> none]
<1>1. Bounds' /\ writes' = writes /\ writes \in Nat /\ UNCHANGED <<tree, ask, cancel>>
  BY BeginsOp DEF D!StartJob, Bounds
<1>2. t \in D!Slots /\ t.name = s.name BY Ends DEF D!Slots
<1>3. D!Untouched(t) /\ ~D!Moving(t) /\ job' = [job EXCEPT ![j] = m] BY DEF D!StartJob
<1>4. ~D!Alive(j) BY DEF D!StartJob, D!Alive, D!NoJob
<1>5. none \in [Parts -> D!Contents] /\ \A p \in Parts : none[p] = D!NoFile
  BY DEF D!Contents, D!NoFile
<1> HIDE DEF none, t
<1>6. m \in JobRows /\ m.to = t /\ m.from = s /\ m.pc = "name" /\ m.read = none /\ m.failed = FALSE
  BY <1>2, <1>5 DEF JobRows
<1> HIDE DEF m
<1>7. m.to.name = m.from.name /\ cancel' \subseteq cancel \cup {j} BY <1>1, <1>2, <1>6
<1>8. JobTyped' /\ job'[j] = m /\ \A i \in Jobs \ {j} : job'[i] = job[i]
  BY <1>3, <1>6, <1>7, NewJobRow
<1>9. TreeTyped' /\ ReqTyped' BY <1>1 DEF TreeTyped, ReqTyped
<1>10. JobPlaces(j)' = {Place(t)} /\ JobPlaces(j) = {} /\ \A i \in Jobs \ {j} : JobPlaces(i)' = JobPlaces(i)
  BY <1>4, <1>6, <1>8 DEF JobPlaces, D!Alive
<1>11. \A r \in Asks : Places(r)' = Places(r) /\ D!From(r)' = D!From(r)
  BY <1>1 DEF Places, D!From, D!Work
<1>12. D!Movers' = D!Movers /\ D!Movers \subseteq Asks BY <1>1 DEF D!Movers
<1>13. (\A r \in Asks : Place(t) \notin Places(r)) /\ (\A i \in Jobs : Place(t) \notin JobPlaces(i))
       /\ \A r \in D!Movers : Place(D!From(r)) # Place(t)
  BY <1>3, FreeSlots, NotMoving
<1>14. Apart'
  <2>1. Apart BY DEF DiskInv
  <2>2. (\A r, q \in Asks : r # q => Places(r) \cap Places(q) = {})' BY <1>11, <2>1 DEF Apart
  <2>3. (\A r \in Asks, i \in Jobs : Places(r) \cap JobPlaces(i) = {})'
    <3> SUFFICES ASSUME NEW r \in Asks, NEW i \in Jobs PROVE (Places(r) \cap JobPlaces(i) = {})' OBVIOUS
    <3>1. CASE i = j BY <1>10, <1>11, <1>13, <3>1
    <3>2. CASE i # j BY <1>10, <1>11, <2>1, <3>2 DEF Apart
    <3> QED BY <3>1, <3>2
  <2>4. (\A i, k \in Jobs : i # k => JobPlaces(i) \cap JobPlaces(k) = {})'
    <3> SUFFICES ASSUME NEW i \in Jobs, NEW k \in Jobs, i # k PROVE (JobPlaces(i) \cap JobPlaces(k) = {})' OBVIOUS
    <3>1. CASE i = j BY <1>10, <1>13, <3>1
    <3>2. CASE k = j BY <1>10, <1>13, <3>2
    <3>3. CASE i # j /\ k # j BY <1>10, <2>1, <3>3 DEF Apart
    <3> QED BY <3>1, <3>2, <3>3
  <2>5. ASSUME NEW r \in D!Movers'
        PROVE  (\A q \in Asks : Place(D!From(r)) \notin Places(q))' /\ (\A i \in Jobs : Place(D!From(r)) \notin JobPlaces(i))'
    <3>1. r \in D!Movers /\ Place(D!From(r))' = Place(D!From(r)) BY <1>11, <1>12 DEF Place
    <3>2. (\A q \in Asks : Place(D!From(r)) \notin Places(q)) /\ \A i \in Jobs : Place(D!From(r)) \notin JobPlaces(i)
      BY <2>1, <3>1 DEF Apart
    <3>3. \A i \in Jobs : Place(D!From(r)) \notin JobPlaces(i)'
      <4> SUFFICES ASSUME NEW i \in Jobs PROVE Place(D!From(r)) \notin JobPlaces(i)' OBVIOUS
      <4>1. CASE i = j BY <1>10, <1>13, <3>1, <4>1
      <4>2. CASE i # j BY <1>10, <3>2, <4>2
      <4> QED BY <4>1, <4>2
    <3> QED BY <1>11, <3>1, <3>2, <3>3
  <2> QED BY <2>2, <2>3, <2>4, <2>5 DEF Apart
<1>15. \A r \in Asks : ReqOK(r)'
  <2> SUFFICES ASSUME NEW r \in Asks PROVE ReqOK(r)' OBVIOUS
  <2>1. ask'[r] = ask[r] /\ ReqOK(r) BY <1>1 DEF DiskInv
  <2> QED BY <1>1, <2>1, ReqStays DEF Bounds
<1>16. JobOK(j)' BY <1>5, <1>6, <1>8 DEF JobOK
<1>17. ASSUME NEW i \in Jobs, i # j PROVE JobOK(i)'
  <2>1. job'[i] = job[i] /\ JobOK(i) BY <1>8, <1>17 DEF DiskInv
  <2> QED BY <1>1, <2>1, JobStays DEF D!Alive
<1> QED BY <1>1, <1>8, <1>9, <1>14, <1>15, <1>16, <1>17 DEF DiskInv

LEMMA CancelSeenHolds ==
  ASSUME D!DisksAssumption, ~Overlap, TypeInv, DiskInv, NEW j \in Jobs, D!CancelSeen(j)
  PROVE  TypeInv' /\ DiskInv' /\ tree' = tree /\ ask' = ask
<1> USE DEF TypeInv
<1>1. Bounds' /\ writes' = writes /\ UNCHANGED <<tree, ask, job>> BY BeginsOp DEF D!CancelSeen
<1>2. TreeTyped' /\ ReqTyped' BY <1>1 DEF TreeTyped, ReqTyped
<1>3. JobTyped' BY <1>1 DEF JobTyped, D!CancelSeen, D!Running, D!NoJob
<1>4. writes' \in Nat /\ writes <= writes' /\ Disturbs BY <1>1 DEF Bounds, Disturbs
<1> QED BY <1>1, <1>2, <1>3, <1>4, DisturbedStays

LEMMA CrashHolds ==
  ASSUME D!DisksAssumption, TypeInv, D!Crash
  PROVE  TypeInv' /\ DiskInv' /\ tree' = tree
<1> USE DEF TypeInv
<1>1. (\A r \in Asks : ask'[r] = D!Idle) /\ (\A j \in Jobs : job'[j] = D!NoJob) /\ UNCHANGED <<tree, ops, writes>>
  BY DEF D!Crash
<1>2. TypeInv' BY <1>1 DEF TreeTyped, ReqTyped, JobTyped, Bounds, D!Crash
<1>3. (\A r \in Asks : Places(r)' = {}) /\ (\A j \in Jobs : ~D!Alive(j)') /\ D!Movers' = {}
  BY <1>1 DEF Places, D!Alive, D!NoJob, D!Movers
<1>4. \A j \in Jobs : JobPlaces(j)' = {} BY <1>3 DEF JobPlaces
<1>5. Apart' BY <1>3, <1>4 DEF Apart
<1>6. (\A r \in Asks : ReqOK(r))' /\ (\A j \in Jobs : JobOK(j))' BY <1>1, <1>3 DEF ReqOK, JobOK
<1> QED BY <1>1, <1>2, <1>5, <1>6 DEF DiskInv
-----------------------------------------------------------------------------
(***************************************************************************)
(* All steps.                                                              *)
(***************************************************************************)
Overwrites == \E r \in Asks : ask'[r] # ask[r] /\ ask[r].policy = "overwrite"
Allowed ==
  /\ \A s \in D!Slots, p \in Parts : D!Writing(s, p) => ops' # ops \/ writes' # writes \/ Overwrites
  /\ \A r \in Asks : ask[r] # D!Idle /\ ask'[r] # ask[r] => MovedAll(r)

LEMMA RequestSteps ==
  ASSUME D!DisksAssumption, ~Overlap, TypeInv, DiskInv, NEW r \in Asks, D!RequestStep(r)
  PROVE  TypeInv' /\ DiskInv' /\ Allowed
<1>1. Carries(r) BY StepCarries
<1>2. ask[r] # D!Idle
  <2>1. \E pc \in {"choose", "rename", "list", "copy"} : D!At(r, pc)
    BY DEF D!RequestStep, D!Choose, D!RenameStep, D!ListFiles, D!CopyFile, D!CopyFails, D!EndCopy
  <2> QED BY <2>1, Busy
<1>3. TreeTyped' /\ ReqTyped' /\ Advances(r) /\ ReqOK(r)' BY <1>1 DEF Carries
<1>4. JobTyped' BY <1>3 DEF TypeInv, JobTyped, Advances
<1>5. writes' = writes BY <1>3 DEF Advances
<1>6. ops' = ops
  BY DEF D!RequestStep, D!Choose, D!RenameStep, D!ListFiles, D!CopyFile, D!CopyFails, D!EndCopy,
     D!counters
<1>7. TypeInv' BY <1>3, <1>4, <1>5, <1>6 DEF TypeInv, Bounds
<1>8. DiskInv' BY <1>2, <1>3, RequestGoesOn
<1>9. Allowed BY <1>1, <1>3 DEF Carries, Advances, Allowed, Overwrites
<1> QED BY <1>7, <1>8, <1>9

LEMMA JobSteps ==
  ASSUME D!DisksAssumption, ~Overlap, TypeInv, DiskInv, NEW j \in Jobs,
         D!JobStep(j) \/ D!CancelSet(j)
  PROVE  TypeInv' /\ DiskInv' /\ Allowed
<1>1. JobCarries(j) BY JobStepCarries, CancelCarries
<1>2. TreeTyped' /\ JobTyped' /\ JobAdvances(j) /\ JobOK(j)' BY <1>1 DEF JobCarries
<1>3. ReqTyped' BY <1>2 DEF TypeInv, ReqTyped, JobAdvances
<1>4. writes' = writes BY <1>2 DEF JobAdvances
<1>5. ops' = ops
  BY DEF D!JobStep, D!JobGoes, D!NameJob, D!ListJob, D!EndWalk, D!EndJob, D!BackupFile, D!JobFails,
     D!BackupFileFails, D!CancelSet, D!counters
<1>6. TypeInv' BY <1>2, <1>3, <1>4, <1>5 DEF TypeInv, Bounds
<1>7. DiskInv' BY <1>2, JobGoesOn
<1>8. Allowed BY <1>1, <1>2 DEF JobCarries, JobAdvances, Allowed
<1> QED BY <1>6, <1>7, <1>8

LEMMA OtherSteps ==
  ASSUME D!DisksAssumption, ~Overlap, TypeInv, DiskInv,
         \/ \E r \in Asks : D!Begins(r)
         \/ \E j \in Jobs : D!CancelSeen(j) \/ \E s \in D!Slots, d \in Backup : D!StartJob(j, s, d)
         \/ D!Crash
  PROVE  TypeInv' /\ DiskInv' /\ Allowed
<1>1. ASSUME NEW r \in Asks, D!Begins(r) PROVE TypeInv' /\ DiskInv' /\ Allowed
  <2>1. TypeInv' /\ DiskInv' /\ tree' = tree /\ ask[r] = D!Idle /\ \A q \in Asks \ {r} : ask'[q] = ask[q]
    <3>1. CASE \E s \in D!Slots, d \in D!Dirs, move \in BOOLEAN, policy \in D!Policies : D!Begin(r, s, d, move, policy)
      BY <3>1, BeginHolds
    <3>2. ASSUME NEW order \in D!Orders, NEW d \in Netdisk, NEW policy \in D!Policies, D!BeginRestore(r, order, d, policy)
          PROVE  TypeInv' /\ DiskInv' /\ tree' = tree /\ ask[r] = D!Idle /\ \A q \in Asks \ {r} : ask'[q] = ask[q]
      <4>1. d \in D!Dirs BY DEF D!Dirs
      <4>2. PICK n \in {1, 2} : order \in [1 .. n -> D!Slots]
        <5>1. CASE order \in {<<s>> : s \in D!Backups}
          <6>1. PICK s \in D!Slots : order = <<s>> BY <5>1 DEF D!Backups
          <6>2. order \in [1 .. 1 -> D!Slots] BY <6>1
          <6> QED BY <6>2
        <5>2. CASE order \in {<<s, t>> : s, t \in D!Backups}
          <6>1. PICK s \in D!Slots, t \in D!Slots : order = <<s, t>> BY <5>2 DEF D!Backups
          <6>2. order \in [1 .. 2 -> D!Slots] BY <6>1
          <6> QED BY <6>2
        <5> QED BY <5>1, <5>2 DEF D!Orders
      <4> QED BY <3>2, <4>1, <4>2, RestoreHolds
    <3> QED BY <1>1, <3>1, <3>2 DEF D!Begins
  <2>2. Allowed BY <2>1 DEF Allowed, D!Writing
  <2> QED BY <2>1, <2>2
<1>2. ASSUME NEW j \in Jobs, D!CancelSeen(j) \/ \E s \in D!Slots, d \in Backup : D!StartJob(j, s, d)
      PROVE  TypeInv' /\ DiskInv' /\ Allowed
  <2>1. TypeInv' /\ DiskInv' /\ tree' = tree /\ ask' = ask
    BY <1>2, CancelSeenHolds, StartHolds DEF D!Dirs
  <2> QED BY <2>1 DEF Allowed, D!Writing
<1>3. CASE D!Crash
  <2>1. TypeInv' /\ DiskInv' /\ tree' = tree BY <1>3, CrashHolds
  <2> QED BY <2>1 DEF Allowed, D!Writing, MovedAll
<1> QED BY <1>1, <1>2, <1>3

LEMMA DiskSteps ==
  ASSUME D!DisksAssumption, ~Overlap, TypeInv, DiskInv, NEW s \in D!Slots,
         \/ D!Delete(s) \/ D!BackupDelete(s)
         \/ \E p \in Parts : D!Write(s, p)
         \/ \E t \in D!Slots : D!Rename(s, t)
  PROVE  TypeInv' /\ DiskInv' /\ Allowed
<1>1. CASE D!Delete(s) \/ D!BackupDelete(s)
  <2>1. D!Deleted(s) BY <1>1 DEF D!Delete, D!BackupDelete
  <2>2. TypeInv' /\ DiskInv' /\ ops' # ops BY <2>1, DeleteDisturbs
  <2>3. ask' = ask BY <2>1 DEF D!Deleted
  <2> QED BY <2>2, <2>3 DEF Allowed
<1>2. ASSUME NEW p \in Parts, D!Write(s, p) PROVE TypeInv' /\ DiskInv' /\ Allowed
  <2>1. TypeInv' /\ DiskInv' BY <1>2, WriteDisturbs
  <2>2. ask' = ask /\ writes' # writes BY <1>2 DEF D!Write, TypeInv, Bounds
  <2> QED BY <2>1, <2>2 DEF Allowed
<1>3. ASSUME NEW t \in D!Slots, D!Rename(s, t) PROVE TypeInv' /\ DiskInv' /\ Allowed
  <2>1. TypeInv' /\ DiskInv' /\ ops' # ops BY <1>3, RenameDisturbs
  <2>2. ask' = ask BY <1>3 DEF D!Rename
  <2> QED BY <2>1, <2>2 DEF Allowed
<1> QED BY <1>1, <1>2, <1>3

LEMMA Steps ==
  ASSUME D!DisksAssumption, ~Overlap, TypeInv, DiskInv, [D!Next]_D!vars
  PROVE  TypeInv' /\ DiskInv' /\ Allowed
<1>1. CASE UNCHANGED D!vars
  <2>1. UNCHANGED <<tree, ask, job, cancel, ops, writes>> BY <1>1 DEF D!vars
  <2>2. TypeInv' BY <2>1 DEF TypeInv, TreeTyped, ReqTyped, JobTyped, Bounds
  <2>3. DiskInv' BY <2>1, DisturbedStays DEF Disturbs, TypeInv, Bounds
  <2> QED BY <2>1, <2>2, <2>3 DEF Allowed, D!Writing
<1>2. CASE \E r \in Asks : D!RequestStep(r) BY <1>2, RequestSteps
<1>3. CASE \E j \in Jobs : D!JobStep(j) \/ D!CancelSet(j) BY <1>3, JobSteps
<1>4. CASE \/ \E r \in Asks : D!Begins(r)
           \/ \E j \in Jobs : D!CancelSeen(j) \/ \E s \in D!Slots, d \in Backup : D!StartJob(j, s, d)
           \/ D!Crash
  BY <1>4, OtherSteps
<1>5. CASE \E s \in D!Slots : \/ D!Delete(s) \/ D!BackupDelete(s)
                              \/ \E p \in Parts : D!Write(s, p)
                              \/ \E t \in D!Slots : D!Rename(s, t)
  BY <1>5, DiskSteps
<1> QED BY <1>1, <1>2, <1>3, <1>4, <1>5 DEF D!Next

LEMMA Initially == ASSUME D!DisksAssumption, D!Init PROVE TypeInv /\ DiskInv
<1>1. (\A r \in Asks : ask[r] = D!Idle) /\ (\A j \in Jobs : job[j] = D!NoJob) /\ tree = Start
  BY DEF D!Init
<1>2. ASSUME NEW s \in D!Slots
      PROVE  (~tree[s].is => tree[s] = D!Empty) /\ \A p \in Parts : tree[s].has[p] # D!NoFile => tree[s].is /\ p \in PartsOf[s.name]
  <2>1. Start[s] \in Contained BY DEF Contained
  <2>2. {p \in Parts : Start[s].has[p] # D!NoFile} \subseteq IF Start[s].is THEN PartsOf[s.name] ELSE {} OBVIOUS
  <2>3. \A p \in Parts : Start[s].has[p] # D!NoFile => Start[s].is /\ p \in PartsOf[s.name] BY <2>2
  <2>4. ASSUME ~Start[s].is PROVE Start[s] = D!Empty
    <3>1. Start[s].has = [p \in Parts |-> D!NoFile] BY <2>1, <2>3, <2>4 DEF Contained
    <3> QED BY <2>1, <2>4, <3>1 DEF Contained, D!Empty
  <2> QED BY <1>1, <2>3, <2>4
<1>3. TypeInv BY <1>1, <1>2 DEF D!Init, TypeInv, TreeTyped, ReqTyped, JobTyped, Bounds, Contained
<1>4. (\A r \in Asks : Places(r) = {}) /\ (\A j \in Jobs : ~D!Alive(j)) /\ D!Movers = {}
  BY <1>1 DEF Places, D!Alive, D!NoJob, D!Movers
<1>5. Apart BY <1>4 DEF Apart, JobPlaces
<1>6. (\A r \in Asks : ReqOK(r)) /\ \A j \in Jobs : JobOK(j) BY <1>1, <1>4 DEF ReqOK, JobOK
<1> QED BY <1>3, <1>5, <1>6 DEF DiskInv

-----------------------------------------------------------------------------
(***************************************************************************)
(* The results, for any directories, names, files, requests and jobs, as    *)
(* long as nobody begins to work on a destination that is taken, or on what *)
(* another takes away (~Overlap).                                           *)
(***************************************************************************)
\* Requests and jobs at work claim different places (netdiskCopyOne, runBackup), none of
\* which a move takes away, and each finds what it has not written yet as it left it.
THEOREM ClaimsStayApart == ASSUME D!DisksAssumption, ~Overlap PROVE DiskSafety => [](TypeInv /\ DiskInv)
<1>1. D!Init => TypeInv /\ DiskInv BY Initially
<1>2. TypeInv /\ DiskInv /\ [D!Next]_D!vars => (TypeInv /\ DiskInv)' BY Steps
<1> QED BY <1>1, <1>2, PTL DEF DiskSafety

\* What a move removes from its source is at the destination, unless it was written there
\* after the move began (netdiskCopyOne, copyPathWithPolicy, netdiskTransfer).
THEOREM MovesKeep == ASSUME D!DisksAssumption, ~Overlap PROVE DiskSafety => D!MoveKeeps
<1>1. TypeInv /\ DiskInv /\ [D!Next]_D!vars =>
        \A r \in Asks :
          LET s == D!From(r)
              c(p) == tree[s].has[p]
          IN ask[r] # D!Idle /\ ask'[r] # ask[r] /\ ask[r].move /\ tree[s].is /\ ~tree'[s].is =>
               \A p \in Parts : c(p) \in 0 .. ask[r].at => tree'[D!To(r)].has[p] = c(p)
  BY Steps DEF Allowed, MovedAll
<1>2. DiskSafety => [](TypeInv /\ DiskInv) BY ClaimsStayApart
<1> QED BY <1>1, <1>2, PTL DEF DiskSafety, D!MoveKeeps

\* No copy, move, restore or backup writes over a file that is there, unless the request
\* says overwrite (nextFreeName, nextBackupName and the walk of copyPathWithPolicy).
THEOREM OnlyOverwritersReplace == ASSUME D!DisksAssumption, ~Overlap PROVE DiskSafety => D!OnlyOverwriteReplaces
<1>1. TypeInv /\ DiskInv /\ [D!Next]_D!vars =>
        \A s \in D!Slots, p \in Parts :
          D!Writing(s, p) =>
            \/ ops' # ops \/ writes' # writes
            \/ \E r \in Asks : ask'[r] # ask[r] /\ ask[r].policy = "overwrite"
  BY Steps DEF Allowed, Overwrites
<1>2. DiskSafety => [](TypeInv /\ DiskInv) BY ClaimsStayApart
<1> QED BY <1>1, <1>2, PTL DEF DiskSafety, D!OnlyOverwriteReplaces

\* A backup job that ends without a failed file holds what it read of each (runBackup).
THEOREM BackupsWhole == ASSUME D!DisksAssumption, ~Overlap PROVE DiskSafety => D!BackupWhole
<1>1. TypeInv /\ DiskInv =>
        \A j \in Jobs :
          job[j].pc = "done" /\ job'[j].pc = "ended" /\ ~job[j].failed =>
            \A p \in Parts : job[j].read[p] # D!NoFile => tree[job[j].to].has[p] = job[j].read[p]
  BY DEF DiskInv, JobOK, D!Alive
<1>2. DiskSafety => [](TypeInv /\ DiskInv) BY ClaimsStayApart
<1> QED BY <1>1, <1>2, PTL DEF DiskSafety, D!BackupWhole
=============================================================================
