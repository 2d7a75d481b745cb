-------------------------- MODULE PortForwardProofs -------------------------
(***************************************************************************)
(* Proofs about PortForward, for any sets of sockets, containers, networks *)
(* and concurrent handlers, and without any bound on the changes.          *)
(***************************************************************************)
EXTENDS PortForward, WellFoundedInduction, TLAPS

USE ForwardAssumption

\* The listing order has a first element among any claims on a socket.
LEMMA FirstClaim ==
  ASSUME NEW claims \in SUBSET Containers, claims # {}
  PROVE  \E c \in claims : \A d \in claims : Decl[c].rank <= Decl[d].rank
<1> DEFINE T == {Decl[c].rank : c \in claims}
           R == OpToRel(<, Nat)
<1>1. \A c \in Containers : Decl[c].rank \in Nat
  BY DEF Declaration
<1>2. T \subseteq Nat /\ T # {}
  BY <1>1
<1>3. IsWellFoundedOn(R, Nat)
  BY NatLessThanWellFounded
<1> HIDE DEF T
<1>4. \E x \in T : \A y \in T : ~(<<y, x>> \in R)
  BY <1>2, <1>3, WFMin
<1>a. \A x, y \in Nat : y < x => <<y, x>> \in R
  BY DEF OpToRel
<1> HIDE DEF R
<1>5. \E x \in T : \A y \in T : x <= y
  <2>1. PICK x \in T : \A y \in T : ~(<<y, x>> \in R)
    BY <1>4
  <2>2. ASSUME NEW y \in T PROVE x <= y
    <3>1. x \in Nat /\ y \in Nat
      BY <1>2
    <3>2. ~(y < x)
      BY <1>a, <2>1, <3>1, Zenon
    <3> QED BY <3>1, <3>2
  <2> QED BY <2>2
<1> QED BY <1>5, <1>1 DEF T

Maps == [Keys -> Served \cup {NoRule}]

\* A rule that passes Validate and has a target port is one a listener can serve.
LEMMA ServedRules ==
  ASSUME TypeOK, NEW forwarding, NEW ips \in [Containers -> Addrs \cup {NoAddr}]
  PROVE  ForwardRules(forwarding, ips) \in Maps
<1> SUFFICES ASSUME NEW k \in Keys PROVE ForwardRules(forwarding, ips)[k] \in Served \cup {NoRule}
  BY DEF ForwardRules, Maps
<1> DEFINE claims == {c \in running : HasSpec(c, k, forwarding) /\ Validate(k, ContainerRule(c, k, ips[c]))}
           first == CHOOSE c \in claims : \A d \in claims : Decl[c].rank <= Decl[d].rank
<1>1. CASE claims = {}
  BY <1>1 DEF ForwardRules
<1>2. CASE claims # {}
  <2>1. claims \in SUBSET Containers
    BY DEF TypeOK
  <2>2. first \in claims
    BY <1>2, <2>1, FirstClaim
  <2>3. first \in Containers /\ HasSpec(first, k, forwarding) /\ Validate(k, ContainerRule(first, k, ips[first]))
    BY <2>1, <2>2
  <2> HIDE DEF first, claims
  <2>a. Decl[first] \in Declaration
    BY <2>3
  <2>b. Decl[first].specs[k] \in [port : Ports \cup {0}, tls : BOOLEAN]
    BY <2>a DEF Declaration
  <2>4. Decl[first].specs[k].port \in Ports
    BY <2>3, <2>b DEF HasSpec
  <2>5. ips[first] \in Addrs
    BY <2>3 DEF Validate, ContainerRule
  <2>6. SpecTLS(first, k) \in BOOLEAN
    BY DEF SpecTLS
  <2>7. ContainerRule(first, k, ips[first]) \in Served
    <3> DEFINE gated == Decl[first].specs[k].port \in Decl[first].login
               tls == SpecTLS(first, k)
               port == Decl[first].specs[k].port
    <3>1. gated \in BOOLEAN /\ tls \in BOOLEAN
      BY <2>6
    <3>2. ContainerRule(first, k, ips[first]) =
            [ip |-> ips[first], port |-> port, tls |-> tls, login |-> gated, src |-> "container", id |-> first]
      BY DEF ContainerRule
    <3> HIDE DEF gated, tls, port
    <3>3. port \in Ports
      BY <2>4 DEF port
    <3> QED BY <2>3, <2>5, <3>1, <3>2, <3>3 DEF Served
  <2>8. ForwardRules(forwarding, ips)[k] = ContainerRule(first, k, ips[first])
    BY <1>2 DEF ForwardRules, first, claims
  <2> QED BY <2>7, <2>8
<1> QED BY <1>1, <1>2

LEMMA ServedManualRules ==
  ASSUME NEW rows \in [Keys -> Row \cup {NoRow}], NEW ips \in [Containers -> Addrs \cup {NoAddr}]
  PROVE  ManualRules(rows, ips) \in Maps
<1> SUFFICES ASSUME NEW k \in Keys PROVE ManualRules(rows, ips)[k] \in Served \cup {NoRule}
  BY DEF ManualRules, Maps
<1> DEFINE row == rows[k]
           r   == [ip |-> IF row.cid = NoId THEN row.ip ELSE ips[row.cid],
                   port |-> row.port, tls |-> FALSE, login |-> row.login, src |-> "manual", id |-> row.cid]
<1>1. ManualRules(rows, ips)[k] = IF row # NoRow /\ Validate(k, r) THEN r ELSE NoRule
  BY DEF ManualRules
<1>2. row \in Row \cup {NoRow}
  OBVIOUS
<1> HIDE DEF row
<1>4. ASSUME row # NoRow, Validate(k, r) PROVE r \in Served
  <2>1. row \in Row
    BY <1>2, <1>4
  <2>2. r.ip \in Addrs
    BY <1>4, <2>1 DEF Validate, Row
  <2> QED BY <2>1, <2>2 DEF Served, Row
<1> HIDE DEF r
<1> QED BY <1>1, <1>4

-----------------------------------------------------------------------------
(***************************************************************************)
(* Types.  The reconcile's locals are always maps of servable rules, so    *)
(* what Apply installs is one too.                                         *)
(***************************************************************************)
Blank == [k \in Keys |-> NoRow]

LEMMA Blanks == Nowhere \in Maps /\ Blank \in [Keys -> Row \cup {NoRow}]
BY DEF Nowhere, Maps, Blank

LEMMA ListedType == \A ips \in ListedIPs : ips \in [Containers -> Addrs \cup {NoAddr}]
BY DEF ListedIPs

LEMMA WatchType == Watch => calm' \subseteq Procs
BY DEF Watch

LEMMA TypeInit == Init => TypeOK
<1> SUFFICES ASSUME Init PROVE TypeOK
  OBVIOUS
<1>1. /\ running \subseteq present /\ present \subseteq Containers /\ config \subseteq Networks
      /\ busy \subseteq Keys /\ cert \in BOOLEAN /\ closed \in BOOLEAN
      /\ calm \subseteq Procs /\ changes \in Nat /\ faults \in Nat
  BY DEF Init
<1>2. place \in [Containers -> [Networks -> Addrs \cup {NoAddr}]]
  BY DEF Init, NoPlace
<1>3. manual \in [Keys -> Row \cup {NoRow}]
  BY DEF Init
<1>4. entries \in Maps /\ crules \in [Procs -> Maps] /\ mrules \in [Procs -> Maps]
  BY Blanks DEF Init
<1>5. stored \in [Procs -> [Keys -> Row \cup {NoRow}]]
  BY Blanks DEF Init, Blank
<1>6. born \in [Keys -> {0, 1}] /\ pc \in [Procs -> {"idle"}] /\ nets \in [Procs -> SUBSET Networks]
      /\ failed \in [Procs -> SUBSET {"list", "targets"}]
  BY DEF Init
<1>7. arg \in [Handlers -> [key : Keys \cup {NoId}, row : Row \cup {NoRow}, nets : SUBSET Networks]]
  BY DEF Init, NoArg
<1> QED BY <1>1, <1>2, <1>3, <1>4, <1>5, <1>6, <1>7 DEF TypeOK, Maps, Labels

LEMMA TypeSync ==
  ASSUME TypeOK, NEW p \in Procs, SyncStep(p), Watch
  PROVE  TypeOK'
<1>0. calm' \subseteq Procs
  BY WatchType
<1> USE <1>0 DEF TypeOK, Goto, Labels, world, manager
<1>1. CASE ReadNetworks(p)
  <2>1. nets' \in [Procs -> SUBSET Networks]
    BY <1>1 DEF ReadNetworks
  <2>2. faults' \in Nat
    BY <1>1 DEF ReadNetworks, Fault
  <2> QED BY <1>1, <2>1, <2>2 DEF ReadNetworks
<1>2. CASE ListRules(p)
  <2>1. CarriedOver \in Maps
    BY DEF CarriedOver, Maps
  <2>2. PICK m \in Maps : crules' = [crules EXCEPT ![p] = m]
    BY <1>2, <2>1, ServedRules, ListedType DEF ListRules
  <2>3. PICK f \in SUBSET {"list", "targets"} : failed' = [failed EXCEPT ![p] = f]
    BY <1>2 DEF ListRules
  <2>4. faults' \in Nat
    BY <1>2 DEF ListRules, Fault
  <2> QED BY <1>2, <2>2, <2>3, <2>4 DEF ListRules, Maps
<1>3. CASE ReadRows(p)
  <2>1. PICK b \in [Keys -> Row \cup {NoRow}] : stored' = [stored EXCEPT ![p] = b]
    BY <1>3, Blanks DEF ReadRows, Blank
  <2>2. faults' \in Nat
    BY <1>3 DEF ReadRows, Fault
  <2> QED BY <1>3, <2>1, <2>2 DEF ReadRows
<1>4. CASE ResolveTargets(p)
  <2>1. Unresolved \in [Containers -> Addrs \cup {NoAddr}]
    BY DEF Unresolved
  <2>2. PICK m \in Maps : mrules' = [mrules EXCEPT ![p] = m]
    BY <1>4, <2>1, ServedManualRules, ListedType DEF ResolveTargets
  <2>a. failed[p] \in SUBSET {"list", "targets"} /\ failed = [failed EXCEPT ![p] = failed[p]]
    OBVIOUS
  <2>b. failed' = failed \/ failed' = [failed EXCEPT ![p] = failed[p] \cup {"targets"}]
    BY <1>4 DEF ResolveTargets
  <2>3. PICK f \in SUBSET {"list", "targets"} : failed' = [failed EXCEPT ![p] = f]
    BY <2>a, <2>b
  <2>4. faults' \in Nat
    BY <1>4 DEF ResolveTargets, Fault
  <2> QED BY <1>4, <2>2, <2>3, <2>4 DEF ResolveTargets, Maps
<1>5. CASE Apply(p)
  <2>1. Want(p) \in Maps
    BY DEF Want, Maps
  <2>2. Reconciled(Want(p)) \in Maps /\ Reborn(Want(p)) \in [Keys -> {0, 1}]
    BY <2>1 DEF Reconciled, Reborn, Maps
  <2>3. entries' \in Maps /\ born' \in [Keys -> {0, 1}]
    BY <1>5, <2>2 DEF Apply, Maps
  <2>4. /\ nets' \in [Procs -> SUBSET Networks]
        /\ crules' \in [Procs -> Maps] /\ mrules' \in [Procs -> Maps]
        /\ failed' \in [Procs -> SUBSET {"list", "targets"}]
        /\ stored' \in [Procs -> [Keys -> Row \cup {NoRow}]]
    BY <1>5, Blanks DEF Apply, Forget, Maps, Blank
  <2> QED BY <1>5, <2>3, <2>4 DEF Apply, Maps
<1> QED BY <1>1, <1>2, <1>3, <1>4, <1>5 DEF SyncStep

LEMMA TypeHandler ==
  ASSUME TypeOK, NEW h \in Handlers, Request(h) \/ HandlerStep(h), Watch
  PROVE  TypeOK'
<1>0. calm' \subseteq Procs
  BY WatchType
<1> USE <1>0 DEF TypeOK, Goto, Labels, world, manager, locals, Change
<1>1. CASE ForwardsPage(h)
  BY <1>1 DEF ForwardsPage, Procs
<1>2. ASSUME NEW r \in Rows, ForwardAdd(h, r.key, r.row) PROVE TypeOK'
  <2>1. r.key \in Keys /\ r.row \in Row
    OBVIOUS
  <2>2. arg' \in [Handlers -> [key : Keys \cup {NoId}, row : Row \cup {NoRow}, nets : SUBSET Networks]]
    BY <1>2, <2>1 DEF ForwardAdd
  <2> QED BY <1>2, <2>2 DEF ForwardAdd, Procs
<1>3. ASSUME NEW k \in Keys, ForwardDelete(h, k) PROVE TypeOK'
  BY <1>3 DEF ForwardDelete, Procs
<1>4. ASSUME NEW s \in SUBSET Networks, SaveSettings(h, s) PROVE TypeOK'
  BY <1>4 DEF SaveSettings, Procs
<1>5. ASSUME NEW n \in Networks, NEW b \in BOOLEAN, NetworkForward(h, n, b) PROVE TypeOK'
  <2>1. PICK s \in SUBSET Networks : arg' = [arg EXCEPT ![h] = [key |-> NoId, row |-> NoRow, nets |-> s]]
    BY <1>5 DEF NetworkForward
  <2>2. arg' \in [Handlers -> [key : Keys \cup {NoId}, row : Row \cup {NoRow}, nets : SUBSET Networks]]
    BY <2>1
  <2> QED BY <1>5, <2>2 DEF NetworkForward, Procs
<1>6. CASE InsertRow(h)
  <2>a. arg[h].row \in Row \cup {NoRow}
    OBVIOUS
  <2>1. manual' \in [Keys -> Row \cup {NoRow}]
    <3> DEFINE row == arg[h].row
    <3>1. manual' = [manual EXCEPT ![arg[h].key] = row] \/ manual' = manual
      BY <1>6 DEF InsertRow
    <3>2. row \in Row \cup {NoRow}
      BY <2>a
    <3> HIDE DEF row
    <3> QED BY <3>1, <3>2
  <2> QED BY <1>6, <2>1 DEF InsertRow, NoArg, Procs
<1>7. CASE SaveNetworks(h)
  BY <1>7 DEF SaveNetworks, NoArg, Procs
<1>8. CASE CheckSocket(h)
  <2>1. arg' \in [Handlers -> [key : Keys \cup {NoId}, row : Row \cup {NoRow}, nets : SUBSET Networks]]
    BY <1>8 DEF CheckSocket, NoArg
  <2>2. faults' \in Nat
    BY <1>8 DEF CheckSocket, Fault
  <2>3. pc' \in [Procs -> Labels]
    BY <1>8 DEF CheckSocket, Procs
  <2> QED BY <1>8, <2>1, <2>2, <2>3 DEF CheckSocket
<1> QED BY <1>1, <1>2, <1>3, <1>4, <1>5, <1>6, <1>7, <1>8 DEF Request, HandlerStep

LEMMA TypeRest ==
  ASSUME TypeOK, Sweep \/ Close \/ World, Watch
  PROVE  TypeOK'
<1>0. calm' \subseteq Procs
  BY WatchType
<1> USE <1>0 DEF TypeOK, Goto, Labels, world, manager, locals, Change
<1>1. CASE Sweep
  BY <1>1 DEF Sweep, Procs
<1>2. CASE Close
  BY <1>2, Blanks DEF Close, Maps
<1>3. ASSUME NEW c \in Containers, NEW where \in Places[c], ContainerStarts(c, where) PROVE TypeOK'
  BY <1>3 DEF ContainerStarts
<1>4. ASSUME NEW c \in Containers, NEW gone \in BOOLEAN, ContainerStops(c, gone) PROVE TypeOK'
  BY <1>4 DEF ContainerStops, NoPlace
<1>5. ASSUME NEW k \in Keys, SocketTaken(k) \/ SocketFreed(k) PROVE TypeOK'
  BY <1>5 DEF SocketTaken, SocketFreed
<1> QED BY <1>1, <1>2, <1>3, <1>4, <1>5 DEF World

\* Every listener serves a complete rule: a known address and port, from a
\* container or from a stored row (Validate, and the reconcile's locals).
THEOREM TypeCorrect == Safety => []TypeOK
<1>1. TypeOK /\ [Next]_vars => TypeOK'
  <2> SUFFICES ASSUME TypeOK, [Next]_vars PROVE TypeOK'
    OBVIOUS
  <2>1. CASE UNCHANGED vars
    BY <2>1 DEF vars, system, world, manager, locals, TypeOK
  <2> QED BY <2>1, TypeSync, TypeHandler, TypeRest DEF Next, Step
<1> QED BY <1>1, TypeInit, PTL DEF Safety

-----------------------------------------------------------------------------
\* Which steps touch the manager, the sockets and the rules a reconcile holds.
TouchesManager == Close \/ \E p \in Procs : Apply(p)
TouchesRules == \E p \in Procs : ListRules(p) \/ ResolveTargets(p) \/ Apply(p)
TouchesSockets == \E k \in Keys : SocketTaken(k) \/ SocketFreed(k)

LEMMA Touches ==
  ASSUME [Next]_vars
  PROVE  /\ UNCHANGED manager \/ TouchesManager
         /\ UNCHANGED <<crules, mrules>> \/ TouchesRules
         /\ UNCHANGED busy \/ TouchesSockets
         /\ UNCHANGED cert
<1> DEFINE Goal == /\ UNCHANGED manager \/ TouchesManager
                   /\ UNCHANGED <<crules, mrules>> \/ TouchesRules
                   /\ UNCHANGED busy \/ TouchesSockets
                   /\ UNCHANGED cert
<1> USE DEF world, manager, locals
<1>1. CASE UNCHANGED vars
  BY <1>1 DEF vars, system
<1>2. ASSUME NEW p \in Procs, SyncStep(p) PROVE Goal
  <2>1. CASE ReadNetworks(p) BY <2>1 DEF ReadNetworks
  <2>2. CASE ListRules(p) BY <2>2 DEF ListRules, TouchesRules
  <2>3. CASE ReadRows(p) BY <2>3 DEF ReadRows
  <2>4. CASE ResolveTargets(p) BY <2>4 DEF ResolveTargets, TouchesRules
  <2>5. CASE Apply(p) BY <2>5 DEF Apply, TouchesRules, TouchesManager
  <2> QED BY <1>2, <2>1, <2>2, <2>3, <2>4, <2>5 DEF SyncStep
<1>3. ASSUME NEW h \in Handlers, Request(h) PROVE Goal
  BY <1>3 DEF Request, ForwardsPage, ForwardAdd, ForwardDelete, SaveSettings, NetworkForward
<1>4. ASSUME NEW h \in Handlers, HandlerStep(h) PROVE Goal
  BY <1>4 DEF HandlerStep, CheckSocket, InsertRow, SaveNetworks
<1>5. CASE Sweep BY <1>5 DEF Sweep
<1>6. CASE Close BY <1>6 DEF Close, TouchesManager
<1>7. CASE World
  BY <1>7 DEF World, ContainerStarts, ContainerStops, SocketTaken, SocketFreed, TouchesSockets
<1> QED BY <1>1, <1>2, <1>3, <1>4, <1>5, <1>6, <1>7 DEF Next, Step

\* A closed manager never listens again: no reconcile in flight at shutdown can
\* resurrect a listener (Manager.Close, Manager.Apply).
THEOREM StaysClosed == Safety => []ClosedForGood
<1>1. Init => ClosedForGood
  BY DEF Init, ClosedForGood
<1>2. ClosedForGood /\ [Next]_vars => ClosedForGood'
  <2> SUFFICES ASSUME ClosedForGood, [Next]_vars PROVE ClosedForGood'
    OBVIOUS
  <2> USE DEF ClosedForGood
  <2>1. ASSUME NEW p \in Procs, Apply(p) PROVE ClosedForGood'
    BY <2>1 DEF Apply
  <2>2. CASE Close BY <2>2 DEF Close
  <2>3. CASE UNCHANGED manager BY <2>3 DEF manager
  <2>4. UNCHANGED manager \/ Close \/ \E p \in Procs : Apply(p)
    BY Touches DEF TouchesManager
  <2> QED BY <2>1, <2>2, <2>3, <2>4
<1> QED BY <1>1, <1>2, PTL DEF Safety

-----------------------------------------------------------------------------
(***************************************************************************)
(* Honoured needs the rules a reconcile holds to be valid before Apply     *)
(* sees them.                                                              *)
(***************************************************************************)
Checked(m) == \A k \in Keys : m[k] # NoRule => Validate(k, m[k])

HonouredInv ==
  /\ TypeOK
  /\ Honoured
  /\ \A p \in Procs : Checked(crules[p]) /\ Checked(mrules[p])

LEMMA CheckedForwardRules ==
  ASSUME TypeOK, NEW forwarding, NEW ips
  PROVE  Checked(ForwardRules(forwarding, ips))
<1> SUFFICES ASSUME NEW k \in Keys, ForwardRules(forwarding, ips)[k] # NoRule
             PROVE  Validate(k, ForwardRules(forwarding, ips)[k])
  BY DEF Checked
<1> DEFINE claims == {c \in running : HasSpec(c, k, forwarding) /\ Validate(k, ContainerRule(c, k, ips[c]))}
           first == CHOOSE c \in claims : \A d \in claims : Decl[c].rank <= Decl[d].rank
<1>1. claims # {} /\ ForwardRules(forwarding, ips)[k] = ContainerRule(first, k, ips[first])
  BY DEF ForwardRules
<1>2. first \in claims
  BY <1>1, FirstClaim DEF TypeOK
<1> QED BY <1>1, <1>2

LEMMA CheckedManualRules ==
  ASSUME NEW rows, NEW ips
  PROVE  Checked(ManualRules(rows, ips))
BY DEF Checked, ManualRules

LEMMA HonouredStep ==
  ASSUME HonouredInv, TypeOK', [Next]_vars
  PROVE  HonouredInv'
<1>1. TypeOK /\ Honoured /\ \A p \in Procs : Checked(crules[p]) /\ Checked(mrules[p])
  BY DEF HonouredInv
<1>2. Checked(Nowhere) /\ Checked(CarriedOver)
  <2>1. Checked(Nowhere)
    BY DEF Checked, Nowhere
  <2>2. ASSUME NEW k \in Keys, CarriedOver[k] # NoRule PROVE Validate(k, CarriedOver[k])
    <3>1. entries[k] \in Served /\ CarriedOver[k] = entries[k] /\ entries[k] # NoRule
      BY <1>1, <2>2 DEF CarriedOver, TypeOK
    <3>2. entries[k].ip # NoAddr
      BY <3>1 DEF Served
    <3> QED BY <1>1, <3>1, <3>2 DEF Honoured, Validate
  <2> QED BY <2>1, <2>2 DEF Checked
<1>3. ASSUME NEW p \in Procs, ListRules(p) \/ ResolveTargets(p) \/ Apply(p),
             NEW q \in Procs
      PROVE  Checked(crules'[q]) /\ Checked(mrules'[q])
  <2>1. CASE ListRules(p)
    <3>1. PICK m : crules' = [crules EXCEPT ![p] = m] /\ Checked(m)
      BY <1>1, <1>2, <2>1, CheckedForwardRules DEF ListRules
    <3> QED BY <1>1, <2>1, <3>1 DEF ListRules, TypeOK
  <2>2. CASE ResolveTargets(p)
    <3>1. PICK m : mrules' = [mrules EXCEPT ![p] = m] /\ Checked(m)
      BY <2>2, CheckedManualRules DEF ResolveTargets
    <3> QED BY <1>1, <2>2, <3>1 DEF ResolveTargets, TypeOK
  <2>3. CASE Apply(p)
    BY <1>1, <1>2, <2>3 DEF Apply, Forget, TypeOK
  <2> QED BY <1>3, <2>1, <2>2, <2>3
<1>4. ASSUME NEW q \in Procs PROVE Checked(crules[q])' /\ Checked(mrules[q])'
  <2>1. CASE UNCHANGED <<crules, mrules>>
    BY <1>1, <2>1 DEF Checked, Validate
  <2>2. CASE TouchesRules
    BY <1>3, <2>2 DEF TouchesRules, Checked, Validate
  <2> QED BY <2>1, <2>2, Touches
<1>5. ASSUME NEW k \in Keys, entries'[k] # NoRule
      PROVE  /\ k \notin busy'
             /\ entries'[k].tls => cert'
             /\ k \in UdpKeys => ~entries'[k].login /\ ~entries'[k].tls
  <2>0. cert' = cert
    BY Touches
  <2>1. CASE UNCHANGED manager
    <3>1. entries' = entries
      BY <2>1 DEF manager
    <3>2. k \notin busy'
      BY <1>1, <1>5, <3>1, Touches DEF TouchesSockets, SocketTaken, SocketFreed, Honoured
    <3> QED BY <1>1, <1>5, <2>0, <3>1, <3>2 DEF Honoured
  <2>2. CASE Close
    BY <1>5, <2>2 DEF Close, Nowhere
  <2>3. ASSUME NEW p \in Procs, Apply(p)
        PROVE  /\ k \notin busy'
               /\ entries'[k].tls => cert'
               /\ k \in UdpKeys => ~entries'[k].login /\ ~entries'[k].tls
    <3>0. busy' = busy
      BY <2>3 DEF Apply, world
    <3>1. CASE closed
      BY <1>1, <1>5, <2>0, <2>3, <3>0, <3>1 DEF Apply, Honoured
    <3>2. CASE ~closed
      <4>1. Want(p)[k] # NoRule /\ entries'[k] = Want(p)[k]
            /\ (Keep(k, Want(p)[k]) \/ CanStart(k, Want(p)[k]))
        BY <1>5, <2>3, <3>2 DEF Apply, Reconciled
      <4>2. Validate(k, Want(p)[k])
        BY <1>1, <4>1 DEF Want, Checked
      <4>3. k \notin busy /\ (Want(p)[k].tls => cert)
        BY <1>1, <4>1 DEF Keep, CanStart, Honoured
      <4> QED BY <2>0, <3>0, <4>1, <4>2, <4>3 DEF Validate
    <3> QED BY <3>1, <3>2
  <2> QED BY <2>1, <2>2, <2>3, Touches DEF TouchesManager
<1> QED BY <1>4, <1>5 DEF HonouredInv, Honoured

\* Every listener can honour what its rule promises, whatever reconciles are
\* interleaved: its socket is its own, TLS has a certificate, and no UDP
\* listener carries a login gate or TLS (Rule.Validate, Manager.start).
THEOREM RulesHonoured == Safety => []Honoured
<1>1. Init => HonouredInv
  <2>1. Init => Honoured /\ \A p \in Procs : Checked(crules[p]) /\ Checked(mrules[p])
    BY DEF Init, Honoured, Checked, Nowhere
  <2> QED BY <2>1, TypeInit DEF HonouredInv
<1>2. HonouredInv /\ TypeOK' /\ [Next]_vars => HonouredInv'
  BY HonouredStep
<1>3. HonouredInv => Honoured
  BY DEF HonouredInv
<1> QED BY <1>1, <1>2, <1>3, TypeCorrect, PTL DEF Safety
-----------------------------------------------------------------------------
\* Which steps make a listing fail, and which one takes a reconcile to its end.
LEMMA Outages ==
  ASSUME TypeOK, [Next]_vars, NEW p \in Procs
  PROVE  /\ ListFails(p) => crules' = [crules EXCEPT ![p] = CarriedOver]
         /\ Applies(p) => Apply(p)
<1> DEFINE Goal == /\ ListFails(p) => crules' = [crules EXCEPT ![p] = CarriedOver]
                   /\ Applies(p) => Apply(p)
<1> USE DEF TypeOK, ListFails, Applies
<1>1. ASSUME NEW q \in Procs, SyncStep(q) PROVE Goal
  <2>1. CASE ReadNetworks(q) BY <2>1 DEF ReadNetworks, Goto
  <2>2. CASE ListRules(q) BY <2>2 DEF ListRules, Goto
  <2>3. CASE ReadRows(q) BY <2>3 DEF ReadRows, Goto
  <2>4. CASE ResolveTargets(q) BY <2>4 DEF ResolveTargets, Goto
  <2>5. CASE Apply(q) BY <2>5 DEF Apply, Forget, Goto
  <2> QED BY <1>1, <2>1, <2>2, <2>3, <2>4, <2>5 DEF SyncStep
<1>2. ASSUME NEW h \in Handlers, Request(h) \/ HandlerStep(h) PROVE Goal
  BY <1>2 DEF Request, ForwardsPage, ForwardAdd, ForwardDelete, SaveSettings, NetworkForward, HandlerStep,
     CheckSocket, InsertRow, SaveNetworks, Goto, locals, Procs
<1>3. CASE Sweep BY <1>3 DEF Sweep, Goto, locals, Procs
<1>4. CASE Close \/ World
  BY <1>4 DEF Close, World, ContainerStarts, ContainerStops, SocketTaken, SocketFreed, locals
<1>5. CASE UNCHANGED vars BY <1>5 DEF vars, system, locals
<1> QED BY <1>1, <1>2, <1>3, <1>4, <1>5 DEF Next, Step

\* A reconcile whose container listing failed disturbs no container's forward that was
\* served when it failed and still is: what it carries over wins over any row, and is
\* kept by Apply as it stands (SyncPortForward, the error branch).
THEOREM OutageDisturbsNothing == Safety => OutageKeepsContainers
<1>1. TypeOK /\ [Next]_vars =>
        [\A p \in Procs, k \in Keys : entries[k].src = "container" =>
           /\ ListFails(p) => crules'[p][k] = entries[k]
           /\ Applies(p) /\ "list" \in failed[p] /\ crules[p][k] = entries[k] =>
                entries'[k] = entries[k] /\ born'[k] = born[k]]_vars
  <2> SUFFICES ASSUME TypeOK, [Next]_vars, NEW p \in Procs, NEW k \in Keys, entries[k].src = "container"
               PROVE  /\ ListFails(p) => crules'[p][k] = entries[k]
                      /\ Applies(p) /\ crules[p][k] = entries[k] =>
                           entries'[k] = entries[k] /\ born'[k] = born[k]
    OBVIOUS
  <2>1. ASSUME ListFails(p) PROVE crules'[p][k] = entries[k]
    <3>1. crules'[p] = CarriedOver
      BY <2>1, Outages DEF TypeOK
    <3> QED BY <3>1 DEF CarriedOver
  <2>2. ASSUME Applies(p), crules[p][k] = entries[k]
        PROVE  entries'[k] = entries[k] /\ born'[k] = born[k]
    <3>1. Apply(p) /\ ~closed
      BY <2>2, Outages DEF Applies
    <3>2. entries[k] # NoRule
      BY DEF NoRule
    <3>3. Want(p)[k] = entries[k]
      BY <2>2, <3>2 DEF Want
    <3>4. Keep(k, Want(p)[k])
      BY <3>2, <3>3 DEF Keep, SameTarget
    <3> QED BY <3>1, <3>2, <3>3, <3>4 DEF Apply, Reconciled, Reborn
  <2> QED BY <2>1, <2>2
<1> QED BY <1>1, TypeCorrect, PTL DEF Safety, OutageKeepsContainers
-----------------------------------------------------------------------------
(***************************************************************************)
(* CalmKeeps: what a calm reconcile has read so far is what is there, and  *)
(* two listings of the same containers give the same sockets to containers *)
(* even where they resolve another address.                                *)
(***************************************************************************)
HasRead(p) ==
  /\ pc[p] \in {"list", "rows", "targets", "apply"} => nets[p] = config
  /\ pc[p] \in {"rows", "targets", "apply"} => \E ips \in ListedIPs : crules[p] = ForwardRules(config, ips)
  /\ pc[p] \in {"targets", "apply"} => stored[p] = manual
  /\ pc[p] = "apply" => \E ips \in ListedIPs : mrules[p] = ManualRules(manual, ips)

CalmInv == TypeOK /\ \A p \in calm : Reconciling(pc[p]) /\ HasRead(p)

\* What one step does to a goroutine's place and to what its reconcile holds.
LEMMA StepOf ==
  ASSUME TypeOK, [Next]_vars, NEW p \in Procs
  PROVE  \/ /\ pc'[p] = pc[p] /\ nets'[p] = nets[p] /\ stored'[p] = stored[p]
            /\ crules'[p] = crules[p] /\ mrules'[p] = mrules[p]
         \/ SyncStep(p)
         \/ ~Reconciling(pc[p]) /\ (Reconciling(pc'[p]) => pc'[p] = "networks")
<1> DEFINE Same == /\ pc'[p] = pc[p] /\ nets'[p] = nets[p] /\ stored'[p] = stored[p]
                   /\ crules'[p] = crules[p] /\ mrules'[p] = mrules[p]
           Goal == \/ Same
                   \/ SyncStep(p)
                   \/ ~Reconciling(pc[p]) /\ (Reconciling(pc'[p]) => pc'[p] = "networks")
<1> USE DEF TypeOK, Goto, Reconciling
<1>1. ASSUME NEW q \in Procs, SyncStep(q) PROVE Goal
  <2>1. CASE q = p BY <1>1, <2>1
  <2> SUFFICES ASSUME q # p PROVE Same
    BY <2>1
  <2>2. CASE ReadNetworks(q) BY <2>2 DEF ReadNetworks
  <2>3. CASE ListRules(q) BY <2>3 DEF ListRules
  <2>4. CASE ReadRows(q) BY <2>4 DEF ReadRows
  <2>5. CASE ResolveTargets(q) BY <2>5 DEF ResolveTargets
  <2>6. CASE Apply(q) BY <2>6 DEF Apply, Forget
  <2> QED BY <1>1, <2>2, <2>3, <2>4, <2>5, <2>6 DEF SyncStep
<1>2. ASSUME NEW h \in Handlers, Request(h) PROVE Goal
  BY <1>2 DEF Request, ForwardsPage, ForwardAdd, ForwardDelete, SaveSettings, NetworkForward, locals, Procs
<1>3. ASSUME NEW h \in Handlers, HandlerStep(h) PROVE Goal
  <2>1. CASE CheckSocket(h) BY <2>1 DEF CheckSocket, locals, Procs
  <2>2. CASE InsertRow(h) BY <2>2 DEF InsertRow, locals, Procs
  <2>3. CASE SaveNetworks(h) BY <2>3 DEF SaveNetworks, locals, Procs
  <2> QED BY <1>3, <2>1, <2>2, <2>3 DEF HandlerStep
<1>4. CASE Sweep BY <1>4 DEF Sweep, locals, Procs
<1>5. CASE Close \/ World
  BY <1>5 DEF Close, World, ContainerStarts, ContainerStops, SocketTaken, SocketFreed, locals
<1>6. CASE UNCHANGED vars BY <1>6 DEF vars, system, locals
<1> QED BY <1>1, <1>2, <1>3, <1>4, <1>5, <1>6 DEF Next, Step

\* What there is to read stays as it is as long as nothing a reconcile reads changes.
LEMMA SameToRead ==
  ASSUME UNCHANGED <<running, place, config, manual>>
  PROVE  /\ ListedIPs' = ListedIPs
         /\ \A ips : ForwardRules(config, ips)' = ForwardRules(config, ips)
         /\ \A ips : ManualRules(manual, ips)' = ManualRules(manual, ips)
<1>1. ListedIPs' = ListedIPs
  BY DEF ListedIPs, ForwardIP, Held
<1>2. \A ips : ForwardRules(config, ips)' = ForwardRules(config, ips)
  BY DEF ForwardRules, HasSpec
<1>3. \A ips : ManualRules(manual, ips)' = ManualRules(manual, ips)
  BY DEF ManualRules
<1> QED BY <1>1, <1>2, <1>3

LEMMA StillRead ==
  ASSUME NEW p \in Procs, HasRead(p), UNCHANGED <<running, place, config, manual>>,
         pc'[p] = pc[p], nets'[p] = nets[p], stored'[p] = stored[p], crules'[p] = crules[p], mrules'[p] = mrules[p]
  PROVE  HasRead(p)'
BY SameToRead DEF HasRead

\* A step of its own in which no call fails leaves a calm reconcile with what is there.
LEMMA ReadsWhatIsThere ==
  ASSUME TypeOK, NEW p \in Procs, SyncStep(p), HasRead(p), Reconciling(pc'[p]),
         UNCHANGED <<running, place, config, manual, faults>>
  PROVE  HasRead(p)'
<1>0. ~Fault
  BY DEF Fault, TypeOK
<1>1. ListedIPs' = ListedIPs
  BY SameToRead
<1>2. \A ips : ForwardRules(config, ips)' = ForwardRules(config, ips)
  BY SameToRead
<1>3. \A ips : ManualRules(manual, ips)' = ManualRules(manual, ips)
  BY SameToRead
<1> USE <1>0 DEF TypeOK, Goto
<1>4. CASE ReadNetworks(p)
  BY <1>4 DEF ReadNetworks, HasRead
<1>5. CASE ListRules(p)
  <2>1. nets[p] = config /\ pc'[p] = "rows" /\ nets'[p] = nets[p]
    BY <1>5 DEF ListRules, HasRead
  <2>2. \E ips \in ListedIPs : crules'[p] = ForwardRules(config, ips)
    BY <1>5, <2>1 DEF ListRules
  <2> QED BY <1>1, <1>2, <2>1, <2>2 DEF HasRead
<1>6. CASE ReadRows(p)
  <2>1. pc[p] = "rows" /\ pc'[p] = "targets" /\ nets'[p] = nets[p] /\ crules'[p] = crules[p]
    BY <1>6 DEF ReadRows
  <2>2. stored'[p] = manual
    BY <1>6 DEF ReadRows
  <2> QED BY <1>1, <1>2, <2>1, <2>2 DEF HasRead
<1>7. CASE ResolveTargets(p)
  <2>1. /\ pc[p] = "targets" /\ pc'[p] = "apply" /\ nets'[p] = nets[p] /\ crules'[p] = crules[p]
        /\ stored'[p] = stored[p]
    BY <1>7 DEF ResolveTargets
  <2>2. \E ips \in ListedIPs : mrules'[p] = ManualRules(manual, ips)
    BY <1>7, <2>1 DEF ResolveTargets, HasRead
  <2> QED BY <1>1, <1>2, <1>3, <2>1, <2>2 DEF HasRead
<1>8. CASE Apply(p)
  BY <1>8 DEF Apply, Reconciling
<1> QED BY <1>4, <1>5, <1>6, <1>7, <1>8 DEF SyncStep

LEMMA CalmStep ==
  ASSUME CalmInv, TypeOK', [Next]_vars
  PROVE  CalmInv'
<1>1. TypeOK /\ \A p \in calm : Reconciling(pc[p]) /\ HasRead(p)
  BY DEF CalmInv
<1> SUFFICES ASSUME NEW p \in calm' PROVE Reconciling(pc'[p]) /\ HasRead(p)'
  BY DEF CalmInv, Reconciling
<1>2. CASE UNCHANGED vars
  <2>1. /\ UNCHANGED <<running, place, config, manual>> /\ p \in calm
        /\ pc' = pc /\ nets' = nets /\ stored' = stored /\ crules' = crules /\ mrules' = mrules
    BY <1>2 DEF vars, system, world, locals
  <2>2. p \in Procs /\ Reconciling(pc[p]) /\ HasRead(p)
    BY <1>1, <2>1 DEF TypeOK
  <2> QED BY <2>1, <2>2, StillRead
<1>3. CASE Watch
  <2>1. /\ p \in Procs /\ Reconciling(pc'[p])
        /\ Reconciling(pc[p]) =>
             /\ p \in calm
             /\ UNCHANGED <<running, place, config, manual>>
             /\ pc'[p] # pc[p] => UNCHANGED faults
    BY <1>3 DEF Watch
  <2>2. CASE ~Reconciling(pc[p])
    <3>1. pc'[p] # pc[p] /\ ~SyncStep(p)
      BY <2>1, <2>2 DEF Reconciling, SyncStep, ReadNetworks, ListRules, ReadRows, ResolveTargets, Apply
    <3>2. pc'[p] = "networks"
      BY <1>1, <2>1, <3>1, StepOf
    <3> QED BY <2>1, <3>2 DEF HasRead
  <2>3. CASE Reconciling(pc[p])
    <3>1. HasRead(p) /\ UNCHANGED <<running, place, config, manual>>
      BY <1>1, <2>1, <2>3
    <3>2. CASE /\ pc'[p] = pc[p] /\ nets'[p] = nets[p] /\ stored'[p] = stored[p]
               /\ crules'[p] = crules[p] /\ mrules'[p] = mrules[p]
      BY <2>1, <3>1, <3>2, StillRead
    <3>3. CASE SyncStep(p)
      <4>1. pc'[p] # pc[p]
        BY <1>1, <2>1, <3>3 DEF TypeOK, Goto, SyncStep, ReadNetworks, ListRules, ReadRows, ResolveTargets, Apply
      <4> QED BY <1>1, <2>1, <2>3, <3>1, <3>3, <4>1, ReadsWhatIsThere
    <3> QED BY <1>1, <2>1, <2>3, <3>2, <3>3, StepOf
  <2> QED BY <2>2, <2>3
<1> QED BY <1>2, <1>3 DEF Next

\* Which container claims a socket does not depend on the address it resolves to.
LEMMA ClaimedAlike ==
  ASSUME TypeOK, NEW k \in Keys, NEW ips \in ListedIPs, NEW others \in ListedIPs,
         ForwardRules(config, ips)[k] = NoRule
  PROVE  ForwardRules(config, others)[k] = NoRule
<1> DEFINE Claims(f) == {c \in running : HasSpec(c, k, config) /\ Validate(k, ContainerRule(c, k, f[c]))}
           First(f) == CHOOSE c \in Claims(f) : \A d \in Claims(f) : Decl[c].rank <= Decl[d].rank
<1>1. \A c \in running : ips[c] = NoAddr <=> others[c] = NoAddr
  <2> SUFFICES ASSUME NEW c \in running PROVE ips[c] = NoAddr <=> others[c] = NoAddr
    OBVIOUS
  <2>1. c \in Containers
    BY DEF TypeOK
  <2>2. ips[c] \in ForwardIP(c, Decl[c].labelled) /\ others[c] \in ForwardIP(c, Decl[c].labelled)
    BY <2>1 DEF ListedIPs
  <2>3. ForwardIP(c, Decl[c].labelled) = {NoAddr} \/ NoAddr \notin ForwardIP(c, Decl[c].labelled)
    BY DEF ForwardIP, Held
  <2> QED BY <2>2, <2>3
<1>2. Claims(ips) = Claims(others)
  BY <1>1 DEF Validate, ContainerRule
<1>3. Claims(ips) = {}
  <2>1. ASSUME Claims(ips) # {} PROVE FALSE
    <3>1. ForwardRules(config, ips)[k] = ContainerRule(First(ips), k, ips[First(ips)])
      BY <2>1 DEF ForwardRules
    <3>2. ContainerRule(First(ips), k, ips[First(ips)]).src # NoRule.src
      BY DEF ContainerRule, NoRule
    <3> QED BY <3>1, <3>2
  <2> QED BY <2>1
<1> QED BY <1>2, <1>3 DEF ForwardRules

\* A calm reconcile replaces no listener whose destination and transport are still
\* right, whatever interleaves with it (SyncPortForward, Manager.Apply).
THEOREM CalmReconcilesKeep == Safety => CalmKeeps
<1>1. Init => CalmInv
  BY TypeInit DEF Init, CalmInv
<1>2. CalmInv /\ TypeOK' /\ [Next]_vars => CalmInv'
  BY CalmStep
<1>3. CalmInv /\ [Next]_vars =>
        [\A p \in Procs : Applies(p) /\ p \in calm =>
           \A k \in Keys : StillRight(k) => entries'[k] # NoRule /\ born'[k] = born[k]]_vars
  <2> SUFFICES ASSUME CalmInv, [Next]_vars, NEW p \in Procs, Applies(p), p \in calm,
                      NEW k \in Keys, StillRight(k)
               PROVE  entries'[k] # NoRule /\ born'[k] = born[k]
    OBVIOUS
  <2>1. TypeOK /\ HasRead(p)
    BY DEF CalmInv
  <2>2. Apply(p) /\ ~closed /\ pc[p] = "apply"
    BY <2>1, Outages DEF Applies
  <2>3. PICK ips \in ListedIPs : crules[p] = ForwardRules(config, ips)
    BY <2>1, <2>2 DEF HasRead
  <2>4. PICK others \in ListedIPs : mrules[p] = ManualRules(manual, others)
    BY <2>1, <2>2 DEF HasRead
  <2>5. \E f \in ListedIPs : Want(p)[k] = Wanted(f)[k]
    <3>1. CASE crules[p][k] # NoRule
      <4>1. Want(p)[k] = Wanted(ips)[k]
        BY <2>3, <3>1 DEF Want, Wanted
      <4> QED BY <4>1
    <3>2. CASE crules[p][k] = NoRule
      <4>1. ForwardRules(config, others)[k] = NoRule
        BY <2>1, <2>3, <3>2, ClaimedAlike
      <4>2. Want(p)[k] = Wanted(others)[k]
        BY <2>4, <3>2, <4>1 DEF Want, Wanted
      <4> QED BY <4>2
    <3> QED BY <3>1, <3>2
  <2>6. Want(p)[k] # NoRule /\ Keep(k, Want(p)[k])
    BY <2>5 DEF StillRight, Keep, SameTarget
  <2> QED BY <2>2, <2>6 DEF Apply, Reconciled, Reborn
<1> QED BY <1>1, <1>2, <1>3, TypeCorrect, PTL DEF Safety, CalmKeeps
=============================================================================
