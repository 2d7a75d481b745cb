--------------------------- MODULE MCPortForward ----------------------------
(***************************************************************************)
(* PortForward for TLC: one TCP and one UDP socket, and containers chosen  *)
(* so that claims collide.                                                 *)
(***************************************************************************)
EXTENDS PortForward, TLC

CONSTANTS k1, u1, a1, a2, n1, n2, c1, c2

Spec80(tls) == [port |-> 80, tls |-> tls]
NoSpec == [port |-> 0, tls |-> FALSE]

\* c1 was created on the forwarding network n1: an HTTPS forward on k1 and a
\* UDP one.  c2 predates the setting, publishes k1 itself and also exposes a
\* gated UDP port, which must not be served.
MCDecl ==
  (c1 :> [labelled |-> TRUE, net |-> n1, nets |-> {n1}, login |-> {}, rank |-> 2,
          specs |-> (k1 :> Spec80(TRUE) @@ u1 :> Spec80(FALSE))])
  @@
  (c2 :> [labelled |-> FALSE, net |-> n1, nets |-> {n1}, login |-> {80}, rank |-> 1,
          specs |-> (k1 :> Spec80(FALSE) @@ u1 :> Spec80(FALSE))])

At(a) == [n \in Networks |-> IF n = n1 THEN a ELSE NoAddr]

\* c1 may come back on another address; c2 gets a1, which c1 may have had, or
\* no address at all.
MCPlaces == (c1 :> {At(a1), At(a2)}) @@ (c2 :> {At(a1), At(NoAddr)})

\* A gated forward to a fixed address on the contested socket, and one that
\* follows c2.
MCRows == {[key |-> k1, row |-> [cid |-> NoId, ip |-> a1, port |-> 80, login |-> FALSE]],
           [key |-> k1, row |-> [cid |-> NoId, ip |-> a1, port |-> 80, login |-> TRUE]],
           [key |-> u1, row |-> [cid |-> c2, ip |-> NoAddr, port |-> 80, login |-> FALSE]]}

\* The same socket with and without the login gate: an administrator's toggle.
MCRowsToggle == {r \in MCRows : r.key = k1}

\* Containers on two networks: one that was switched away from the network its
\* label names, so forwardIP falls back to whichever address comes first.
MCDeclTwoNets ==
  (c1 :> [labelled |-> TRUE, net |-> "gone", nets |-> {n1, n2}, login |-> {}, rank |-> 1,
          specs |-> (k1 :> Spec80(FALSE) @@ u1 :> NoSpec)])

MCPlacesTwoNets == (c1 :> {(n1 :> a1) @@ (n2 :> a2) @@ ("gone" :> NoAddr)})
MCNetworksTwoNets == {n1, n2, "gone"}
=============================================================================
