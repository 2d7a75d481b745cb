---------------------------- MODULE SessionLife ----------------------------
(***************************************************************************)
(* What the console promises about logins, without cookies, epochs or       *)
(* requests.  A login begins when somebody proves a credential; an event    *)
(* that revokes an account's sessions ends all of them at once; a barred    *)
(* account is served by none of its logins until it is let in again; and    *)
(* nothing is ever served on behalf of a login that has been revoked.       *)
(***************************************************************************)
EXTENDS Naturals

CONSTANTS Users, Logins, Nobody

VARIABLES
  who,     \* the account of each login that has begun
  alive,   \* the logins that have not been revoked
  barred,  \* the accounts that are disabled or gone
  served   \* the login the last request was served for, and a bit that each service flips

lifeVars == <<who, alive, barred, served>>

Of(u) == {l \in Logins : who[l] = u}

Init ==
  /\ who = [l \in Logins |-> Nobody]
  /\ alive = {}
  /\ barred \in SUBSET Users
  /\ served = [login |-> Nobody, bit |-> 0]

Begin(l, u) ==
  /\ who[l] = Nobody
  /\ u \notin barred
  /\ who' = [who EXCEPT ![l] = u]
  /\ alive' = alive \cup {l}
  /\ UNCHANGED <<barred, served>>

(* A logout or a password set by an administrator. *)
Revoke(u) ==
  /\ alive' = alive \ Of(u)
  /\ UNCHANGED <<who, barred, served>>

(* A user changes the password: every login ends, the caller gets a new one. *)
Rotate(l, u) ==
  /\ who[l] = Nobody
  /\ who' = [who EXCEPT ![l] = u]
  /\ alive' = (alive \ Of(u)) \cup {l}
  /\ UNCHANGED <<barred, served>>

Bar(u) ==
  /\ barred' = barred \cup {u}
  /\ UNCHANGED <<who, alive, served>>

Unbar(u) ==
  /\ barred' = barred \ {u}
  /\ UNCHANGED <<who, alive, served>>

Serve(l) ==
  /\ l \in alive
  /\ who[l] \notin barred
  /\ served' = [login |-> l, bit |-> 1 - served.bit]
  /\ UNCHANGED <<who, alive, barred>>

Next ==
  \/ \E l \in Logins, u \in Users : Begin(l, u) \/ Rotate(l, u)
  \/ \E u \in Users : Revoke(u) \/ Bar(u) \/ Unbar(u)
  \/ \E l \in Logins : Serve(l)

Spec == Init /\ [][Next]_lifeVars
=============================================================================
