------------------------------ MODULE Sessions ------------------------------
(***************************************************************************)
(* Accounts and login sessions: the signed cookie (auth/auth.go), the login *)
(* and logout handlers and authMiddleware (server/server.go), the account    *)
(* handlers (server/users_ext.go), the CSRF cookie that goes with a session  *)
(* (middleware/csrf.go), the login gate of forwarded ports                   *)
(* (server/forward_auth.go) and the rows they read and write                 *)
(* (store/store.go).                                                         *)
(*                                                                           *)
(* A request is a process: what it read stays in its record while others     *)
(* change the rows, and its answer, which may carry a cookie, reaches the    *)
(* browser when the network brings it, in any order, or never.               *)
(***************************************************************************)
EXTENDS Integers, FiniteSets

CONSTANTS
  Users, Nobody,
  Admins,        \* who administers at the start
  Newcomers,     \* accounts that do not exist yet: they register through single sign-on or are created
  Browsers,
  Person,        \* whose browser it is
  Reqs,
  Logins,        \* identities of logins: history only, the code has none
  TTL,           \* auth.SessionTTL, in clock ticks
  MaxAge,        \* auth.MaxSessionAge
  Horizon,       \* the clock stops here
  MaxEdits,      \* logouts, password changes and account edits sent, CSRF cookies forgotten
  AdminsOverlap  \* may two administrators' requests be at work at once?

ASSUME SessionsAssumption ==
  /\ Nobody \notin Users \cup Logins /\ Nobody \notin [user : Users, epoch : Nat, at : Nat]
  /\ {"keep", "csrf"} \cap (Users \cup {Nobody}) = {}
  /\ Newcomers \subseteq Users
  /\ Admins \subseteq Users \ Newcomers /\ Admins # {}
  /\ Person \in [Browsers -> Users]
  /\ TTL \in Nat /\ MaxAge \in Nat /\ Horizon \in Nat /\ MaxEdits \in Nat
  /\ AdminsOverlap \in BOOLEAN

VARIABLES
  users,   \* the rows of the accounts, which never use an id twice
  now,     \* the clock, the same for all
  jar,     \* the session cookie each browser holds
  req,     \* the requests in flight
  edits,   \* requests sent that revoke or edit
  began,   \* history: account, epoch and time of each login
  ended,   \* history: the logins that a logout or a password change has ended
  served   \* history: the login the last admitted request carried

vars == <<users, now, jar, req, edits, began, ended, served>>

Edits == {"create", "reset", "disable", "enable", "demote", "promote", "approve", "deactivate", "delete"}
Kinds == {"get", "logout", "password"} \cup Edits

NoCookie == [uid |-> Nobody]
Keep == [uid |-> "keep"]           \* an answer that touches no cookie
Gone == -1                         \* the time of a CSRF cookie that is not there
CSRFOnly(e) == [uid |-> "csrf", csrf |-> e]   \* one that sets the CSRF cookie alone
Idle == [pc |-> "idle"]

-----------------------------------------------------------------------------
(* Cookies. *)

Cookie(u, iat, epoch, l, csrf) ==
  [uid |-> u, iat |-> iat, exp |-> now + TTL, epoch |-> epoch, login |-> l, csrf |-> csrf]

(* parse, without the signature, which nobody can make up. *)
Valid(c) == c # NoCookie /\ now <= c.exp /\ c.iat <= now /\ now - c.iat <= MaxAge

(* The check that authMiddleware, me and the login gate of a forward make. *)
Admissible(c) ==
  /\ Valid(c)
  /\ LET u == users[c.uid] IN u.row = "here" /\ ~u.disabled /\ u.epoch = c.epoch

(* Mutant: a renewed cookie counts its age from the renewal. *)
RenewedAfresh(c) ==
  IF 2 * (c.exp - now) > TTL THEN Keep
  ELSE Cookie(c.uid, now, c.epoch, c.login, now + TTL)

(* Renew and RenewCSRF: the cookie an admitted request is answered with.     *)
(* The CSRF cookie is set again only if the request brought one.             *)
Renewed(c) ==
  IF 2 * (c.exp - now) > TTL THEN Keep
  ELSE Cookie(c.uid, c.iat, c.epoch, c.login, IF now <= c.csrf THEN now + TTL ELSE c.csrf)

Pending(u) == users[u].pending /\ ~users[u].admin

Fresh(l) == began[l] = Nobody
EndLogins(u) == ended' = ended \cup {l \in Logins : ~Fresh(l) /\ began[l].user = u}
Serve(l) == served' = [login |-> l, bit |-> 1 - served.bit]

-----------------------------------------------------------------------------
Init ==
  /\ users = [u \in Users |-> [row |-> IF u \in Newcomers THEN "none" ELSE "here", admin |-> u \in Admins,
                               disabled |-> FALSE, pending |-> FALSE, epoch |-> 0, pw |-> 0]]
  /\ now = 0
  /\ jar = [b \in Browsers |-> NoCookie]
  /\ req = [r \in Reqs |-> Idle]
  /\ edits = 0
  /\ began = [l \in Logins |-> Nobody]
  /\ ended = {}
  /\ served = [login |-> Nobody, bit |-> 0]

(* Time passes.  A tick stands for hours: no handler modelled here takes that *)
(* long, while an answer may (that of a request that carries a large file).   *)
Tick ==
  /\ now < Horizon
  /\ \A r \in Reqs : req[r].pc \in {"idle", "answered"}
  /\ now' = now + 1
  /\ UNCHANGED <<users, jar, req, edits, began, ended, served>>

(* Authenticate has read the row and the password matched; for single        *)
(* sign-on, the row was read again after the profile was refreshed.          *)
CheckCredential(r, b) ==
  LET u == Person[b] IN
  /\ req[r] = Idle
  /\ users[u].row = "here" /\ ~users[u].disabled
  /\ \E l \in Logins :
       /\ Fresh(l)
       /\ began' = [began EXCEPT ![l] = [user |-> u, epoch |-> users[u].epoch, at |-> now]]
       /\ req' = [req EXCEPT ![r] = [pc |-> "checked", br |-> b, login |-> l]]
  /\ UNCHANGED <<users, now, jar, edits, ended, served>>

Answer(r, br, c) == req' = [req EXCEPT ![r] = [pc |-> "answered", br |-> br, set |-> c]]

(* The end of login and of feishuCallback: a session and a CSRF cookie with  *)
(* the epoch of the row that was read.                                       *)
IssueCookie(r) ==
  /\ req[r].pc = "checked"
  /\ LET l == req[r].login
         c == Cookie(began[l].user, now, began[l].epoch, l, now + TTL)
     IN Answer(r, req[r].br, c)
  /\ UNCHANGED <<users, now, jar, edits, began, ended, served>>

(* The first sign-on of a newcomer: the account starts in the pending group. *)
Register(b) ==
  LET u == Person[b] IN
  /\ users[u].row = "none"
  /\ users' = [users EXCEPT ![u].row = "here", ![u].pending = TRUE]
  /\ UNCHANGED <<now, jar, req, edits, began, ended, served>>

Editing(r) == req[r].pc \in {"admitted", "approved"} /\ req[r].kind \in Edits

(* A browser's request reaches authMiddleware, CSRFProtect (the token goes    *)
(* with the cookie), activatedMiddleware except for a logout, and for an      *)
(* account edit minRoleMiddleware: they all judge the row that is read here.  *)
Admit(r, b, kind, t) ==
  LET c == jar[b]
      refused == \/ kind # "get" /\ now > c.csrf
                 \/ kind \in Edits /\ ~users[c.uid].admin
                 \/ kind = "password" /\ Pending(c.uid)
  IN
  /\ req[r] = Idle
  /\ c # NoCookie
  /\ kind # "get" => edits < MaxEdits
  /\ kind \in Edits \/ t = Person[b]
  /\ AdminsOverlap \/ kind \notin Edits \/ ~\E q \in Reqs : Editing(q)
  /\ edits' = IF kind = "get" THEN edits ELSE edits + 1
  /\ IF ~Admissible(c)
     THEN Answer(r, b, Keep) /\ UNCHANGED served
     ELSE /\ Serve(c.login)
          /\ IF kind = "get" \/ refused
             THEN Answer(r, b, Renewed(c))
             ELSE req' = [req EXCEPT ![r] = [pc |-> "admitted", br |-> b, kind |-> kind, to |-> t,
                                             cookie |-> c, set |-> Renewed(c)]]
  /\ UNCHANGED <<users, now, jar, began, ended>>

(* Mutant: the cookie is cleared in the browser only. *)
LogoutClientOnly(r) ==
  /\ req[r].pc = "admitted" /\ req[r].kind = "logout"
  /\ EndLogins(req[r].cookie.uid)
  /\ Answer(r, req[r].br, NoCookie)
  /\ UNCHANGED <<users, now, jar, edits, began, served>>

(* logout: the cookie is parsed again, the epoch goes up, the cookie is cleared. *)
Logout(r) ==
  LET u == req[r].cookie.uid IN
  /\ req[r].pc = "admitted" /\ req[r].kind = "logout"
  /\ \/ /\ Valid(req[r].cookie) /\ users[u].row = "here"
        /\ users' = [users EXCEPT ![u].epoch = @ + 1]
        /\ EndLogins(u)
     \/ /\ ~(Valid(req[r].cookie) /\ users[u].row = "here")
        /\ UNCHANGED <<users, ended>>
  /\ Answer(r, req[r].br, NoCookie)
  /\ UNCHANGED <<now, jar, edits, began, served>>

(* ChangeOwnPassword, first part: the stored hash is read and the current    *)
(* password compared with it.                                                *)
VerifyPassword(r) ==
  LET u == req[r].cookie.uid IN
  /\ req[r].pc = "admitted" /\ req[r].kind = "password"
  /\ IF users[u].row # "here" THEN Answer(r, req[r].br, req[r].set)
     ELSE req' = [req EXCEPT ![r] = [pc |-> "verified", br |-> req[r].br, cookie |-> req[r].cookie,
                                     set |-> req[r].set, pw |-> users[u].pw]]
  /\ UNCHANGED <<users, now, jar, edits, began, ended, served>>

(* Second part, a transaction of its own: the new hash and the next epoch,   *)
(* with which the caller gets a cookie; the CSRF cookie stays what it was.   *)
ChangePassword(r) ==
  LET c == req[r].cookie
      u == c.uid
  IN
  /\ req[r].pc = "verified"
  /\ \/ /\ users[u].row # "here"
        /\ Answer(r, req[r].br, req[r].set)
        /\ UNCHANGED <<users, began, ended>>
     \/ /\ users[u].row = "here"
        /\ users' = [users EXCEPT ![u].epoch = @ + 1, ![u].pw = @ + 1]
        /\ EndLogins(u)
        /\ \E l \in Logins :
             /\ Fresh(l)
             /\ began' = [began EXCEPT ![l] = [user |-> u, epoch |-> users[u].epoch + 1, at |-> now]]
             /\ Answer(r, req[r].br, Cookie(u, now, users[u].epoch + 1, l,
                                 IF req[r].set = Keep THEN c.csrf ELSE req[r].set.csrf))
  /\ UNCHANGED <<now, jar, edits, served>>

(* Mutant: an administrator may demote and disable the own account. *)
UpdateUserSelf(r) ==
  LET q == req[r] IN
  /\ q.pc = "admitted" /\ q.kind \in {"disable", "demote"}
  /\ users' = [users EXCEPT ![q.to].disabled = @ \/ q.kind = "disable",
                           ![q.to].admin = @ /\ q.kind # "demote"]
  /\ Answer(r, q.br, q.set)
  /\ UNCHANGED <<now, jar, edits, began, ended, served>>

(* userUpdate: nobody takes the administrator's role or the account from      *)
(* themselves; a new password ends the sessions, all in one transaction.      *)
UpdateUser(r) ==
  LET q == req[r]
      self == q.to = q.cookie.uid
  IN
  /\ q.pc = "admitted" /\ q.kind \in {"reset", "disable", "enable", "demote", "promote"}
  /\ IF (self /\ q.kind \in {"disable", "demote"}) \/ users[q.to].row # "here"
     THEN UNCHANGED <<users, ended>>
     ELSE /\ users' =
               CASE q.kind = "reset"   -> [users EXCEPT ![q.to].epoch = @ + 1, ![q.to].pw = @ + 1]
                 [] q.kind = "disable" -> [users EXCEPT ![q.to].disabled = TRUE]
                 [] q.kind = "enable"  -> [users EXCEPT ![q.to].disabled = FALSE]
                 [] q.kind = "demote"  -> [users EXCEPT ![q.to].admin = FALSE]
                 [] q.kind = "promote" -> [users EXCEPT ![q.to].admin = TRUE]
          /\ IF q.kind = "reset" THEN EndLogins(q.to) ELSE UNCHANGED ended
  /\ Answer(r, q.br, q.set)
  /\ UNCHANGED <<now, jar, edits, began, served>>

(* approveUser reads the account and moves it to the users' group ...         *)
Approve(r) ==
  LET q == req[r] IN
  /\ q.pc = "admitted" /\ q.kind = "approve"
  /\ IF users[q.to].row = "here" /\ Pending(q.to)
     THEN /\ users' = [users EXCEPT ![q.to].pending = FALSE]
          /\ req' = [req EXCEPT ![r] = [pc |-> "approved", kind |-> q.kind, br |-> q.br, to |-> q.to, set |-> q.set]]
     ELSE Answer(r, q.br, q.set) /\ UNCHANGED users
  /\ UNCHANGED <<now, jar, edits, began, ended, served>>

(* ... and in a second transaction clears its disabled flag.                  *)
ClearDisabled(r) ==
  LET q == req[r] IN
  /\ q.pc = "approved"
  /\ users' = [users EXCEPT ![q.to].disabled = FALSE]
  /\ Answer(r, q.br, q.set)
  /\ UNCHANGED <<now, jar, edits, began, ended, served>>

(* users, with POST: an administrator creates an account, of either role and  *)
(* in any group, the pending one as well.                                     *)
CreateAccount(r) ==
  LET q == req[r] IN
  /\ q.pc = "admitted" /\ q.kind = "create"
  /\ \/ /\ users[q.to].row = "none"
        /\ \E admin, pending \in BOOLEAN :
             users' = [users EXCEPT ![q.to].row = "here", ![q.to].admin = admin, ![q.to].pending = pending]
     \/ users[q.to].row # "none" /\ UNCHANGED users
  /\ Answer(r, q.br, q.set)
  /\ UNCHANGED <<now, jar, edits, began, ended, served>>

(* deactivateUser and userDelete, which nobody may do to themselves.          *)
OnOther(r, kind) ==
  /\ req[r].pc = "admitted" /\ req[r].kind = kind
  /\ Answer(r, req[r].br, req[r].set)
  /\ UNCHANGED <<now, jar, edits, began, ended, served>>
Touchable(q) == q.to # q.cookie.uid /\ users[q.to].row = "here"

Deactivate(r) ==
  /\ OnOther(r, "deactivate")
  /\ users' = IF Touchable(req[r]) THEN [users EXCEPT ![req[r].to].pending = TRUE] ELSE users

DeleteAccount(r) ==
  /\ OnOther(r, "delete")
  /\ users' = IF Touchable(req[r]) THEN [users EXCEPT ![req[r].to].row = "gone"] ELSE users

(* The browser forgets the CSRF cookie.                                       *)
Forget(b) ==
  /\ jar[b] # NoCookie /\ edits < MaxEdits /\ edits' = edits + 1
  /\ jar' = [jar EXCEPT ![b].csrf = Gone]
  /\ UNCHANGED <<users, now, req, began, ended, served>>

(* me, which is asked without a session too: a session that is good and has   *)
(* lost its CSRF cookie gets a new one; the session cookie is not renewed.    *)
Me(r, b) ==
  LET c == jar[b] IN
  /\ req[r] = Idle
  /\ c # NoCookie /\ Admissible(c)
  /\ Answer(r, b, IF now > c.csrf THEN CSRFOnly(now + TTL) ELSE Keep)
  /\ Serve(c.login)
  /\ UNCHANGED <<users, now, jar, edits, began, ended>>

(* The answer arrives, or is lost on the way.                                 *)
Deliver(r) ==
  /\ req[r].pc = "answered"
  /\ LET b == req[r].br  c == req[r].set IN
       jar' = CASE c.uid = "keep" -> jar
                [] c.uid = "csrf" -> IF jar[b] = NoCookie THEN jar ELSE [jar EXCEPT ![b].csrf = c.csrf]
                [] OTHER -> [jar EXCEPT ![b] = c]
  /\ req' = [req EXCEPT ![r] = Idle]
  /\ UNCHANGED <<users, now, edits, began, ended, served>>

Lose(r) ==
  /\ req[r].pc = "answered"
  /\ req' = [req EXCEPT ![r] = Idle]
  /\ UNCHANGED <<users, now, jar, edits, began, ended, served>>

(* checkForwardAuth: a connection to a forwarded port that asks for a login.  *)
(* It is let through for an administrator, the owner, or when nobody owns it. *)
OpenForward(b, owner) ==
  LET c == jar[b] IN
  /\ c # NoCookie /\ Admissible(c)
  /\ users[c.uid].admin \/ owner \in {Nobody, c.uid}
  /\ Serve(c.login)
  /\ UNCHANGED <<users, now, jar, req, edits, began, ended>>

Step(r) ==
  \/ IssueCookie(r) \/ Logout(r) \/ VerifyPassword(r) \/ ChangePassword(r)
  \/ UpdateUser(r) \/ Approve(r) \/ ClearDisabled(r)
  \/ CreateAccount(r) \/ Deactivate(r) \/ DeleteAccount(r)
  \/ Deliver(r) \/ Lose(r)

Next ==
  \/ Tick
  \/ \E r \in Reqs : Step(r)
  \/ \E r \in Reqs, b \in Browsers :
       CheckCredential(r, b) \/ Me(r, b) \/ \E k \in Kinds, t \in Users : Admit(r, b, k, t)
  \/ \E b \in Browsers : Register(b) \/ Forget(b) \/ \E o \in Users \cup {Nobody} : OpenForward(b, o)

Spec == Init /\ [][Next]_vars

-----------------------------------------------------------------------------
(* Every row, cookie and request has the shape the handlers expect of it.     *)
Cookies == [uid : Users, iat : 0 .. Horizon, exp : 0 .. Horizon + TTL, epoch : Nat,
            login : Logins, csrf : Gone .. Horizon + TTL]
Answers == Cookies \cup {NoCookie, Keep} \cup {CSRFOnly(e) : e \in 0 .. Horizon + TTL}

Requests ==
  {Idle}
  \cup [pc : {"checked"}, br : Browsers, login : {l \in Logins : ~Fresh(l)}]
  \cup [pc : {"admitted"}, br : Browsers, kind : Kinds, to : Users, cookie : Cookies, set : Cookies \cup {Keep}]
  \cup [pc : {"verified"}, br : Browsers, cookie : Cookies, set : Cookies \cup {Keep}, pw : Nat]
  \cup [pc : {"approved"}, br : Browsers, kind : {"approve"}, to : Users, set : Cookies \cup {Keep}]
  \cup [pc : {"answered"}, br : Browsers, set : Answers]

TypeOK ==
  /\ users \in [Users -> [row : {"none", "here", "gone"}, admin : BOOLEAN, disabled : BOOLEAN,
                         pending : BOOLEAN, epoch : Nat, pw : Nat]]
  /\ now \in 0 .. Horizon
  /\ jar \in [Browsers -> Cookies \cup {NoCookie}]
  /\ req \in [Reqs -> Requests]
  /\ edits \in 0 .. MaxEdits
  /\ began \in [Logins -> [user : Users, epoch : Nat, at : 0 .. Horizon] \cup {Nobody}]
  /\ ended \subseteq Logins
  /\ served \in [login : Logins \cup {Nobody}, bit : {0, 1}]

-----------------------------------------------------------------------------
(* What SessionLife sees: whose each login is, which are not over, who is      *)
(* kept out.                                                                  *)
Who    == [l \in Logins |-> IF Fresh(l) THEN Nobody ELSE began[l].user]
Alive  == {l \in Logins : ~Fresh(l) /\ l \notin ended}
Barred == {u \in Users : users[u].row # "here" \/ users[u].disabled}

Life == INSTANCE SessionLife WITH who <- Who, alive <- Alive, barred <- Barred

(* The cookies implement the promise of SessionLife: whatever requests are   *)
(* in flight, and whatever answers arrive late, a login that a logout or a    *)
(* password change ended before is never served again, and neither is a       *)
(* disabled or deleted account.                                               *)
HonoursRevocation == Life!Spec

(* Sliding renewal never carries a login past its absolute lifetime: nothing  *)
(* is served for a login that began more than MaxSessionAge ago.              *)
SessionEnds ==
  [][served' # served => now - began[served'.login].at <= MaxAge]_vars

(* While administrators' requests do not overlap, the guards of the account   *)
(* handlers never leave the console without an administrator who can log in.  *)
SomebodyAdministers ==
  ~AdminsOverlap =>
    \E u \in Users : users[u].row = "here" /\ users[u].admin /\ ~users[u].disabled

(* A password is replaced through ChangeOwnPassword only if the password that *)
(* was verified is the one that is replaced.                                  *)
VerifiedIsReplaced ==
  [][\A r \in Reqs :
       req[r].pc = "verified" /\ req'[r].pc = "answered" /\ req'[r].set # req[r].set
         => users[req[r].cookie.uid].pw = req[r].pw]_vars
=============================================================================
