--------------------------- MODULE SessionsProofs ---------------------------
(***************************************************************************)
(* Proofs about Sessions, for any accounts, browsers, logins and requests: *)
(* the cookies and their epochs implement SessionLife, no login is served  *)
(* past its lifetime, and the guards of the account handlers always leave  *)
(* an administrator.                                                       *)
(***************************************************************************)
EXTENDS Sessions, TLAPS

\* A cookie says of its login what was true when the login began.
Backed(c) ==
  /\ ~Fresh(c.login)
  /\ began[c.login].user = c.uid
  /\ began[c.login].epoch = c.epoch
  /\ began[c.login].at = c.iat

\* So do all cookies that a request holds or will be answered with.
Sound(q) ==
  /\ q.pc \in {"admitted", "verified"} => Backed(q.cookie)
  /\ q.pc \in {"admitted", "verified", "approved", "answered"} => (q.set \in Cookies => Backed(q.set))
  /\ q.pc = "checked" => began[q.login].at = now

\* A login that has ended has an epoch that its account has left behind.
EpochsInv ==
  /\ \A l \in Logins : ~Fresh(l) => began[l].epoch <= users[began[l].user].epoch
  /\ \A l \in ended : ~Fresh(l) /\ began[l].epoch < users[began[l].user].epoch

CookiesInv ==
  /\ \A b \in Browsers : jar[b] \in Cookies => Backed(jar[b])
  /\ \A r \in Reqs : Sound(req[r])

SessionInv == TypeOK /\ EpochsInv /\ CookiesInv

Rows == [row : {"none", "here", "gone"}, admin : BOOLEAN, disabled : BOOLEAN,
         pending : BOOLEAN, epoch : Nat, pw : Nat]

-----------------------------------------------------------------------------
\* What browsers hold and answers carry can be told apart.
LEMMA CookieKinds ==
  /\ NoCookie \notin Cookies /\ Keep \notin Cookies /\ NoCookie # Keep
  /\ \A c \in Cookies : c.uid # "keep" /\ c.uid # "csrf"
  /\ NoCookie.uid # "keep" /\ NoCookie.uid # "csrf"
  /\ \A e : CSRFOnly(e) \notin Cookies /\ CSRFOnly(e) # NoCookie /\ CSRFOnly(e) # Keep
<1>1. Nobody \notin Users /\ "keep" \notin Users /\ "csrf" \notin Users /\ Nobody # "keep" /\ Nobody # "csrf"
  BY SessionsAssumption
<1>2. \A c \in Cookies : c.uid \in Users
  BY DEF Cookies
<1>3. NoCookie.uid = Nobody /\ Keep.uid = "keep" /\ \A e : CSRFOnly(e).uid = "csrf"
  BY DEF NoCookie, Keep, CSRFOnly
<1> QED BY <1>1, <1>2, <1>3

\* A request at a point of its handler has the shape that belongs there.
LEMMA Shapes ==
  ASSUME TypeOK, NEW r \in Reqs
  PROVE  /\ req[r].pc = "checked" => req[r] \in [pc : {"checked"}, br : Browsers, login : {l \in Logins : ~Fresh(l)}]
         /\ req[r].pc = "admitted" =>
              req[r] \in [pc : {"admitted"}, br : Browsers, kind : Kinds, to : Users, cookie : Cookies,
                          set : Cookies \cup {Keep}]
         /\ req[r].pc = "verified" =>
              req[r] \in [pc : {"verified"}, br : Browsers, cookie : Cookies, set : Cookies \cup {Keep}, pw : Nat]
         /\ req[r].pc = "approved" =>
              req[r] \in [pc : {"approved"}, br : Browsers, kind : {"approve"}, to : Users, set : Cookies \cup {Keep}]
         /\ req[r].pc = "answered" => req[r] \in [pc : {"answered"}, br : Browsers, set : Answers]
  BY DEF TypeOK, Requests, Idle

\* A cookie made of an account, a login that began and a time is one.
LEMMA CookieMade ==
  ASSUME TypeOK, NEW u \in Users, NEW i \in 0 .. Horizon, NEW e \in Nat, NEW l \in Logins,
         NEW x \in Gone .. (Horizon + TTL)
  PROVE  /\ Cookie(u, i, e, l, x) \in Cookies
         /\ Cookie(u, i, e, l, x).uid = u /\ Cookie(u, i, e, l, x).iat = i
         /\ Cookie(u, i, e, l, x).epoch = e /\ Cookie(u, i, e, l, x).login = l
<1>1. now + TTL \in 0 .. Horizon + TTL
  BY SessionsAssumption DEF TypeOK
<1> QED BY <1>1 DEF Cookie, Cookies

\* The cookie an admitted request is answered with says what the one it came with said.
LEMMA RenewedBacked ==
  ASSUME TypeOK, NEW c \in Cookies, Backed(c)
  PROVE  /\ Renewed(c) \in Cookies \cup {Keep}
         /\ Renewed(c) \in Cookies => Backed(Renewed(c))
<1>1. c.uid \in Users /\ c.iat \in 0 .. Horizon /\ c.epoch \in Nat /\ c.login \in Logins
      /\ c.csrf \in Gone .. (Horizon + TTL)
  BY DEF Cookies
<1>2. now + TTL \in Gone .. (Horizon + TTL)
  BY SessionsAssumption DEF TypeOK, Gone
<1>3. \A x \in Gone .. (Horizon + TTL) :
        LET d == Cookie(c.uid, c.iat, c.epoch, c.login, x)
        IN d \in Cookies /\ Backed(d)
  <2> TAKE x \in Gone .. (Horizon + TTL)
  <2> DEFINE d == Cookie(c.uid, c.iat, c.epoch, c.login, x)
  <2>1. d \in Cookies /\ d.uid = c.uid /\ d.iat = c.iat /\ d.epoch = c.epoch /\ d.login = c.login
    BY <1>1, CookieMade
  <2> HIDE DEF d
  <2>2. Backed(d)
    BY <2>1 DEF Backed
  <2> QED BY <2>1, <2>2 DEF d
<1>4. Renewed(c) = Keep \/ \E x \in Gone .. (Horizon + TTL) : Renewed(c) = Cookie(c.uid, c.iat, c.epoch, c.login, x)
  BY <1>1, <1>2 DEF Renewed
<1> QED BY <1>3, <1>4, CookieKinds

\* A cookie that is let through belongs to a login that has not ended, of an account
\* that is not barred, and that began no longer ago than MaxAge.
LEMMA AdmittedIsAlive ==
  ASSUME SessionInv, NEW c \in Cookies, Backed(c), Admissible(c)
  PROVE  /\ c.login \in Logins /\ ~Fresh(c.login) /\ c.login \notin ended
         /\ began[c.login].user = c.uid /\ c.uid \in Users
         /\ users[c.uid].row = "here" /\ ~users[c.uid].disabled
         /\ now - began[c.login].at <= MaxAge
<1>1. c.login \in Logins /\ c.uid \in Users /\ c.epoch \in Nat
  BY DEF Cookies
<1>2. users[c.uid].epoch \in Nat
  BY <1>1 DEF SessionInv, TypeOK
<1>3. users[c.uid].row = "here" /\ ~users[c.uid].disabled /\ users[c.uid].epoch = c.epoch
  BY DEF Admissible
<1>4. c.login \notin ended
  BY <1>1, <1>2, <1>3 DEF Backed, SessionInv, EpochsInv
<1> QED BY <1>1, <1>3, <1>4 DEF Backed, Admissible, Valid

-----------------------------------------------------------------------------
\* One request goes on, no login begins: the others are what they were.
LEMMA RequestGoesOn ==
  ASSUME SessionInv, NEW r \in Reqs, NEW q \in Requests, Sound(q),
         req' = [req EXCEPT ![r] = q], UNCHANGED <<began, now>>
  PROVE  req' \in [Reqs -> Requests'] /\ \A s \in Reqs : Sound(req[s])'
<1>1. Requests' = Requests
  BY DEF Requests, Fresh
<1>2. req \in [Reqs -> Requests] /\ \A s \in Reqs : Sound(req[s])
  BY DEF SessionInv, TypeOK, CookiesInv
<1>3. ASSUME NEW s \in Reqs, NEW p, Sound(p), req'[s] = p
      PROVE  Sound(req[s])'
  BY <1>3 DEF Sound, Backed, Fresh
<1>4. \A s \in Reqs : req'[s] = IF s = r THEN q ELSE req[s]
  BY <1>2
<1> QED BY <1>1, <1>2, <1>3, <1>4

\* An answer is a request with nothing left but its cookie.
LEMMA AnswerIsSound ==
  ASSUME SessionInv, NEW b \in Browsers, NEW c \in Answers, c \in Cookies => Backed(c)
  PROVE  LET q == [pc |-> "answered", br |-> b, set |-> c] IN q \in Requests /\ Sound(q)
  BY DEF Requests, Sound

\* A login begins: what others hold is backed as before.
LEMMA LoginBegins ==
  ASSUME SessionInv, NEW r \in Reqs, NEW q \in Requests', Sound(q)', NEW l \in Logins, Fresh(l),
         NEW x, began' = [began EXCEPT ![l] = x], x # Nobody, now' = now, jar' = jar,
         req' = [req EXCEPT ![r] = q]
  PROVE  req' \in [Reqs -> Requests'] /\ CookiesInv'
<1>1. Requests \subseteq Requests'
  <2>1. \A k \in Logins : ~Fresh(k) => ~Fresh(k)'
    BY DEF Fresh, SessionInv, TypeOK
  <2> QED BY <2>1 DEF Requests
<1>2. ASSUME NEW c \in Cookies, Backed(c)
      PROVE  /\ ~(began'[c.login] = Nobody) /\ began'[c.login].user = c.uid
             /\ began'[c.login].epoch = c.epoch /\ began'[c.login].at = c.iat
  BY <1>2 DEF Backed, Fresh, Cookies, SessionInv, TypeOK
<1>3. \A b \in Browsers : (jar[b] \in Cookies => Backed(jar[b]))'
  BY <1>2 DEF SessionInv, CookiesInv, Backed, Fresh, Cookies
<1>4. ASSUME NEW s \in Reqs
      PROVE  Sound(req[s])'
  <2>1. CASE s = r
    <3>1. req'[s] = q
      BY <2>1 DEF SessionInv, TypeOK
    <3> QED BY <3>1 DEF Sound, Backed, Fresh, Cookies
  <2>2. CASE s # r
    <3>1. req'[s] = req[s] /\ Sound(req[s])
      BY <2>2 DEF SessionInv, TypeOK, CookiesInv
    <3>2. req[s].pc = "checked" => began'[req[s].login] = began[req[s].login]
      BY Shapes DEF SessionInv, TypeOK, Fresh
    <3>3. req[s].pc \in {"admitted", "verified"} => req[s].cookie \in Cookies
      BY Shapes DEF SessionInv
    <3> QED BY <1>2, <3>1, <3>2, <3>3 DEF Sound, Backed, Fresh, Cookies
  <2> QED BY <2>1, <2>2
<1> QED BY <1>1, <1>3, <1>4 DEF CookiesInv, SessionInv, TypeOK

\* No login begins or ends: it is enough that no epoch goes back.
LEMMA EpochsGrow ==
  ASSUME SessionInv, users' \in [Users -> Rows], UNCHANGED <<began, ended>>,
         \A u \in Users : users'[u].epoch >= users[u].epoch
  PROVE  EpochsInv'
<1>1. \A l \in Logins : ~Fresh(l) => began[l].user \in Users /\ began[l].epoch \in Nat
  BY DEF SessionInv, TypeOK, Fresh
<1>2. \A u \in Users : users[u].epoch \in Nat /\ users'[u].epoch \in Nat
  BY DEF SessionInv, TypeOK, Rows
<1>3. ended \subseteq Logins
  BY DEF SessionInv, TypeOK
<1>4. ASSUME NEW l \in Logins, ~Fresh(l)
      PROVE  /\ began[l].epoch <= users'[began[l].user].epoch
             /\ l \in ended => began[l].epoch < users'[began[l].user].epoch
  BY <1>1, <1>2, <1>4 DEF SessionInv, EpochsInv
<1>5. \A l \in Logins : Fresh(l)' = Fresh(l)
  BY DEF Fresh
<1>6. \A l \in ended : ~Fresh(l)
  BY DEF SessionInv, EpochsInv
<1> QED BY <1>3, <1>4, <1>5, <1>6 DEF EpochsInv

\* An account's sessions are revoked: its epoch goes up and its logins end.
LEMMA EpochsRevoked ==
  ASSUME SessionInv, NEW u \in Users, users' \in [Users -> Rows], UNCHANGED began, EndLogins(u),
         users'[u].epoch = users[u].epoch + 1,
         \A v \in Users \ {u} : users'[v].epoch = users[v].epoch
  PROVE  EpochsInv' /\ ended' \subseteq Logins
<1>1. \A l \in Logins : ~Fresh(l) => began[l].user \in Users /\ began[l].epoch \in Nat
  BY DEF SessionInv, TypeOK, Fresh
<1>2. \A v \in Users : users[v].epoch \in Nat
  BY DEF SessionInv, TypeOK, Rows
<1>3. ended \subseteq Logins /\ ended' = ended \cup {l \in Logins : ~Fresh(l) /\ began[l].user = u}
  BY DEF SessionInv, TypeOK, EndLogins
<1>4. ASSUME NEW l \in Logins, ~Fresh(l)
      PROVE  /\ began[l].epoch <= users'[began[l].user].epoch
             /\ l \in ended' => began[l].epoch < users'[began[l].user].epoch
  BY <1>1, <1>2, <1>3, <1>4 DEF SessionInv, EpochsInv
<1>5. \A l \in Logins : Fresh(l)' = Fresh(l)
  BY DEF Fresh
<1>6. \A l \in ended' : ~Fresh(l)
  BY <1>3 DEF SessionInv, EpochsInv
<1> QED BY <1>3, <1>4, <1>5, <1>6 DEF EpochsInv

\* A step of a request that neither lets a login begin, nor touches jars, clocks and counters.
LEMMA HandlerStep ==
  ASSUME SessionInv, NEW r \in Reqs, NEW q \in Requests, Sound(q), req' = [req EXCEPT ![r] = q],
         UNCHANGED <<began, now, jar, edits, served>>,
         users' \in [Users -> Rows], ended' \subseteq Logins, EpochsInv'
  PROVE  SessionInv'
<1>1. req' \in [Reqs -> Requests'] /\ \A s \in Reqs : Sound(req[s])'
  BY RequestGoesOn
<1>2. \A b \in Browsers : (jar[b] \in Cookies => Backed(jar[b]))'
  BY DEF SessionInv, CookiesInv, Backed, Fresh, Cookies
<1>3. CookiesInv'
  BY <1>1, <1>2 DEF CookiesInv
<1>4. TypeOK'
  BY <1>1 DEF SessionInv, TypeOK, Rows, Cookies
<1> QED BY <1>3, <1>4 DEF SessionInv

\* The rows have their shape.
LEMMA RowsTyped ==
  ASSUME SessionInv
  PROVE  /\ users \in [Users -> Rows] /\ ended \subseteq Logins
         /\ (UNCHANGED <<users, ended, began>> => EpochsInv')
<1>1. users \in [Users -> Rows] /\ ended \subseteq Logins
  BY DEF SessionInv, TypeOK, Rows
<1>2. ASSUME UNCHANGED <<users, ended, began>>
      PROVE  EpochsInv'
  <2>1. \A u \in Users : users[u].epoch \in Nat
    BY <1>1 DEF Rows
  <2> QED BY <1>1, <1>2, <2>1, EpochsGrow
<1> QED BY <1>1, <1>2

\* A field of a row changes that is not the epoch.
LEMMA RowsChanged ==
  ASSUME SessionInv, NEW t \in Users, NEW f \in BOOLEAN, NEW w \in {"none", "here", "gone"},
         UNCHANGED <<ended, began>>,
         \/ users' = [users EXCEPT ![t].disabled = f]
         \/ users' = [users EXCEPT ![t].admin = f]
         \/ users' = [users EXCEPT ![t].pending = f]
         \/ users' = [users EXCEPT ![t].row = w]
  PROVE  users' \in [Users -> Rows] /\ ended' \subseteq Logins /\ EpochsInv'
<1>1. users' \in [Users -> Rows] /\ \A v \in Users : users'[v].epoch = users[v].epoch /\ users[v].epoch \in Nat
  BY RowsTyped DEF Rows
<1>2. EpochsInv'
  BY <1>1, EpochsGrow
<1> QED BY <1>1, <1>2, RowsTyped

\* Answering an admitted request with the cookie it was to be answered with.
LEMMA SetIsSound ==
  ASSUME SessionInv, NEW r \in Reqs, req[r].pc \in {"admitted", "verified", "approved"}
  PROVE  /\ req[r].br \in Browsers /\ req[r].set \in Answers
         /\ req[r].set \in Cookies => Backed(req[r].set)
<1>1. req[r].br \in Browsers /\ req[r].set \in Cookies \cup {Keep}
  BY Shapes DEF SessionInv
<1>2. Sound(req[r])
  BY DEF SessionInv, CookiesInv
<1> QED BY <1>1, <1>2 DEF Sound, Answers

-----------------------------------------------------------------------------
\* The handlers of requests, one lemma each.  The end of a login.
LEMMA IssueCookieKeeps ==
  ASSUME SessionInv, NEW r \in Reqs, IssueCookie(r)
  PROVE  SessionInv'
<1> DEFINE l == req[r].login
<1> DEFINE c == Cookie(began[l].user, now, began[l].epoch, l, now + TTL)
<1>1. l \in Logins /\ ~Fresh(l) /\ req[r].br \in Browsers
  BY Shapes DEF SessionInv, IssueCookie
<1>2. began[l].user \in Users /\ began[l].epoch \in Nat
  BY <1>1 DEF SessionInv, TypeOK, Fresh
<1>3. now \in 0 .. Horizon /\ now + TTL \in Gone .. (Horizon + TTL)
  BY SessionsAssumption DEF SessionInv, TypeOK, Gone
<1>4. began[l].at = now
  BY DEF SessionInv, CookiesInv, Sound, IssueCookie
<1>5. c \in Cookies /\ c.uid = began[l].user /\ c.iat = now /\ c.epoch = began[l].epoch /\ c.login = l
  BY <1>1, <1>2, <1>3, CookieMade DEF SessionInv
<1>6. req' = [req EXCEPT ![r] = [pc |-> "answered", br |-> req[r].br, set |-> c]]
  BY DEF IssueCookie, Answer
<1> HIDE DEF c
<1>7. c \in Answers /\ Backed(c)
  BY <1>1, <1>4, <1>5 DEF Backed, Answers
<1> HIDE DEF l
<1>8. UNCHANGED <<users, now, jar, edits, began, ended, served>>
  BY DEF IssueCookie
<1> QED BY <1>1, <1>6, <1>7, <1>8, AnswerIsSound, HandlerStep, RowsTyped

\* An answer changes the rows at most as the request's other half says.
LEMMA AnswerKeeps ==
  ASSUME SessionInv, NEW r \in Reqs, NEW b \in Browsers, NEW c \in Answers, c \in Cookies => Backed(c),
         Answer(r, b, c), UNCHANGED <<began, now, jar, edits, served>>,
         users' \in [Users -> Rows], ended' \subseteq Logins, EpochsInv'
  PROVE  SessionInv'
<1> DEFINE q == [pc |-> "answered", br |-> b, set |-> c]
<1>1. q \in Requests /\ Sound(q)
  BY AnswerIsSound
<1>2. req' = [req EXCEPT ![r] = q]
  BY DEF Answer
<1> HIDE DEF q
<1> QED BY <1>1, <1>2, HandlerStep

\* A logout raises the epoch and ends the account's logins.
LEMMA LogoutKeeps ==
  ASSUME SessionInv, NEW r \in Reqs, Logout(r)
  PROVE  SessionInv'
<1> DEFINE u == req[r].cookie.uid
<1>1. req[r].br \in Browsers /\ u \in Users
  BY Shapes DEF SessionInv, Logout, Cookies
<1>2. NoCookie \in Answers /\ NoCookie \notin Cookies
  BY CookieKinds DEF Answers
<1>3. CASE users' = [users EXCEPT ![u].epoch = @ + 1] /\ EndLogins(u)
  <2>1. users' \in [Users -> Rows] /\ users'[u].epoch = users[u].epoch + 1
        /\ \A v \in Users \ {u} : users'[v].epoch = users[v].epoch
    BY <1>1, <1>3, RowsTyped DEF Rows
  <2>2. EpochsInv' /\ ended' \subseteq Logins
    BY <1>1, <1>3, <2>1, EpochsRevoked DEF Logout
  <2> QED BY <1>1, <1>2, <2>1, <2>2, AnswerKeeps DEF Logout
<1>4. CASE UNCHANGED <<users, ended>>
  BY <1>1, <1>2, <1>4, RowsTyped, AnswerKeeps DEF Logout
<1> QED BY <1>3, <1>4 DEF Logout

\* The first part of a password change carries the cookies on.
LEMMA VerifyPasswordKeeps ==
  ASSUME SessionInv, NEW r \in Reqs, VerifyPassword(r)
  PROVE  SessionInv'
<1> DEFINE u == req[r].cookie.uid
<1>1. UNCHANGED <<users, now, jar, edits, began, ended, served>> /\ req[r].pc = "admitted"
  BY DEF VerifyPassword
<1>2. users' \in [Users -> Rows] /\ ended' \subseteq Logins /\ EpochsInv'
  BY <1>1, RowsTyped
<1>3. CASE Answer(r, req[r].br, req[r].set)
  BY <1>1, <1>2, <1>3, SetIsSound, AnswerKeeps
<1>4. CASE req' = [req EXCEPT ![r] = [pc |-> "verified", br |-> req[r].br, cookie |-> req[r].cookie,
                                      set |-> req[r].set, pw |-> users[u].pw]]
  <2> DEFINE q == [pc |-> "verified", br |-> req[r].br, cookie |-> req[r].cookie,
                   set |-> req[r].set, pw |-> users[u].pw]
  <2>1. req[r].br \in Browsers /\ req[r].cookie \in Cookies /\ req[r].set \in Cookies \cup {Keep} /\ u \in Users
    BY <1>1, Shapes DEF SessionInv, Cookies
  <2>2. users[u].pw \in Nat
    BY <2>1, RowsTyped DEF Rows
  <2>3. q \in Requests
    BY <2>1, <2>2 DEF Requests
  <2>4. Sound(q)
    <3>1. Sound(req[r])
      BY DEF SessionInv, CookiesInv
    <3> QED BY <1>1, <3>1 DEF Sound
  <2>5. req' = [req EXCEPT ![r] = q]
    BY <1>4
  <2> HIDE DEF q
  <2> QED BY <1>1, <1>2, <2>3, <2>4, <2>5, HandlerStep
<1> QED BY <1>3, <1>4 DEF VerifyPassword

\* The second part ends every login and begins one, with the epoch it has just set.
LEMMA ChangePasswordKeeps ==
  ASSUME SessionInv, NEW r \in Reqs, ChangePassword(r)
  PROVE  SessionInv'
<1> DEFINE c == req[r].cookie
<1> DEFINE u == c.uid
<1> DEFINE e == users[u].epoch + 1
<1>0. req[r].pc = "verified" /\ UNCHANGED <<now, jar, edits, served>>
  BY DEF ChangePassword
<1>1. req[r].br \in Browsers /\ c \in Cookies /\ u \in Users /\ req[r].set \in Cookies \cup {Keep}
  BY <1>0, Shapes DEF SessionInv, Cookies
<1>2. CASE users[u].row # "here"
  BY <1>0, <1>1, <1>2, RowsTyped, SetIsSound, AnswerKeeps DEF ChangePassword
<1>3. CASE users[u].row = "here"
  <2> DEFINE x == IF req[r].set = Keep THEN c.csrf ELSE req[r].set.csrf
  <2>1. users' = [users EXCEPT ![u].epoch = @ + 1, ![u].pw = @ + 1] /\ EndLogins(u)
    BY <1>3 DEF ChangePassword
  <2>2. PICK l \in Logins :
          /\ Fresh(l)
          /\ began' = [began EXCEPT ![l] = [user |-> u, epoch |-> e, at |-> now]]
          /\ Answer(r, req[r].br, Cookie(u, now, e, l, x))
    BY <1>3 DEF ChangePassword
  <2>3. /\ users' \in [Users -> Rows] /\ users'[u].epoch = e /\ e \in Nat
        /\ \A v \in Users \ {u} : users'[v].epoch = users[v].epoch
        /\ \A v \in Users : users[v].epoch \in Nat
    <3>1. users \in [Users -> Rows] /\ \A v \in Users : users[v].epoch \in Nat /\ users[v].pw \in Nat
      BY RowsTyped DEF Rows
    <3>2. PICK y : y = [users[u] EXCEPT !.epoch = e, !.pw = users[u].pw + 1]
      OBVIOUS
    <3>3. e \in Nat /\ y \in Rows /\ y.epoch = e
      <4>1. users[u] \in Rows /\ e \in Nat /\ users[u].pw + 1 \in Nat
        BY <1>1, <3>1
      <4> HIDE DEF e
      <4> QED BY <3>2, <4>1 DEF Rows
    <3>4. users' = [users EXCEPT ![u] = y]
      BY <1>1, <2>1, <3>2
    <3> QED BY <1>1, <3>1, <3>3, <3>4
  <2>4. began' \in [Logins -> [user : Users, epoch : Nat, at : 0 .. Horizon] \cup {Nobody}]
    BY <1>1, <2>2, <2>3 DEF SessionInv, TypeOK
  <2>5. began'[l] = [user |-> u, epoch |-> e, at |-> now] /\ \A k \in Logins \ {l} : began'[k] = began[k]
    BY <2>2 DEF SessionInv, TypeOK
  <2>6. [user |-> u, epoch |-> e, at |-> now] # Nobody
    <3>1. [user |-> u, epoch |-> e, at |-> now] \in [user : Users, epoch : Nat, at : Nat]
      BY <1>1, <2>3 DEF SessionInv, TypeOK
    <3> QED BY <3>1, SessionsAssumption
  <2>7. l \notin ended' /\ ended' \subseteq Logins
        /\ ended' = ended \cup {k \in Logins : ~Fresh(k) /\ began[k].user = u}
    BY <2>1, <2>2 DEF EndLogins, SessionInv, TypeOK, EpochsInv
  <2>8. EpochsInv'
    <3>1. ASSUME NEW k \in Logins \ {l}, ~Fresh(k)
          PROVE  /\ began[k].epoch <= users'[began[k].user].epoch
                 /\ k \in ended' => began[k].epoch < users'[began[k].user].epoch
      <4>1. began[k].user \in Users /\ began[k].epoch \in Nat /\ began[k].epoch <= users[began[k].user].epoch
        BY <3>1 DEF SessionInv, TypeOK, EpochsInv, Fresh
      <4>2. k \in ended => began[k].epoch < users[began[k].user].epoch
        BY DEF SessionInv, EpochsInv
      <4> QED BY <2>3, <2>7, <4>1, <4>2
    <3>2. \A k \in ended' : k # l /\ ~Fresh(k)
      BY <2>7 DEF SessionInv, EpochsInv
    <3>3. \A k \in Logins \ {l} : Fresh(k)' <=> Fresh(k)
      BY <2>5 DEF Fresh
    <3> QED BY <2>3, <2>5, <2>6, <2>7, <3>1, <3>2, <3>3 DEF EpochsInv, Fresh
  <2>9. PICK d \in Cookies : /\ d = Cookie(u, now, e, l, x)
                            /\ d.uid = u /\ d.iat = now /\ d.epoch = e /\ d.login = l
    <3>1. x \in Gone .. (Horizon + TTL)
      BY <1>1 DEF Cookies
    <3>2. now \in 0 .. Horizon
      BY DEF SessionInv, TypeOK
    <3> HIDE DEF x, e, u
    <3> QED BY <1>1, <2>3, <3>1, <3>2, CookieMade DEF SessionInv
  <2>10. PICK b \in Browsers : b = req[r].br
    BY <1>1
  <2>11. PICK q \in Requests' : q = [pc |-> "answered", br |-> b, set |-> d]
    BY <2>9 DEF Requests, Answers
  <2>12. req' = [req EXCEPT ![r] = q]
    BY <2>2, <2>9, <2>10, <2>11 DEF Answer
  <2>13. req' \in [Reqs -> Requests'] /\ CookiesInv'
    <3>1. Backed(d)'
      <4> HIDE DEF e, u
      <4>1. began'[d.login] = [user |-> u, epoch |-> e, at |-> now]
        BY <2>5, <2>9
      <4>2. began'[d.login] # Nobody
        BY <2>6, <4>1
      <4>3. began'[d.login].user = d.uid /\ began'[d.login].epoch = d.epoch /\ began'[d.login].at = d.iat
        BY <2>9, <4>1
      <4> QED BY <4>2, <4>3 DEF Backed, Fresh
    <3>2. Sound(q)'
      BY <2>11, <3>1 DEF Sound
    <3> HIDE DEF e, u
    <3> QED BY <1>0, <2>2, <2>6, <2>11, <2>12, <3>2, LoginBegins
  <2>14. TypeOK'
    BY <1>0, <2>3, <2>4, <2>7, <2>13 DEF SessionInv, TypeOK, Rows, Cookies
  <2> QED BY <2>8, <2>13, <2>14 DEF SessionInv
<1> QED BY <1>2, <1>3

\* An administrator's update ends the logins when it sets a password.
LEMMA UpdateUserKeeps ==
  ASSUME SessionInv, NEW r \in Reqs, UpdateUser(r)
  PROVE  SessionInv'
<1> DEFINE t == req[r].to
<1>1. req[r].pc = "admitted" /\ UNCHANGED <<now, jar, edits, began, served>> /\ Answer(r, req[r].br, req[r].set)
  BY DEF UpdateUser
<1>2. t \in Users /\ req[r].kind \in Kinds
  BY <1>1, Shapes DEF SessionInv
<1>3. \A v \in Users : users[v] \in Rows
  BY RowsTyped
<1>4. users' \in [Users -> Rows] /\ ended' \subseteq Logins /\ EpochsInv'
  <2>1. CASE UNCHANGED <<users, ended>>
    BY <1>1, <2>1, RowsTyped
  <2>2. CASE EndLogins(t) /\ users' = [users EXCEPT ![t].epoch = @ + 1, ![t].pw = @ + 1]
    <3>1. users' \in [Users -> Rows] /\ users'[t].epoch = users[t].epoch + 1
          /\ \A v \in Users \ {t} : users'[v].epoch = users[v].epoch
      BY <1>2, <2>2, RowsTyped DEF Rows
    <3> QED BY <1>1, <1>2, <2>2, <3>1, EpochsRevoked
  <2>3. ASSUME NEW f \in BOOLEAN, UNCHANGED ended,
               \/ users' = [users EXCEPT ![t].disabled = f]
               \/ users' = [users EXCEPT ![t].admin = f]
        PROVE  users' \in [Users -> Rows] /\ ended' \subseteq Logins /\ EpochsInv'
    BY <1>1, <1>2, <2>3, RowsChanged
  <2> QED BY <2>1, <2>2, <2>3 DEF UpdateUser
<1> QED BY <1>1, <1>4, SetIsSound, AnswerKeeps

\* The first half of an approval.
LEMMA ApproveKeeps ==
  ASSUME SessionInv, NEW r \in Reqs, Approve(r)
  PROVE  SessionInv'
<1>1. req[r].pc = "admitted" /\ req[r].kind = "approve" /\ UNCHANGED <<now, jar, edits, began, ended, served>>
  BY DEF Approve
<1>2. CASE Answer(r, req[r].br, req[r].set) /\ UNCHANGED users
  BY <1>1, <1>2, RowsTyped, SetIsSound, AnswerKeeps
<1>3. CASE /\ users' = [users EXCEPT ![req[r].to].pending = FALSE]
           /\ req' = [req EXCEPT ![r] = [pc |-> "approved", kind |-> req[r].kind, br |-> req[r].br,
                                         to |-> req[r].to, set |-> req[r].set]]
  <2>1. req[r].br \in Browsers /\ req[r].to \in Users /\ req[r].set \in Cookies \cup {Keep}
    BY <1>1, Shapes DEF SessionInv
  <2>2. users' \in [Users -> Rows] /\ ended' \subseteq Logins /\ EpochsInv'
    BY <1>1, <1>3, <2>1, RowsChanged
  <2>3. PICK q \in Requests : q = [pc |-> "approved", kind |-> req[r].kind, br |-> req[r].br,
                                  to |-> req[r].to, set |-> req[r].set]
    BY <1>1, <2>1 DEF Requests
  <2>4. Sound(q)
    BY <1>1, <2>3, SetIsSound DEF Sound
  <2> QED BY <1>1, <1>3, <2>2, <2>3, <2>4, HandlerStep
<1> QED BY <1>2, <1>3 DEF Approve

\* The second half.
LEMMA ClearDisabledKeeps ==
  ASSUME SessionInv, NEW r \in Reqs, ClearDisabled(r)
  PROVE  SessionInv'
<1>1. /\ req[r].pc = "approved" /\ Answer(r, req[r].br, req[r].set)
      /\ users' = [users EXCEPT ![req[r].to].disabled = FALSE]
      /\ UNCHANGED <<now, jar, edits, began, ended, served>>
  BY DEF ClearDisabled
<1>2. req[r].to \in Users
  BY <1>1, Shapes DEF SessionInv
<1>3. users' \in [Users -> Rows] /\ ended' \subseteq Logins /\ EpochsInv'
  BY <1>1, <1>2, RowsChanged
<1> QED BY <1>1, <1>3, SetIsSound, AnswerKeeps

\* A new account starts with the epoch its row always had.
LEMMA CreateAccountKeeps ==
  ASSUME SessionInv, NEW r \in Reqs, CreateAccount(r)
  PROVE  SessionInv'
<1>1. /\ req[r].pc = "admitted" /\ Answer(r, req[r].br, req[r].set)
      /\ UNCHANGED <<now, jar, edits, began, ended, served>>
  BY DEF CreateAccount
<1>2. req[r].to \in Users
  BY <1>1, Shapes DEF SessionInv
<1>3. users' \in [Users -> Rows] /\ ended' \subseteq Logins /\ EpochsInv'
  <2>1. CASE UNCHANGED users
    BY <1>1, <2>1, RowsTyped
  <2>2. ASSUME NEW a \in BOOLEAN, NEW p \in BOOLEAN,
               users' = [users EXCEPT ![req[r].to].row = "here", ![req[r].to].admin = a, ![req[r].to].pending = p]
        PROVE  users' \in [Users -> Rows] /\ \A v \in Users : users'[v].epoch = users[v].epoch /\ users[v].epoch \in Nat
    BY <1>2, <2>2, RowsTyped DEF Rows
  <2>3. CASE users' \in [Users -> Rows] /\ \A v \in Users : users'[v].epoch = users[v].epoch /\ users[v].epoch \in Nat
    BY <1>1, <2>3, EpochsGrow, RowsTyped
  <2> QED BY <2>1, <2>2, <2>3 DEF CreateAccount
<1> QED BY <1>1, <1>3, SetIsSound, AnswerKeeps

\* Deactivation and deletion leave the epochs alone.
LEMMA OnOtherKeeps ==
  ASSUME SessionInv, NEW r \in Reqs, Deactivate(r) \/ DeleteAccount(r)
  PROVE  SessionInv'
<1>1. /\ req[r].pc = "admitted" /\ Answer(r, req[r].br, req[r].set)
      /\ UNCHANGED <<now, jar, edits, began, ended, served>>
  BY DEF Deactivate, DeleteAccount, OnOther
<1>2. req[r].to \in Users
  BY <1>1, Shapes DEF SessionInv
<1>3. users' \in [Users -> Rows] /\ ended' \subseteq Logins /\ EpochsInv'
  <2>1. \/ UNCHANGED users
        \/ users' = [users EXCEPT ![req[r].to].pending = TRUE]
        \/ users' = [users EXCEPT ![req[r].to].row = "gone"]
    BY DEF Deactivate, DeleteAccount
  <2> QED BY <1>1, <1>2, <2>1, RowsTyped, RowsChanged
<1> QED BY <1>1, <1>3, SetIsSound, AnswerKeeps

\* The jars stay sound, whatever else happens, if the cookies put into them are.
LEMMA JarsKeep ==
  ASSUME SessionInv, UNCHANGED <<users, now, began, ended, served>>, edits' \in 0 .. MaxEdits,
         jar' \in [Browsers -> Cookies \cup {NoCookie}], \A b \in Browsers : jar'[b] \in Cookies => Backed(jar'[b]),
         req' \in [Reqs -> Requests], \A r \in Reqs : Sound(req'[r])
  PROVE  SessionInv'
<1>1. \A c : Backed(c)' <=> Backed(c)
  BY DEF Backed, Fresh
<1>2. \A b \in Browsers : (jar[b] \in Cookies => Backed(jar[b]))'
  BY <1>1 DEF Backed, Fresh, Cookies
<1>3. \A r \in Reqs : Sound(req[r])'
  BY DEF Sound, Backed, Fresh, Cookies
<1>4. CookiesInv'
  BY <1>2, <1>3 DEF CookiesInv
<1>5. Requests' = Requests
  BY DEF Requests, Fresh, Cookies
<1>6. TypeOK'
  BY <1>5 DEF SessionInv, TypeOK, Cookies
<1>7. EpochsInv'
  BY RowsTyped
<1> QED BY <1>4, <1>6, <1>7 DEF SessionInv

\* A request that is over.
LEMMA IdleIsSound == Idle \in Requests /\ Sound(Idle)
  BY DEF Requests, Sound, Idle

\* What a browser takes out of an answer is backed.
LEMMA DeliverKeeps ==
  ASSUME SessionInv, NEW r \in Reqs, Deliver(r)
  PROVE  SessionInv'
<1> DEFINE b == req[r].br
           c == req[r].set
<1>1. b \in Browsers /\ c \in Answers /\ (c \in Cookies => Backed(c))
  <2>1. Sound(req[r])
    BY DEF SessionInv, CookiesInv
  <2> QED BY <2>1, Shapes DEF SessionInv, Deliver, Sound
<1>2. jar \in [Browsers -> Cookies \cup {NoCookie}] /\ \A k \in Browsers : jar[k] \in Cookies => Backed(jar[k])
  BY DEF SessionInv, TypeOK, CookiesInv
<1>3. jar' \in [Browsers -> Cookies \cup {NoCookie}] /\ \A k \in Browsers : jar'[k] \in Cookies => Backed(jar'[k])
  <2>1. CASE c = Keep \/ jar' = jar
    <3>1. jar' = jar
      BY <2>1 DEF Deliver, Keep
    <3> QED BY <1>2, <3>1
  <2>2. CASE c \in {CSRFOnly(e) : e \in 0 .. Horizon + TTL} /\ jar' # jar
    <3>1. jar[b] \in Cookies /\ jar' = [jar EXCEPT ![b].csrf = c.csrf] /\ c.csrf \in 0 .. Horizon + TTL
      BY <1>1, <1>2, <2>2 DEF Deliver, CSRFOnly
    <3>2. PICK d : d = [jar[b] EXCEPT !.csrf = c.csrf]
      OBVIOUS
    <3>3. d \in Cookies /\ d.uid = jar[b].uid /\ d.iat = jar[b].iat /\ d.epoch = jar[b].epoch /\ d.login = jar[b].login
      BY <3>1, <3>2 DEF Cookies, Gone
    <3>4. Backed(d)
      BY <1>1, <1>2, <3>1, <3>3 DEF Backed
    <3>5. jar' = [jar EXCEPT ![b] = d]
      BY <3>1, <3>2
    <3> QED BY <1>1, <1>2, <3>3, <3>4, <3>5
  <2>3. CASE c \in Cookies \cup {NoCookie}
    <3>1. jar' = [jar EXCEPT ![b] = c]
      BY <2>3, CookieKinds DEF Deliver
    <3> QED BY <1>1, <1>2, <2>3, <3>1, CookieKinds
  <2> QED BY <1>1, <2>1, <2>2, <2>3 DEF Answers
<1>4. req' \in [Reqs -> Requests] /\ \A s \in Reqs : Sound(req'[s])
  BY IdleIsSound DEF Deliver, SessionInv, TypeOK, CookiesInv
<1>5. edits' \in 0 .. MaxEdits
  BY DEF Deliver, SessionInv, TypeOK
<1> QED BY <1>3, <1>4, <1>5, JarsKeep DEF Deliver

\* A lost answer takes its cookie with it.
LEMMA LoseKeeps ==
  ASSUME SessionInv, NEW r \in Reqs, Lose(r)
  PROVE  SessionInv'
<1>1. req' \in [Reqs -> Requests] /\ \A s \in Reqs : Sound(req'[s])
  BY IdleIsSound DEF Lose, SessionInv, TypeOK, CookiesInv
<1> QED BY <1>1, JarsKeep DEF Lose, SessionInv, TypeOK, CookiesInv

\* A cookie without its CSRF half says the same of its login.
LEMMA ForgetKeeps ==
  ASSUME SessionInv, NEW b \in Browsers, Forget(b)
  PROVE  SessionInv'
<1>1. jar \in [Browsers -> Cookies \cup {NoCookie}] /\ \A k \in Browsers : jar[k] \in Cookies => Backed(jar[k])
  BY DEF SessionInv, TypeOK, CookiesInv
<1>2. jar[b] \in Cookies /\ jar' = [jar EXCEPT ![b].csrf = Gone]
  BY <1>1 DEF Forget
<1>3. PICK d : d = [jar[b] EXCEPT !.csrf = Gone]
  OBVIOUS
<1>4. Gone \in Gone .. Horizon + TTL
  BY SessionsAssumption DEF Gone
<1>5. d \in Cookies /\ d.uid = jar[b].uid /\ d.iat = jar[b].iat /\ d.epoch = jar[b].epoch /\ d.login = jar[b].login
  BY <1>2, <1>3, <1>4 DEF Cookies
<1>6. Backed(d)
  BY <1>1, <1>2, <1>5 DEF Backed
<1>7. jar' = [jar EXCEPT ![b] = d]
  BY <1>2, <1>3
<1>8. jar' \in [Browsers -> Cookies \cup {NoCookie}] /\ \A k \in Browsers : jar'[k] \in Cookies => Backed(jar'[k])
  BY <1>1, <1>5, <1>6, <1>7
<1>9. edits' \in 0 .. MaxEdits
  BY SessionsAssumption DEF Forget, SessionInv, TypeOK
<1> QED BY <1>8, <1>9, JarsKeep DEF Forget, SessionInv, TypeOK, CookiesInv

\* A request starts or goes on, and serves a login or does not.
LEMMA RequestStep ==
  ASSUME SessionInv, NEW r \in Reqs, NEW q \in Requests, Sound(q), req' = [req EXCEPT ![r] = q],
         UNCHANGED <<users, now, jar, began, ended>>, edits' \in 0 .. MaxEdits,
         served' \in [login : Logins \cup {Nobody}, bit : {0, 1}]
  PROVE  SessionInv'
<1>1. req' \in [Reqs -> Requests'] /\ \A s \in Reqs : Sound(req[s])'
  BY RequestGoesOn
<1>2. \A b \in Browsers : (jar[b] \in Cookies => Backed(jar[b]))'
  BY DEF SessionInv, CookiesInv, Backed, Fresh, Cookies
<1>3. CookiesInv'
  BY <1>1, <1>2 DEF CookiesInv
<1>4. TypeOK'
  BY <1>1 DEF SessionInv, TypeOK, Cookies
<1>5. EpochsInv'
  BY RowsTyped
<1> QED BY <1>3, <1>4, <1>5 DEF SessionInv

\* The history of what was served.
LEMMA ServeTyped ==
  ASSUME SessionInv, NEW l \in Logins, Serve(l)
  PROVE  served' \in [login : Logins \cup {Nobody}, bit : {0, 1}]
  BY DEF Serve, SessionInv, TypeOK

\* The cookie that a browser holds.
LEMMA JarSound ==
  ASSUME SessionInv, NEW b \in Browsers, jar[b] # NoCookie
  PROVE  jar[b] \in Cookies /\ Backed(jar[b]) /\ jar[b].login \in Logins /\ jar[b].uid \in Users
<1>1. jar[b] \in Cookies /\ Backed(jar[b])
  BY DEF SessionInv, TypeOK, CookiesInv
<1> QED BY <1>1 DEF Cookies

\* me answers with no session cookie.
LEMMA MeKeeps ==
  ASSUME SessionInv, NEW r \in Reqs, NEW b \in Browsers, Me(r, b)
  PROVE  SessionInv'
<1> DEFINE c == jar[b]
<1>1. c \in Cookies /\ c.login \in Logins
  BY JarSound DEF Me
<1>2. PICK d \in Answers : Answer(r, b, d) /\ d \notin Cookies
  <2>1. now + TTL \in 0 .. Horizon + TTL
    BY SessionsAssumption DEF SessionInv, TypeOK
  <2>2. CSRFOnly(now + TTL) \in Answers /\ Keep \in Answers
    BY <2>1 DEF Answers
  <2> QED BY <2>2, CookieKinds DEF Me
<1>3. PICK q \in Requests : q = [pc |-> "answered", br |-> b, set |-> d]
  BY DEF Requests
<1>4. Sound(q)
  BY <1>2, <1>3 DEF Sound
<1>5. served' \in [login : Logins \cup {Nobody}, bit : {0, 1}]
  BY <1>1, ServeTyped DEF Me
<1>6. edits' \in 0 .. MaxEdits /\ UNCHANGED <<users, now, jar, began, ended>>
  BY DEF Me, SessionInv, TypeOK
<1>7. req' = [req EXCEPT ![r] = q]
  BY <1>2, <1>3 DEF Answer
<1> QED BY <1>4, <1>5, <1>6, <1>7, RequestStep

\* What the middleware answers with, or passes on, renews the cookie that came.
LEMMA AdmitKeeps ==
  ASSUME SessionInv, NEW r \in Reqs, NEW b \in Browsers, NEW k \in Kinds, NEW t \in Users, Admit(r, b, k, t)
  PROVE  SessionInv'
<1>1. PICK c \in Cookies : c = jar[b] /\ Backed(c) /\ c.login \in Logins
  BY JarSound DEF Admit
<1>2. PICK d : d = Renewed(c)
  OBVIOUS
<1>3. d \in Cookies \cup {Keep} /\ (d \in Cookies => Backed(d)) /\ d \in Answers
  BY <1>1, <1>2, RenewedBacked DEF SessionInv, Answers
<1>4. Keep \in Answers /\ Keep \notin Cookies
  BY CookieKinds DEF Answers
<1>5. edits' \in 0 .. MaxEdits /\ UNCHANGED <<users, now, jar, began, ended>>
  BY SessionsAssumption DEF Admit, SessionInv, TypeOK
<1>6. served' \in [login : Logins \cup {Nobody}, bit : {0, 1}]
  <2>1. UNCHANGED served \/ Serve(c.login)
    BY <1>1 DEF Admit
  <2> QED BY <1>1, <2>1, ServeTyped DEF SessionInv, TypeOK
<1>7. CASE Answer(r, b, Keep) \/ Answer(r, b, d)
  <2>1. PICK a \in Answers : Answer(r, b, a) /\ (a \in Cookies => Backed(a))
    BY <1>3, <1>4, <1>7
  <2>2. PICK q \in Requests : q = [pc |-> "answered", br |-> b, set |-> a] /\ Sound(q)
    BY <2>1, AnswerIsSound
  <2>3. req' = [req EXCEPT ![r] = q]
    BY <2>1, <2>2 DEF Answer
  <2> QED BY <1>5, <1>6, <2>2, <2>3, RequestStep
<1>8. CASE req' = [req EXCEPT ![r] = [pc |-> "admitted", br |-> b, kind |-> k, to |-> t, cookie |-> c, set |-> d]]
  <2>1. PICK q \in Requests : q = [pc |-> "admitted", br |-> b, kind |-> k, to |-> t, cookie |-> c, set |-> d]
    BY <1>3 DEF Requests
  <2>2. Sound(q)
    BY <1>1, <1>3, <2>1 DEF Sound
  <2>3. req' = [req EXCEPT ![r] = q]
    BY <1>8, <2>1
  <2> QED BY <1>5, <1>6, <2>2, <2>3, RequestStep
<1> QED BY <1>1, <1>2, <1>7, <1>8 DEF Admit

\* A login begins with the epoch of the row that is read.
LEMMA CheckCredentialKeeps ==
  ASSUME SessionInv, NEW r \in Reqs, NEW b \in Browsers, CheckCredential(r, b)
  PROVE  SessionInv'
<1> DEFINE u == Person[b]
<1>1. u \in Users /\ users[u].epoch \in Nat /\ now \in 0 .. Horizon /\ now \in Nat
  BY SessionsAssumption, RowsTyped DEF Rows, SessionInv, TypeOK
<1>2. PICK x \in [user : Users, epoch : Nat, at : 0 .. Horizon] : x = [user |-> u, epoch |-> users[u].epoch, at |-> now]
  BY <1>1
<1>3. x # Nobody
  <2>1. x \in [user : Users, epoch : Nat, at : Nat]
    BY <1>1, <1>2
  <2> QED BY <2>1, SessionsAssumption
<1>4. PICK l \in Logins : /\ Fresh(l) /\ began' = [began EXCEPT ![l] = x]
                         /\ req' = [req EXCEPT ![r] = [pc |-> "checked", br |-> b, login |-> l]]
  BY <1>2 DEF CheckCredential
<1>5. UNCHANGED <<users, now, jar, edits, ended, served>>
  BY DEF CheckCredential
<1>6. began' \in [Logins -> [user : Users, epoch : Nat, at : 0 .. Horizon] \cup {Nobody}]
      /\ began'[l] = x /\ \A k \in Logins \ {l} : began'[k] = began[k]
  BY <1>4 DEF SessionInv, TypeOK
<1>7. PICK q \in Requests' : q = [pc |-> "checked", br |-> b, login |-> l]
  <2>1. ~Fresh(l)'
    BY <1>3, <1>6 DEF Fresh
  <2> QED BY <2>1 DEF Requests
<1>8. Sound(q)'
  BY <1>2, <1>5, <1>6, <1>7 DEF Sound
<1>9. req' \in [Reqs -> Requests'] /\ CookiesInv'
  <2>1. req' = [req EXCEPT ![r] = q]
    BY <1>4, <1>7
  <2> QED BY <1>3, <1>4, <1>5, <1>8, <2>1, LoginBegins
<1>10. TypeOK'
  BY <1>5, <1>6, <1>9 DEF SessionInv, TypeOK, Cookies
<1>11. EpochsInv'
  <2>1. ASSUME NEW k \in Logins \ {l}
        PROVE  /\ Fresh(k)' <=> Fresh(k)
               /\ ~Fresh(k) => began'[k].epoch <= users'[began'[k].user].epoch
               /\ k \in ended => ~Fresh(k) /\ began'[k].epoch < users'[began'[k].user].epoch
    BY <1>5, <1>6 DEF Fresh, SessionInv, EpochsInv
  <2>2. began'[l].epoch <= users'[began'[l].user].epoch
    BY <1>1, <1>2, <1>5, <1>6
  <2>3. l \notin ended /\ ended' = ended /\ ended \subseteq Logins
    BY <1>4, <1>5 DEF SessionInv, EpochsInv, TypeOK
  <2> QED BY <2>1, <2>2, <2>3 DEF EpochsInv
<1> QED BY <1>9, <1>10, <1>11 DEF SessionInv

\* Time never passes between a credential check and its cookie: there the login began now.
LEMMA TickKeeps ==
  ASSUME SessionInv, Tick
  PROVE  SessionInv'
<1>1. UNCHANGED <<users, jar, req, edits, began, ended, served>> /\ now' \in 0 .. Horizon
  BY SessionsAssumption DEF Tick, SessionInv, TypeOK
<1>2. TypeOK' /\ EpochsInv'
  BY <1>1, RowsTyped DEF SessionInv, TypeOK, Requests, Cookies, Fresh
<1>3. CookiesInv'
  <2>1. \A b \in Browsers : (jar[b] \in Cookies => Backed(jar[b]))'
    BY <1>1 DEF SessionInv, CookiesInv, Backed, Fresh, Cookies
  <2>2. ASSUME NEW r \in Reqs
        PROVE  Sound(req[r])'
    <3>1. Sound(req[r]) /\ req[r].pc # "checked"
      BY DEF SessionInv, CookiesInv, Tick
    <3> QED BY <1>1, <3>1 DEF Sound, Backed, Fresh, Cookies
  <2> QED BY <2>1, <2>2 DEF CookiesInv
<1> QED BY <1>2, <1>3 DEF SessionInv

\* A registration keeps the epoch of the row.
LEMMA RegisterKeeps ==
  ASSUME SessionInv, NEW b \in Browsers, Register(b)
  PROVE  SessionInv'
<1> DEFINE u == Person[b]
<1>1. u \in Users /\ UNCHANGED <<now, jar, req, edits, began, ended, served>>
  BY SessionsAssumption DEF Register
<1>2. users' \in [Users -> Rows] /\ \A v \in Users : users'[v].epoch = users[v].epoch /\ users[v].epoch \in Nat
  BY <1>1, RowsTyped DEF Register, Rows
<1>3. EpochsInv'
  BY <1>1, <1>2, EpochsGrow
<1>4. CookiesInv'
  BY <1>1 DEF SessionInv, CookiesInv, Sound, Backed, Fresh, Cookies
<1>5. TypeOK'
  BY <1>1, <1>2 DEF SessionInv, TypeOK, Rows, Requests, Cookies, Fresh
<1> QED BY <1>3, <1>4, <1>5 DEF SessionInv

\* A connection to a forwarded port only serves.
LEMMA OpenForwardKeeps ==
  ASSUME SessionInv, NEW b \in Browsers, NEW o, OpenForward(b, o)
  PROVE  SessionInv'
<1>1. UNCHANGED <<users, now, jar, req, edits, began, ended>>
  BY DEF OpenForward
<1>2. served' \in [login : Logins \cup {Nobody}, bit : {0, 1}]
  BY JarSound, ServeTyped DEF OpenForward
<1>3. CookiesInv' /\ EpochsInv'
  BY <1>1, RowsTyped DEF SessionInv, CookiesInv, Sound, Backed, Fresh, Cookies
<1>4. TypeOK'
  BY <1>1, <1>2 DEF SessionInv, TypeOK, Requests, Cookies, Fresh
<1> QED BY <1>3, <1>4 DEF SessionInv

\* It holds when the console starts.
LEMMA InitKeeps == Init => SessionInv
<1> SUFFICES ASSUME Init PROVE SessionInv
  OBVIOUS
<1>1. TypeOK
  BY SessionsAssumption DEF Init, TypeOK, Requests
<1>2. EpochsInv
  BY DEF Init, EpochsInv, Fresh
<1>3. CookiesInv
  BY IdleIsSound, CookieKinds DEF Init, CookiesInv
<1> QED BY <1>1, <1>2, <1>3 DEF SessionInv

\* Every step keeps it.
LEMMA NextKeeps == SessionInv /\ [Next]_vars => SessionInv'
<1> SUFFICES ASSUME SessionInv, [Next]_vars PROVE SessionInv'
  OBVIOUS
<1>1. CASE Tick
  BY <1>1, TickKeeps
<1>2. ASSUME NEW r \in Reqs, Step(r) PROVE SessionInv'
  BY <1>2, IssueCookieKeeps, LogoutKeeps, VerifyPasswordKeeps, ChangePasswordKeeps, UpdateUserKeeps, ApproveKeeps,
     ClearDisabledKeeps, CreateAccountKeeps, OnOtherKeeps, DeliverKeeps, LoseKeeps DEF Step
<1>3. ASSUME NEW r \in Reqs, NEW b \in Browsers,
             CheckCredential(r, b) \/ Me(r, b) \/ \E k \in Kinds, t \in Users : Admit(r, b, k, t)
      PROVE  SessionInv'
  BY <1>3, CheckCredentialKeeps, MeKeeps, AdmitKeeps
<1>4. ASSUME NEW b \in Browsers,
             Register(b) \/ Forget(b) \/ \E o \in Users \cup {Nobody} : OpenForward(b, o)
      PROVE  SessionInv'
  BY <1>4, RegisterKeeps, ForgetKeeps, OpenForwardKeeps
<1>5. CASE UNCHANGED vars
  BY <1>5 DEF vars, SessionInv, TypeOK, EpochsInv, CookiesInv, Sound, Backed, Fresh, Requests, Cookies
<1> QED BY <1>1, <1>2, <1>3, <1>4, <1>5 DEF Next

\* Every row, cookie and request has its shape; a login that has ended has an epoch
\* its account has left behind; and every cookie anywhere says what its login was.
THEOREM EveryCookieIsBacked == Spec => []SessionInv
<1>1. Init => SessionInv
  BY InitKeeps
<1>2. SessionInv /\ [Next]_vars => SessionInv'
  BY NextKeeps
<1> QED BY <1>1, <1>2, PTL DEF Spec

-----------------------------------------------------------------------------
\* What is served, is served for a cookie that was judged in the same step.
LEMMA ServedIsAlive ==
  ASSUME SessionInv, Next, served' # served
  PROVE  \E l \in Logins :
           /\ Serve(l) /\ ~Fresh(l) /\ l \notin ended
           /\ began[l].user \in Users /\ users[began[l].user].row = "here" /\ ~users[began[l].user].disabled
           /\ now - began[l].at <= MaxAge
           /\ UNCHANGED <<users, began, ended>>
<1>1. ASSUME NEW b \in Browsers, jar[b] # NoCookie, Admissible(jar[b]), Serve(jar[b].login),
             UNCHANGED <<users, began, ended>>
      PROVE  \E l \in Logins :
               /\ Serve(l) /\ ~Fresh(l) /\ l \notin ended
               /\ began[l].user \in Users /\ users[began[l].user].row = "here" /\ ~users[began[l].user].disabled
               /\ now - began[l].at <= MaxAge
               /\ UNCHANGED <<users, began, ended>>
  BY <1>1, JarSound, AdmittedIsAlive
<1>2. \E b \in Browsers : /\ jar[b] # NoCookie /\ Admissible(jar[b]) /\ Serve(jar[b].login)
                          /\ UNCHANGED <<users, began, ended>>
  <2>1. CASE \E r \in Reqs : Step(r)
    BY <2>1 DEF Step, IssueCookie, Logout, VerifyPassword, ChangePassword, UpdateUser, Approve, ClearDisabled,
                CreateAccount, Deactivate, DeleteAccount, OnOther, Deliver, Lose
  <2>2. ASSUME NEW r \in Reqs, NEW b \in Browsers,
               CheckCredential(r, b) \/ Me(r, b) \/ \E k \in Kinds, t \in Users : Admit(r, b, k, t)
        PROVE  /\ jar[b] # NoCookie /\ Admissible(jar[b]) /\ Serve(jar[b].login)
               /\ UNCHANGED <<users, began, ended>>
    BY <2>2 DEF CheckCredential, Me, Admit
  <2>3. ASSUME NEW b \in Browsers,
               Register(b) \/ Forget(b) \/ \E o \in Users \cup {Nobody} : OpenForward(b, o)
        PROVE  /\ jar[b] # NoCookie /\ Admissible(jar[b]) /\ Serve(jar[b].login)
               /\ UNCHANGED <<users, began, ended>>
    BY <2>3 DEF Register, Forget, OpenForward
  <2> QED BY <2>1, <2>2, <2>3 DEF Next, Tick
<1> QED BY <1>1, <1>2

\* Sliding renewal never carries a login past its absolute lifetime.
THEOREM SessionsEnd == Spec => SessionEnds
<1>1. SessionInv /\ [Next]_vars => [served' # served => now - began[served'.login].at <= MaxAge]_vars
  <2> SUFFICES ASSUME SessionInv, Next, served' # served
               PROVE  now - began[served'.login].at <= MaxAge
    BY DEF vars
  <2> QED BY ServedIsAlive DEF Serve
<1> QED BY <1>1, EveryCookieIsBacked, PTL DEF Spec, SessionEnds

-----------------------------------------------------------------------------
\* A step that changes one account's row, and no login, bars the account or lets it in.
LEMMA RowStep ==
  ASSUME NEW u \in Users, UNCHANGED <<began, ended, served>>,
         \A v \in Users \ {u} : users'[v].row = users[v].row /\ users'[v].disabled = users[v].disabled
  PROVE  Life!Next
<1>1. Who' = Who /\ Alive' = Alive
  BY DEF Who, Alive, Fresh
<1>2. Barred' = Barred \cup {u} \/ Barred' = Barred \ {u}
  BY DEF Barred
<1> QED BY <1>1, <1>2 DEF Life!Next, Life!Bar, Life!Unbar

\* A step that changes no row and no login is invisible.
LEMMA HiddenStep ==
  ASSUME UNCHANGED <<users, began, ended, served>>
  PROVE  UNCHANGED Life!lifeVars
  BY DEF Life!lifeVars, Who, Alive, Barred, Fresh

\* An account's logins end.
LEMMA RevokeStep ==
  ASSUME SessionInv, NEW u \in Users, EndLogins(u), UNCHANGED <<began, served>>,
         \A v \in Users : users'[v].row = users[v].row /\ users'[v].disabled = users[v].disabled
  PROVE  Life!Next
<1>1. Who' = Who /\ Barred' = Barred
  BY DEF Who, Barred, Fresh
<1>2. Alive' = Alive \ Life!Of(u)
  BY SessionsAssumption DEF Alive, Who, Life!Of, EndLogins, Fresh
<1> QED BY <1>1, <1>2 DEF Life!Next, Life!Revoke

\* A login begins.
LEMMA LoginMapped ==
  ASSUME NEW l \in Logins, Fresh(l), NEW x, x # Nobody, began'[l] = x,
         \A k \in Logins \ {l} : began'[k] = began[k]
  PROVE  Who[l] = Nobody /\ Who' = [Who EXCEPT ![l] = x.user]
<1>1. Who' = [k \in Logins |-> IF k = l THEN x.user ELSE Who[k]]
  <2>1. \A k \in Logins : (IF Fresh(k) THEN Nobody ELSE began[k].user)' = IF k = l THEN x.user ELSE Who[k]
    BY DEF Who, Fresh
  <2> QED BY <2>1 DEF Who
<1>2. [Who EXCEPT ![l] = x.user] = [k \in Logins |-> IF k = l THEN x.user ELSE Who[k]]
  BY DEF Who
<1>3. Who[l] = Nobody
  BY DEF Who
<1> QED BY <1>1, <1>2, <1>3

\* The steps that SessionLife sees.  A logout revokes, or finds nobody to revoke.
LEMMA LogoutRefines ==
  ASSUME SessionInv, NEW r \in Reqs, Logout(r)
  PROVE  Life!Next \/ UNCHANGED Life!lifeVars
<1> DEFINE u == req[r].cookie.uid
<1>1. u \in Users
  BY Shapes DEF SessionInv, Logout, Cookies
<1>2. CASE users' = [users EXCEPT ![u].epoch = @ + 1] /\ EndLogins(u)
  <2>1. \A v \in Users : users'[v].row = users[v].row /\ users'[v].disabled = users[v].disabled
    BY <1>2, RowsTyped DEF Rows
  <2> QED BY <1>1, <1>2, <2>1, RevokeStep DEF Logout
<1>3. CASE UNCHANGED <<users, ended>>
  BY <1>3, HiddenStep DEF Logout
<1> QED BY <1>2, <1>3 DEF Logout

\* A password change rotates, or finds the account gone.
LEMMA ChangePasswordRefines ==
  ASSUME SessionInv, NEW r \in Reqs, ChangePassword(r)
  PROVE  Life!Next \/ UNCHANGED Life!lifeVars
<1> DEFINE u == req[r].cookie.uid
<1>1. u \in Users
  BY Shapes DEF SessionInv, ChangePassword, Cookies
<1>2. CASE UNCHANGED <<users, began, ended>>
  BY <1>2, HiddenStep DEF ChangePassword
<1>3. CASE users[u].row = "here"
  <2>1. users' = [users EXCEPT ![u].epoch = @ + 1, ![u].pw = @ + 1] /\ EndLogins(u) /\ served' = served
    BY <1>3 DEF ChangePassword
  <2>2. PICK x \in [user : Users, epoch : Nat, at : Nat] : x = [user |-> u, epoch |-> users[u].epoch + 1, at |-> now]
    <3>1. now \in Nat /\ users[u].epoch + 1 \in Nat
      BY <1>1, RowsTyped, SessionsAssumption DEF Rows, SessionInv, TypeOK
    <3> QED BY <1>1, <3>1
  <2>3. PICK l \in Logins : Fresh(l) /\ began' = [began EXCEPT ![l] = x]
    BY <1>3, <2>2 DEF ChangePassword
  <2>4. x # Nobody
    BY SessionsAssumption
  <2>5. began'[l] = x /\ \A k \in Logins \ {l} : began'[k] = began[k]
    BY <2>3 DEF SessionInv, TypeOK
  <2>6. Who[l] = Nobody /\ Who' = [Who EXCEPT ![l] = u]
    BY <2>2, <2>3, <2>4, <2>5, LoginMapped
  <2>7. Alive' = (Alive \ Life!Of(u)) \cup {l}
    <3>1. l \notin ended /\ ended' = ended \cup {k \in Logins : ~Fresh(k) /\ began[k].user = u}
      BY <2>1, <2>3 DEF EndLogins, SessionInv, EpochsInv
    <3>2. u # Nobody
      BY <1>1, SessionsAssumption
    <3>3. \A k \in Logins \ {l} : Fresh(k)' = Fresh(k)
      BY <2>5 DEF Fresh
    <3>4. Fresh(l) /\ ~Fresh(l)'
      BY <2>3, <2>4, <2>5 DEF Fresh
    <3>5. \A k \in Logins : k \in Life!Of(u) <=> ~Fresh(k) /\ began[k].user = u
      BY <3>2 DEF Life!Of, Who
    <3> HIDE DEF u
    <3> QED BY <3>1, <3>3, <3>4, <3>5 DEF Alive
  <2>8. Barred' = Barred
    <3>1. \A v \in Users : /\ users'[v].row = users[v].row /\ users'[v].disabled = users[v].disabled
                           /\ users'[v].pending = users[v].pending
      BY <1>1, <2>1, RowsTyped DEF Rows
    <3> QED BY <3>1 DEF Barred
  <2> HIDE DEF u
  <2> QED BY <1>1, <2>1, <2>6, <2>7, <2>8 DEF Life!Next, Life!Rotate
<1> QED BY <1>2, <1>3 DEF ChangePassword

\* A credential check begins a login of an account that is let in.
LEMMA CheckCredentialRefines ==
  ASSUME SessionInv, NEW r \in Reqs, NEW b \in Browsers, CheckCredential(r, b)
  PROVE  Life!Next
<1>1. PICK u \in Users : u = Person[b] /\ users[u].row = "here" /\ ~users[u].disabled
  BY SessionsAssumption DEF CheckCredential
<1>2. PICK x \in [user : Users, epoch : Nat, at : Nat] : x = [user |-> u, epoch |-> users[u].epoch, at |-> now]
  <2>1. now \in Nat /\ users[u].epoch \in Nat
    BY <1>1, RowsTyped, SessionsAssumption DEF Rows, SessionInv, TypeOK
  <2> QED BY <1>1, <2>1
<1>3. PICK l \in Logins : Fresh(l) /\ began' = [began EXCEPT ![l] = x]
  BY <1>1, <1>2 DEF CheckCredential
<1>4. x # Nobody
  BY SessionsAssumption
<1>5. began'[l] = x /\ \A k \in Logins \ {l} : began'[k] = began[k]
  BY <1>3 DEF SessionInv, TypeOK
<1>6. Who[l] = Nobody /\ Who' = [Who EXCEPT ![l] = u]
  BY <1>2, <1>3, <1>4, <1>5, LoginMapped
<1>7. UNCHANGED <<users, ended, served>> /\ l \notin ended
  BY <1>3 DEF CheckCredential, SessionInv, EpochsInv
<1>8. Alive' = Alive \cup {l}
  BY <1>3, <1>4, <1>5, <1>7 DEF Alive, Fresh
<1>9. Barred' = Barred /\ u \notin Barred
  BY <1>1, <1>7 DEF Barred
<1> QED BY <1>6, <1>7, <1>8, <1>9 DEF Life!Next, Life!Begin

\* The account handlers.
LEMMA EditRefines ==
  ASSUME SessionInv, NEW r \in Reqs,
         UpdateUser(r) \/ Approve(r) \/ ClearDisabled(r) \/ CreateAccount(r) \/ Deactivate(r) \/ DeleteAccount(r)
  PROVE  Life!Next
<1> DEFINE t == req[r].to
<1>1. t \in Users /\ served' = served /\ began' = began
  BY Shapes DEF SessionInv, UpdateUser, Approve, ClearDisabled, CreateAccount, Deactivate, DeleteAccount, OnOther
<1>2. CASE EndLogins(t) /\ users' = [users EXCEPT ![t].epoch = @ + 1, ![t].pw = @ + 1]
  <2>1. \A v \in Users : users'[v].row = users[v].row /\ users'[v].disabled = users[v].disabled
    BY <1>2, RowsTyped DEF Rows
  <2> QED BY <1>1, <1>2, <2>1, RevokeStep
<1>3. CASE ended' = ended /\ \A v \in Users \ {t} : users'[v] = users[v]
  BY <1>1, <1>3, RowStep
<1>4. CASE UpdateUser(r)
  <2>1. \/ EndLogins(t) /\ users' = [users EXCEPT ![t].epoch = @ + 1, ![t].pw = @ + 1]
        \/ ended' = ended /\ users' = users
        \/ ended' = ended /\ users' = [users EXCEPT ![t].disabled = TRUE]
        \/ ended' = ended /\ users' = [users EXCEPT ![t].disabled = FALSE]
        \/ ended' = ended /\ users' = [users EXCEPT ![t].admin = FALSE]
        \/ ended' = ended /\ users' = [users EXCEPT ![t].admin = TRUE]
    BY <1>4 DEF UpdateUser
  <2> QED BY <1>2, <1>3, <2>1, RowsTyped
<1>5. CASE Approve(r) \/ ClearDisabled(r) \/ CreateAccount(r) \/ Deactivate(r) \/ DeleteAccount(r)
  <2>1. ended' = ended /\ \A v \in Users \ {t} : users'[v] = users[v]
    BY <1>5, RowsTyped DEF Approve, ClearDisabled, CreateAccount, Deactivate, DeleteAccount, OnOther
  <2> QED BY <1>3, <2>1
<1> QED BY <1>4, <1>5

\* Whatever requests are in flight and whatever answers arrive late, a login that a logout
\* or a password change ended is never served again, nor is a barred account.
THEOREM CookiesHonourRevocation == Spec => HonoursRevocation
<1>1. Init => Life!Init
  BY DEF Init, Life!Init, Who, Alive, Barred, Fresh
<1>2. SessionInv /\ [Next]_vars => [Life!Next]_Life!lifeVars
  <2> SUFFICES ASSUME SessionInv, [Next]_vars PROVE Life!Next \/ UNCHANGED Life!lifeVars
    OBVIOUS
  <2>1. CASE served' # served
    <3>1. Next
      BY <2>1 DEF vars
    <3>2. PICK l \in Logins :
            /\ Serve(l) /\ ~Fresh(l) /\ l \notin ended
            /\ began[l].user \in Users /\ users[began[l].user].row = "here" /\ ~users[began[l].user].disabled
            /\ UNCHANGED <<users, began, ended>>
      BY <2>1, <3>1, ServedIsAlive
    <3>3. UNCHANGED <<Who, Alive, Barred>> /\ l \in Alive /\ Who[l] \notin Barred
      BY <3>2 DEF Who, Alive, Barred, Fresh
    <3>4. Life!Serve(l)
      BY <3>2, <3>3 DEF Life!Serve, Serve
    <3> QED BY <3>4 DEF Life!Next
  <2>2. CASE UNCHANGED <<users, began, ended, served>>
    BY <2>2, HiddenStep
  <2>3. CASE served' = served
    <3>1. CASE Tick \/ UNCHANGED vars
      BY <2>2, <3>1 DEF Tick, vars
    <3>2. ASSUME NEW r \in Reqs, Step(r) PROVE Life!Next \/ UNCHANGED Life!lifeVars
      <4>1. CASE IssueCookie(r) \/ VerifyPassword(r) \/ Deliver(r) \/ Lose(r)
        BY <2>2, <4>1 DEF IssueCookie, VerifyPassword, Deliver, Lose
      <4> QED BY <3>2, <4>1, LogoutRefines, ChangePasswordRefines, EditRefines DEF Step
    <3>3. ASSUME NEW r \in Reqs, NEW b \in Browsers, CheckCredential(r, b)
          PROVE  Life!Next
      BY <3>3, CheckCredentialRefines
    <3>4. ASSUME NEW r \in Reqs, NEW b \in Browsers,
                 Me(r, b) \/ \E k \in Kinds, t \in Users : Admit(r, b, k, t)
          PROVE  Life!Next \/ UNCHANGED Life!lifeVars
      BY <2>2, <2>3, <3>4 DEF Me, Admit
    <3>5. ASSUME NEW b \in Browsers, Forget(b) \/ \E o \in Users \cup {Nobody} : OpenForward(b, o)
          PROVE  Life!Next \/ UNCHANGED Life!lifeVars
      BY <2>2, <2>3, <3>5 DEF Forget, OpenForward
    <3>6. ASSUME NEW b \in Browsers, Register(b)
          PROVE  Life!Next
      <4>1. PICK u \in Users : u = Person[b]
        BY SessionsAssumption
      <4>2. UNCHANGED <<began, ended, served>> /\ \A v \in Users \ {u} : users'[v] = users[v]
        BY <3>6, <4>1, RowsTyped DEF Register
      <4> QED BY <4>1, <4>2, RowStep
    <3> QED BY <3>1, <3>2, <3>3, <3>4, <3>5, <3>6 DEF Next
  <2> QED BY <2>1, <2>3
<1> QED BY <1>1, <1>2, EveryCookieIsBacked, PTL DEF Spec, HonoursRevocation, Life!Spec

-----------------------------------------------------------------------------
\* An account that can administer the console.
Heads(u) == u \in Users /\ users[u].row = "here" /\ users[u].admin /\ ~users[u].disabled

\* While one edit is at work at a time, the administrator who asked for it stays one.
AdminInv ==
  ~AdminsOverlap =>
    /\ \E u \in Users : Heads(u)
    /\ \A r, s \in Reqs : Editing(r) /\ Editing(s) => r = s
    /\ \A r \in Reqs : req[r].pc = "admitted" /\ req[r].kind \in Edits => Heads(req[r].cookie.uid)

\* Steps that take the role from nobody and admit no edit.
LEMMA QuietStep ==
  ASSUME AdminInv, \A u \in Users : Heads(u) => Heads(u)',
         \A r \in Reqs : Editing(r)' => Editing(r),
         \A r \in Reqs : req'[r].pc = "admitted" /\ req'[r].kind \in Edits => req'[r] = req[r]
  PROVE  AdminInv'
<1> SUFFICES ASSUME ~AdminsOverlap
             PROVE  /\ \E u \in Users : Heads(u)'
                    /\ \A r, s \in Reqs : Editing(r)' /\ Editing(s)' => r = s
                    /\ \A r \in Reqs : req'[r].pc = "admitted" /\ req'[r].kind \in Edits => Heads(req[r].cookie.uid)'
  BY DEF AdminInv
<1>1. \E u \in Users : Heads(u)'
  BY DEF AdminInv
<1>2. \A r, s \in Reqs : Editing(r)' /\ Editing(s)' => r = s
  BY DEF AdminInv
<1>3. ASSUME NEW r \in Reqs, req'[r].pc = "admitted", req'[r].kind \in Edits
      PROVE  Heads(req[r].cookie.uid)'
  <2>1. PICK u : u = req[r].cookie.uid
    OBVIOUS
  <2>2. Heads(u) /\ req'[r] = req[r]
    BY <1>3, <2>1 DEF AdminInv
  <2>3. Heads(u)'
    BY <2>2 DEF Heads
  <2> QED BY <2>1, <2>2, <2>3 DEF Heads
<1> QED BY <1>1, <1>2, <1>3

\* An edit ends or goes on, and the administrator who asked for it still is one.
LEMMA EditStep ==
  ASSUME TypeOK, AdminInv, NEW r \in Reqs, Editing(r), NEW q, req' = [req EXCEPT ![r] = q], q.pc # "admitted",
         NEW u, Heads(u)'
  PROVE  AdminInv'
<1>1. req'[r] = q /\ \A s \in Reqs \ {r} : req'[s] = req[s]
  BY DEF TypeOK
<1>2. CASE ~AdminsOverlap
  <2>1. \A s \in Reqs \ {r} : ~Editing(s) /\ ~Editing(s)'
    BY <1>1, <1>2 DEF AdminInv, Editing
  <2>2. \A s \in Reqs : ~(req'[s].pc = "admitted" /\ req'[s].kind \in Edits)
    BY <1>1, <2>1 DEF Editing
  <2> QED BY <2>1, <2>2 DEF AdminInv, Heads
<1>3. CASE AdminsOverlap
  BY <1>3 DEF AdminInv
<1> QED BY <1>2, <1>3

\* Who administers after an account's row has changed.
LEMMA OthersHead ==
  ASSUME SessionInv, NEW u, Heads(u), NEW t, t # u \/ UNCHANGED users,
         \A v \in Users \ {t} : users'[v] = users[v]
  PROVE  Heads(u)'
  BY DEF Heads

\* The request and the administrator who asked for it.
LEMMA EditorHeads ==
  ASSUME SessionInv, AdminInv, ~AdminsOverlap, NEW r \in Reqs, req[r].pc = "admitted", req[r].kind \in Edits
  PROVE  Heads(req[r].cookie.uid) /\ Editing(r)
  BY DEF AdminInv, Editing

\* What the record of a request becomes.
LEMMA Becomes ==
  ASSUME NEW r \in Reqs
  PROVE  /\ \A b, c : Answer(r, b, c) => \E q : req' = [req EXCEPT ![r] = q] /\ q.pc = "answered"
         /\ req' = [req EXCEPT ![r] = [pc |-> "approved", kind |-> req[r].kind, br |-> req[r].br,
                                       to |-> req[r].to, set |-> req[r].set]]
              => \E q : req' = [req EXCEPT ![r] = q] /\ q.pc = "approved"
<1>1. ASSUME NEW b, NEW c, Answer(r, b, c)
      PROVE  \E q : req' = [req EXCEPT ![r] = q] /\ q.pc = "answered"
  <2> DEFINE q == [pc |-> "answered", br |-> b, set |-> c]
  <2>1. q.pc = "answered"
    OBVIOUS
  <2>2. req' = [req EXCEPT ![r] = q]
    BY <1>1 DEF Answer
  <2> HIDE DEF q
  <2> QED BY <2>1, <2>2
<1>2. ASSUME req' = [req EXCEPT ![r] = [pc |-> "approved", kind |-> req[r].kind, br |-> req[r].br,
                                       to |-> req[r].to, set |-> req[r].set]]
      PROVE  \E q : req' = [req EXCEPT ![r] = q] /\ q.pc = "approved"
  <2> DEFINE q == [pc |-> "approved", kind |-> req[r].kind, br |-> req[r].br, to |-> req[r].to, set |-> req[r].set]
  <2>1. q.pc = "approved"
    OBVIOUS
  <2>2. req' = [req EXCEPT ![r] = q]
    BY <1>2
  <2> HIDE DEF q
  <2> QED BY <2>1, <2>2
<1> QED BY <1>1, <1>2

\* An edit never takes the role from the administrator who asked for it.
LEMMA EditKeepsAdmins ==
  ASSUME SessionInv, AdminInv, ~AdminsOverlap, NEW r \in Reqs,
         UpdateUser(r) \/ Approve(r) \/ CreateAccount(r) \/ Deactivate(r) \/ DeleteAccount(r)
  PROVE  AdminInv'
<1>1. req[r].pc = "admitted" /\ req[r].kind \in Edits
  BY DEF UpdateUser, Approve, CreateAccount, Deactivate, DeleteAccount, OnOther, Edits
<1>2. PICK u : u = req[r].cookie.uid /\ Heads(u) /\ Editing(r)
  BY <1>1, EditorHeads
<1>3. \E q : req' = [req EXCEPT ![r] = q] /\ q.pc # "admitted"
  <2>1. Answer(r, req[r].br, req[r].set)
        \/ req' = [req EXCEPT ![r] = [pc |-> "approved", kind |-> req[r].kind, br |-> req[r].br,
                                      to |-> req[r].to, set |-> req[r].set]]
    BY DEF UpdateUser, Approve, CreateAccount, Deactivate, DeleteAccount, OnOther
  <2> QED BY <2>1, Becomes
<1>4. Heads(u)'
  <2>1. PICK t \in Users : t = req[r].to
    BY <1>1, Shapes DEF SessionInv
  <2>2. CASE UpdateUser(r)
    <3>1. \/ users' = users
          \/ users' = [users EXCEPT ![t].epoch = @ + 1, ![t].pw = @ + 1]
          \/ users' = [users EXCEPT ![t].disabled = FALSE]
          \/ users' = [users EXCEPT ![t].admin = TRUE]
          \/ t # u /\ users' = [users EXCEPT ![t].disabled = TRUE]
          \/ t # u /\ users' = [users EXCEPT ![t].admin = FALSE]
      BY <1>2, <2>1, <2>2 DEF UpdateUser
    <3> QED BY <1>2, <3>1, RowsTyped DEF Heads, Rows
  <2>3. CASE Approve(r)
    BY <1>2, <2>3, RowsTyped DEF Approve, Heads, Rows
  <2>4. CASE CreateAccount(r)
    <3>1. users' = users \/ (t # u /\ \A v \in Users \ {t} : users'[v] = users[v])
      BY <1>2, <2>1, <2>4, RowsTyped DEF CreateAccount, Heads
    <3> QED BY <1>2, <3>1 DEF Heads
  <2>5. CASE Deactivate(r) \/ DeleteAccount(r)
    <3>1. users' = users \/ (t # u /\ \A v \in Users \ {t} : users'[v] = users[v])
      BY <1>2, <2>1, <2>5, RowsTyped DEF Deactivate, DeleteAccount, Touchable
    <3> QED BY <1>2, <3>1 DEF Heads
  <2> QED BY <2>2, <2>3, <2>4, <2>5
<1> QED BY <1>2, <1>3, <1>4, EditStep DEF SessionInv

\* Rows that change without anybody losing the role.
LEMMA ClearDisabledKeepsAdmins ==
  ASSUME SessionInv, AdminInv, ~AdminsOverlap, NEW r \in Reqs, ClearDisabled(r)
  PROVE  AdminInv'
<1>1. req[r].pc = "approved" /\ req[r].kind = "approve" /\ req[r].to \in Users
  BY Shapes DEF SessionInv, ClearDisabled
<1>2. PICK u : Heads(u)
  BY DEF AdminInv
<1>3. Heads(u)'
  BY <1>1, <1>2, RowsTyped DEF Heads, Rows, ClearDisabled
<1>4. Editing(r)
  BY <1>1 DEF Editing, Edits
<1>5. PICK q : req' = [req EXCEPT ![r] = q] /\ q.pc = "answered"
  BY Becomes DEF ClearDisabled
<1> QED BY <1>3, <1>4, <1>5, EditStep DEF SessionInv

\* The steps of a request that is no edit.
LEMMA OtherKeepsAdmins ==
  ASSUME SessionInv, AdminInv, NEW r \in Reqs,
         IssueCookie(r) \/ Logout(r) \/ VerifyPassword(r) \/ ChangePassword(r) \/ Deliver(r) \/ Lose(r)
  PROVE  AdminInv'
<1>1. \E q : req' = [req EXCEPT ![r] = q] /\ q.pc \notin {"admitted", "approved"}
  <2>1. CASE \E b, c : Answer(r, b, c)
    BY <2>1, Becomes
  <2>2. CASE req' = [req EXCEPT ![r] = Idle]
    <3>1. Idle.pc = "idle"
      BY DEF Idle
    <3> QED BY <2>2, <3>1
  <2>3. ASSUME NEW x, req' = [req EXCEPT ![r] = [pc |-> "verified", br |-> req[r].br, cookie |-> req[r].cookie,
                                                 set |-> req[r].set, pw |-> x]]
        PROVE  \E q : req' = [req EXCEPT ![r] = q] /\ q.pc \notin {"admitted", "approved"}
    <3> DEFINE q == [pc |-> "verified", br |-> req[r].br, cookie |-> req[r].cookie, set |-> req[r].set, pw |-> x]
    <3>1. q.pc = "verified"
      OBVIOUS
    <3>2. req' = [req EXCEPT ![r] = q]
      BY <2>3
    <3> HIDE DEF q
    <3> QED BY <3>1, <3>2
  <2> QED BY <2>1, <2>2, <2>3 DEF IssueCookie, Logout, VerifyPassword, ChangePassword, Deliver, Lose
<1>2. \A u \in Users : Heads(u) => Heads(u)'
  <2>1. users' = users \/ \E v \in Users : \/ users' = [users EXCEPT ![v].epoch = @ + 1]
                                         \/ users' = [users EXCEPT ![v].epoch = @ + 1, ![v].pw = @ + 1]
    <3>1. CASE IssueCookie(r) \/ VerifyPassword(r) \/ Deliver(r) \/ Lose(r)
      BY <3>1 DEF IssueCookie, VerifyPassword, Deliver, Lose
    <3>2. CASE Logout(r)
      BY <3>2, Shapes DEF SessionInv, Cookies, Logout
    <3>3. CASE ChangePassword(r)
      BY <3>3, Shapes DEF SessionInv, Cookies, ChangePassword
    <3> QED BY <3>1, <3>2, <3>3
  <2>2. CASE users' = users
    BY <2>2 DEF Heads
  <2>3. ASSUME NEW v \in Users,
               \/ users' = [users EXCEPT ![v].epoch = @ + 1]
               \/ users' = [users EXCEPT ![v].epoch = @ + 1, ![v].pw = @ + 1]
        PROVE  \A u \in Users : /\ users'[u].row = users[u].row /\ users'[u].admin = users[u].admin
                                /\ users'[u].disabled = users[u].disabled
                                /\ users'[u].pending = users[u].pending
    BY <2>3, RowsTyped DEF Rows
  <2> QED BY <2>1, <2>2, <2>3 DEF Heads
<1>3. \A s \in Reqs : \/ req'[s] = req[s]
                      \/ req'[s].pc \notin {"admitted", "approved"}
  BY <1>1 DEF SessionInv, TypeOK
<1> QED BY <1>2, <1>3, QuietStep DEF Editing

\* An edit is admitted for an administrator, while no other one is at work.
LEMMA AdmitKeepsAdmins ==
  ASSUME SessionInv, AdminInv, ~AdminsOverlap, NEW r \in Reqs, NEW b \in Browsers, NEW k \in Kinds, NEW t \in Users,
         Admit(r, b, k, t)
  PROVE  AdminInv'
<1>0. PICK c \in Cookies : c = jar[b] /\ c.uid \in Users
  BY JarSound DEF Admit
<1>1. users' = users /\ req[r] = Idle
  BY DEF Admit
<1>2. \A u : Heads(u) => Heads(u)'
  BY <1>1 DEF Heads
<1>3. CASE \E q : req' = [req EXCEPT ![r] = q] /\ q.pc # "approved" /\ (q.pc = "admitted" => q.kind \notin Edits)
  <2>1. \A s \in Reqs : \/ req'[s] = req[s]
                        \/ req'[s].pc # "approved" /\ (req'[s].pc = "admitted" => req'[s].kind \notin Edits)
    BY <1>3 DEF SessionInv, TypeOK
  <2> QED BY <1>2, <2>1, QuietStep DEF Editing
<1>4. ASSUME k \in Edits, NEW q, req' = [req EXCEPT ![r] = q], q.pc = "admitted", q.cookie = c, users[c.uid].admin,
             Admissible(c)
      PROVE  AdminInv'
  <2>1. Heads(c.uid)
    BY <1>0, <1>4, RowsTyped DEF Admissible, Heads, Rows
  <2>2. \A s \in Reqs : ~Editing(s)
    BY <1>4 DEF Admit
  <2>3. req'[r] = q /\ \A s \in Reqs \ {r} : req'[s] = req[s]
    BY <1>4 DEF SessionInv, TypeOK
  <2>4. \A s \in Reqs \ {r} : ~Editing(s)' /\ ~(req'[s].pc = "admitted" /\ req'[s].kind \in Edits)
    BY <2>2, <2>3 DEF Editing
  <2>5. Heads(req[r].cookie.uid)'
    BY <1>1, <1>4, <2>1, <2>3 DEF Heads
  <2>6. \E u \in Users : Heads(u)'
    BY <1>0, <1>2, <2>1
  <2> QED BY <2>4, <2>5, <2>6 DEF AdminInv
<1>5. \/ \E x : Answer(r, b, x)
      \/ /\ req' = [req EXCEPT ![r] = [pc |-> "admitted", br |-> b, kind |-> k, to |-> t, cookie |-> c, set |-> Renewed(c)]]
         /\ k \in Edits => users[c.uid].admin
         /\ Admissible(c)
  BY <1>0 DEF Admit
<1>6. CASE \E x : Answer(r, b, x)
  BY <1>3, <1>6, Becomes
<1>7. CASE req' = [req EXCEPT ![r] = [pc |-> "admitted", br |-> b, kind |-> k, to |-> t, cookie |-> c, set |-> Renewed(c)]]
           /\ (k \in Edits => users[c.uid].admin) /\ Admissible(c)
  <2>1. PICK q : q = [pc |-> "admitted", br |-> b, kind |-> k, to |-> t, cookie |-> c, set |-> Renewed(c)]
    OBVIOUS
  <2>2. q.pc = "admitted" /\ q.kind = k /\ q.cookie = c /\ req' = [req EXCEPT ![r] = q]
    BY <1>7, <2>1
  <2> QED BY <1>3, <1>4, <1>7, <2>2
<1> QED BY <1>5, <1>6, <1>7

\* The guards of the account handlers always leave somebody who can administer, as long
\* as the requests of two administrators do not overlap.
THEOREM SomebodyAlwaysAdministers == Spec => []SomebodyAdministers
<1>1. Init => AdminInv
  <2> SUFFICES ASSUME Init PROVE AdminInv
    OBVIOUS
  <2>1. PICK u \in Users : u \in Admins /\ u \notin Newcomers
    BY SessionsAssumption
  <2>2. Heads(u)
    BY <2>1 DEF Init, Heads
  <2>3. \A r \in Reqs : ~Editing(r) /\ req[r].pc # "admitted"
    BY DEF Init, Editing, Idle
  <2> QED BY <2>2, <2>3 DEF AdminInv
<1>2. SessionInv /\ AdminInv /\ [Next]_vars => AdminInv'
  <2> SUFFICES ASSUME SessionInv, AdminInv, [Next]_vars, ~AdminsOverlap PROVE AdminInv'
    BY DEF AdminInv
  <2>1. CASE UNCHANGED <<users, req>>
    BY <2>1, QuietStep DEF Heads, Editing
  <2>2. ASSUME NEW r \in Reqs, Step(r) PROVE AdminInv'
    BY <2>2, OtherKeepsAdmins, EditKeepsAdmins, ClearDisabledKeepsAdmins DEF Step
  <2>3. ASSUME NEW r \in Reqs, NEW b \in Browsers, CheckCredential(r, b) \/ Me(r, b) PROVE AdminInv'
    <3>1. users' = users /\ \A s \in Reqs : req'[s] = req[s] \/ req'[s].pc \in {"checked", "answered"}
      BY <2>3 DEF CheckCredential, Me, Answer, SessionInv, TypeOK
    <3> QED BY <3>1, QuietStep DEF Heads, Editing
  <2>4. ASSUME NEW r \in Reqs, NEW b \in Browsers, NEW k \in Kinds, NEW t \in Users, Admit(r, b, k, t) PROVE AdminInv'
    BY <2>4, AdmitKeepsAdmins
  <2>5. ASSUME NEW b \in Browsers, Register(b) PROVE AdminInv'
    <3>1. req' = req /\ \A u \in Users : users[u].row = "here" => users'[u] = users[u]
      BY <2>5, RowsTyped DEF Register
    <3> QED BY <3>1, QuietStep DEF Heads, Editing
  <2>6. ASSUME NEW b \in Browsers, Forget(b) \/ \E o \in Users \cup {Nobody} : OpenForward(b, o) PROVE UNCHANGED <<users, req>>
    BY <2>6 DEF Forget, OpenForward
  <2> QED BY <2>1, <2>2, <2>3, <2>4, <2>5, <2>6 DEF Next, Tick, vars
<1>3. AdminInv => SomebodyAdministers
  BY DEF AdminInv, Heads, SomebodyAdministers
<1> QED BY <1>1, <1>2, <1>3, EveryCookieIsBacked, PTL DEF Spec
=============================================================================
