-------------------------------- MODULE MCP --------------------------------
(***************************************************************************)
(* Agents' access to a container (server/mcp.go, mcp/sse.go) and the second  *)
(* listener that publishes it outside the LAN (server/mcp_remote.go).        *)
(*                                                                           *)
(* An agent opens an event stream and posts its calls beside it; the answers *)
(* come back over the stream.  Every request is resolved afresh: its token,   *)
(* the container, the owner and, on the external listener, the stored         *)
(* settings and the external key are read one after the other while they may  *)
(* change.  Saving the settings stops and starts the external listener, whose *)
(* streams do not end by themselves.  One token of one container is modelled. *)
(***************************************************************************)
EXTENDS Integers, Sequences, FiniteSets

CONSTANTS
  Ports, Taken,     \* ports an administrator may save; those another program has
  Savers,           \* settings requests
  Streams, Reqs,    \* event streams; requests at work
  Cap,              \* answers a stream holds (32 in the code)
  MaxSaves, MaxEdits, MaxCalls, MaxRestarts

Off == 0          \* no port: external access is disabled
Lan == -1         \* the console's listener, where requests of the LAN come in
Boot == "boot"
Appliers == Savers \cup {Boot}
Free == "free"

ASSUME MCPAssumption ==
  /\ Ports \subseteq Nat \ {Off} /\ Taken \subseteq Ports
  /\ Boot \notin Savers
  /\ {Cap, MaxSaves, MaxEdits, MaxCalls, MaxRestarts} \subseteq Nat

VARIABLES
  stored,    \* the settings row: the port that external access is to have, or Off
  srv,       \* remoteMCPState: the port of the running server, or Off
  lock,      \* its mutex
  old,       \* the port that the process an upgrade replaces has not closed yet
  applier,   \* settings requests, and the start of the process, applying them
  row,       \* the token's row, its owner and its container
  stream,    \* the SSE sessions; those that are not "none" are in the hub
  req,       \* requests being resolved or answered
  held,      \* history: the conditions each of them has met at some moment
  waits,     \* history: answers each stream's agent was promised and has not got
  missed,    \* history: the settings last applied wanted the port that old holds
  saves, edits, calls, restarts   \* bounded counters

counters == <<saves, edits, calls, restarts>>
listener == <<stored, srv, lock, old, applier, missed>>
hub == <<stream, waits>>
vars == <<listener, row, hub, req, held, counters>>

Idle == [pc |-> "idle"]
NoStream == [st |-> "none"]
Open(s) == stream[s] # NoStream
External(q) == req[q].via # Lan

Init ==
  /\ stored \in {Off} \cup Ports
  /\ srv = Off /\ lock = Free /\ old = Off /\ missed = FALSE
  /\ applier = [a \in Appliers |-> IF a = Boot THEN [pc |-> "read", prev |-> Off, seen |-> Off, back |-> FALSE]
                                   ELSE Idle]
  /\ row = [live |-> TRUE, hash |-> 1, key |-> 0, owner |-> TRUE, managed |-> TRUE, safe |-> TRUE]
  /\ stream = [s \in Streams |-> NoStream]
  /\ req = [q \in Reqs |-> Idle]
  /\ held = [q \in Reqs |-> {}]
  /\ waits = [s \in Streams |-> 0]
  /\ saves = 0 /\ edits = 0 /\ calls = 0 /\ restarts = 0

-----------------------------------------------------------------------------
(* The external listener. *)

Goto(a, pc) == applier' = [applier EXCEPT ![a].pc = pc]

(* mcpRemoteSettings stores the settings, remembering the ones before ...     *)
Save(a, p) ==
  /\ applier[a] = Idle /\ applier[Boot] = Idle
  /\ saves < MaxSaves /\ saves' = saves + 1
  /\ applier' = [applier EXCEPT ![a] = [pc |-> "read", prev |-> stored, seen |-> Off, back |-> FALSE]]
  /\ stored' = p
  /\ UNCHANGED <<srv, lock, old, missed, row, hub, req, edits, calls, restarts>>

(* ... and ApplyRemoteMCP reads them ...                                      *)
ReadSettings(a) ==
  /\ applier[a].pc = "read"
  /\ applier' = [applier EXCEPT ![a].pc = "lock", ![a].seen = stored]
  /\ UNCHANGED <<stored, srv, lock, old, missed, row, hub, req, counters>>

(* ... and then takes the lock.  A server on another port, or on any when     *)
(* access is off, is stopped: its listener is closed first.                   *)
TakeLock(a) ==
  /\ applier[a].pc = "lock" /\ lock = Free
  /\ \/ /\ srv # Off /\ srv # applier[a].seen
        /\ lock' = a /\ Goto(a, "stop") /\ srv' = Off
     \/ /\ srv = Off /\ applier[a].seen # Off
        /\ lock' = a /\ Goto(a, "listen") /\ UNCHANGED srv
     \/ /\ srv = applier[a].seen
        /\ applier' = [applier EXCEPT ![a] = Idle] /\ UNCHANGED <<lock, srv>>
  /\ missed' = FALSE
  /\ UNCHANGED <<stored, old, row, hub, req, counters>>

(* Mutant: Shutdown alone.                                                    *)
StopServerGently(a) ==
  /\ applier[a].pc = "stop"
  /\ IF applier[a].seen = Off
     THEN applier' = [applier EXCEPT ![a] = Idle] /\ lock' = Free
     ELSE Goto(a, "listen") /\ UNCHANGED lock
  /\ UNCHANGED <<stored, srv, old, missed, row, hub, req, counters>>

(* Streams do not end in the time that Shutdown waits: Close ends them, and    *)
(* the requests that are still at work.                                       *)
StopServer(a) ==
  /\ applier[a].pc = "stop"
  /\ stream' = [s \in Streams |-> IF Open(s) /\ stream[s].via # Lan THEN [stream[s] EXCEPT !.gone = TRUE]
                                  ELSE stream[s]]
  /\ req' = [q \in Reqs |-> IF req[q] # Idle /\ External(q) THEN [req[q] EXCEPT !.cut = TRUE] ELSE req[q]]
  /\ IF applier[a].seen = Off
     THEN applier' = [applier EXCEPT ![a] = Idle] /\ lock' = Free
     ELSE Goto(a, "listen") /\ UNCHANGED lock
  /\ UNCHANGED <<stored, srv, old, missed, row, waits, counters>>

(* The new listener.  When its port is taken, a save puts the settings back   *)
(* and applies them; neither the second failure nor the boot's has a remedy.  *)
Bindable(p) == p \notin Taken /\ p # old

(* Mutant: the settings are put back and not applied.                         *)
ListenUnapplied(a) ==
  /\ applier[a].pc = "listen"
  /\ lock' = Free
  /\ applier' = [applier EXCEPT ![a] = Idle]
  /\ IF Bindable(applier[a].seen) THEN srv' = applier[a].seen /\ UNCHANGED stored
     ELSE UNCHANGED srv /\ stored' = IF a = Boot THEN stored ELSE applier[a].prev
  /\ missed' = (applier[a].seen = old)
  /\ UNCHANGED <<old, row, hub, req, counters>>

Listen(a) ==
  /\ applier[a].pc = "listen"
  /\ lock' = Free
  /\ \/ /\ Bindable(applier[a].seen)
        /\ srv' = applier[a].seen
        /\ applier' = [applier EXCEPT ![a] = Idle]
        /\ UNCHANGED stored
     \/ /\ ~Bindable(applier[a].seen) /\ a # Boot /\ ~applier[a].back
        /\ applier' = [applier EXCEPT ![a].pc = "read", ![a].back = TRUE]
        /\ stored' = applier[a].prev
        /\ UNCHANGED srv
     \/ /\ ~Bindable(applier[a].seen) /\ (a = Boot \/ applier[a].back)
        /\ applier' = [applier EXCEPT ![a] = Idle]
        /\ UNCHANGED <<srv, stored>>
  /\ missed' = (applier[a].seen = old)
  /\ UNCHANGED <<old, row, hub, req, counters>>

(* The process ends, or an upgrade replaces it; the new one applies the       *)
(* settings as it starts.  An upgrade that watches its replacement starts it   *)
(* once the console's listener is closed; the old process's main goroutine     *)
(* sees that too and closes the external one, in no order with the start.      *)
Restarted ==
  /\ srv' = Off /\ lock' = Free /\ missed' = FALSE
  /\ applier' = [a \in Appliers |-> IF a = Boot THEN [pc |-> "read", prev |-> Off, seen |-> Off, back |-> FALSE]
                                    ELSE Idle]
  /\ stream' = [s \in Streams |-> NoStream]
  /\ req' = [q \in Reqs |-> Idle]
  /\ waits' = [s \in Streams |-> 0]
  /\ UNCHANGED <<stored, row>>

Restart ==
  /\ old = Off
  /\ restarts < MaxRestarts /\ restarts' = restarts + 1
  /\ Restarted
  /\ UNCHANGED <<old, saves, edits, calls>>

Upgrade ==
  /\ old = Off /\ \A a \in Appliers : applier[a] = Idle
  /\ restarts < MaxRestarts /\ restarts' = restarts + 1
  /\ Restarted
  /\ old' = srv
  /\ UNCHANGED <<saves, edits, calls>>

OldCloses ==
  /\ old # Off /\ old' = Off
  /\ UNCHANGED <<stored, srv, lock, applier, missed, row, hub, req, counters>>

-----------------------------------------------------------------------------
(* The token, its owner and its container. *)

Edit == edits < MaxEdits /\ edits' = edits + 1
        /\ UNCHANGED <<listener, hub, req, saves, calls, restarts>>

(* mcpTokenCreate, mcpTokenRotate, mcpTokenRotateExternal, mcpTokenDelete; a   *)
(* token that expires is as good as deleted.                                  *)
CreateToken == Edit /\ ~row.live /\ row' = [row EXCEPT !.live = TRUE, !.hash = @ + 1, !.key = 0]
RotateToken == Edit /\ row.live /\ row' = [row EXCEPT !.hash = @ + 1]
RotateKey == Edit /\ row.live /\ row' = [row EXCEPT !.key = @ + 1]
DeleteToken == Edit /\ row.live /\ row' = [row EXCEPT !.live = FALSE]

(* The owner is disabled or enabled, the container is removed or put on       *)
(* another network.                                                           *)
OwnerChanges == Edit /\ row' = [row EXCEPT !.owner = ~@]
ContainerChanges ==
  /\ Edit
  /\ \/ row.managed /\ row' = [row EXCEPT !.managed = FALSE]
     \/ row' = [row EXCEPT !.safe = ~@]

-----------------------------------------------------------------------------
(* Requests. *)

(* A request carries the token and the key that were good at some time.       *)
Reachable(p) == p = Lan \/ (p # Off /\ srv = p)

Request(q, kind, s, p, hash, key) ==
  /\ req[q] = Idle /\ Reachable(p)
  /\ calls < MaxCalls /\ calls' = calls + 1
  /\ kind = "open" => ~Open(s) /\ \A x \in {x \in Reqs : req[x] # Idle} : req[x].s # s
  /\ kind = "post" => Open(s)
  /\ req' = [req EXCEPT ![q] = [pc |-> "token", kind |-> kind, s |-> s, via |-> p,
                                hash |-> hash, key |-> key, seen |-> 0, cut |-> FALSE]]
  /\ UNCHANGED <<listener, row, hub, saves, edits, restarts>>

Checks(q, pc, met, next) ==
  /\ req[q].pc = pc
  /\ req' = IF met THEN [req EXCEPT ![q].pc = next] ELSE [req EXCEPT ![q] = Idle]
  /\ UNCHANGED <<listener, row, hub, counters>>

(* resolveMcpContainer: the token's row, with the hash of its external key;   *)
(* the container's label; the owner's row; and outside the LAN the stored      *)
(* settings, the container's networks, and the key.                           *)
CheckToken(q) ==
  /\ req[q].pc = "token"
  /\ req' = IF row.live /\ row.hash = req[q].hash
            THEN [req EXCEPT ![q].pc = "managed", ![q].seen = row.key]
            ELSE [req EXCEPT ![q] = Idle]
  /\ UNCHANGED <<listener, row, hub, counters>>
CheckManaged(q) == Checks(q, "managed", row.managed, "owner")
CheckOwner(q) == Checks(q, "owner", row.owner, IF External(q) THEN "settings" ELSE "admitted")
(* Mutant: what the listener was started with is good enough.                 *)
CheckSettingsRunning(q) == Checks(q, "settings", TRUE, "networks")

CheckSettings(q) == Checks(q, "settings", stored # Off, "networks")
CheckNetworks(q) == Checks(q, "networks", row.safe, "key")
CheckKey(q) == Checks(q, "key", req[q].seen # 0 /\ req[q].seen = req[q].key, "admitted")

Drop(q) == req' = [req EXCEPT ![q] = Idle]
Passes(q, kind) == req[q].pc = "admitted" /\ req[q].kind = kind /\ UNCHANGED <<listener, row, counters>>

(* mcpSSE opens the stream.                                                   *)
OpenStream(q) ==
  /\ Passes(q, "open")
  /\ stream' = [stream EXCEPT ![req[q].s] = [st |-> "open", via |-> req[q].via, gone |-> req[q].cut,
                                             closed |-> FALSE, out |-> 0]]
  /\ Drop(q) /\ UNCHANGED waits

(* mcpStreamableHTTP handles the message and answers in the same request.     *)
Call(q) == Passes(q, "call") /\ Drop(q) /\ UNCHANGED hub

(* What Handle makes of a message: a request has an id and is answered,       *)
(* whether its method is known, its tool fails or its text is no JSON at all; *)
(* a notification is carried out and not answered.                            *)
Answered(message) == message # "notification"

(* A post is taken up by the session, if the hub still has it, and handled:   *)
(* its answer is promised to the stream.                                     *)
Post(q, message) ==
  /\ Passes(q, "post") /\ UNCHANGED stream
  /\ IF Open(req[q].s) /\ Answered(message)
     THEN req' = [req EXCEPT ![q].pc = "send"] /\ waits' = [waits EXCEPT ![req[q].s] = @ + 1]
     ELSE Drop(q) /\ UNCHANGED waits

(* Mutant: an answer that does not fit is dropped.                            *)
SendLossy(q) ==
  LET s == req[q].s IN
  /\ req[q].pc = "send"
  /\ req' = [req EXCEPT ![q] = Idle]
  /\ stream' = IF Open(s) /\ stream[s].out < Cap THEN [stream EXCEPT ![s].out = @ + 1] ELSE stream
  /\ UNCHANGED <<listener, row, waits, counters>>

(* The answer: a stream whose buffer is full is ended rather than waited for; *)
(* one that has ended takes none.                                             *)
Send(q) ==
  LET s == req[q].s IN
  /\ req[q].pc = "send"
  /\ req' = [req EXCEPT ![q] = Idle]
  /\ stream' = IF ~Open(s) \/ stream[s].closed THEN stream
               ELSE IF stream[s].out < Cap THEN [stream EXCEPT ![s].out = @ + 1]
               ELSE [stream EXCEPT ![s].closed = TRUE]
  /\ UNCHANGED <<listener, row, waits, counters>>

(* ServeSSE writes what is buffered, and returns once its context is done:    *)
(* the hub forgets the session.                                               *)
WriteEvent(s) ==
  /\ Open(s) /\ stream[s].out > 0
  /\ stream' = [stream EXCEPT ![s].out = @ - 1]
  /\ waits' = [waits EXCEPT ![s] = @ - 1]
  /\ UNCHANGED <<listener, row, req, counters>>

EndStream(s) ==
  /\ Open(s) /\ (stream[s].gone \/ stream[s].closed)
  /\ stream' = [stream EXCEPT ![s] = NoStream]
  /\ waits' = [waits EXCEPT ![s] = 0]
  /\ UNCHANGED <<listener, row, req, counters>>

(* The agent goes away.                                                       *)
Disconnect(s) ==
  /\ Open(s) /\ ~stream[s].gone
  /\ stream' = [stream EXCEPT ![s].gone = TRUE]
  /\ UNCHANGED <<listener, row, waits, req, counters>>

-----------------------------------------------------------------------------
Apply(a) == ReadSettings(a) \/ TakeLock(a) \/ StopServer(a) \/ Listen(a)
Resolve(q) ==
  \/ CheckToken(q) \/ CheckManaged(q) \/ CheckOwner(q) \/ CheckSettings(q) \/ CheckNetworks(q) \/ CheckKey(q)
  \/ OpenStream(q) \/ Call(q) \/ \E message \in {"request", "notification"} : Post(q, message)
  \/ Send(q)
Serve(s) == WriteEvent(s) \/ EndStream(s)

Step ==
  \/ \E a \in Savers, p \in {Off} \cup Ports : Save(a, p)
  \/ \E a \in Appliers : Apply(a)
  \/ Restart \/ Upgrade \/ OldCloses
  \/ CreateToken \/ RotateToken \/ RotateKey \/ DeleteToken \/ OwnerChanges \/ ContainerChanges
  \/ \E q \in Reqs : Resolve(q)
  \/ \E q \in Reqs, kind \in {"open", "call", "post"}, s \in Streams, p \in {Lan} \cup Ports,
        hash \in 1 .. row.hash, key \in 0 .. row.key : Request(q, kind, s, p, hash, key)
  \/ \E s \in Streams : Serve(s) \/ Disconnect(s)

(* The conditions a request meets now.                                        *)
Meets(q) ==
  IF req[q] = Idle THEN {}
  ELSE {c \in {"token", "key", "managed", "owner", "settings", "networks"} :
          CASE c = "token" -> row.live /\ row.hash = req[q].hash
            [] c = "key" -> row.key = req[q].key
            [] c = "managed" -> row.managed
            [] c = "owner" -> row.owner
            [] c = "settings" -> stored # Off
            [] c = "networks" -> row.safe}

Next == Step /\ held' = [q \in Reqs |-> IF req'[q] = Idle THEN {} ELSE held[q] \cup Meets(q)']

(* Handlers that can go on do; agents and administrators need not.            *)
system == <<listener, row, hub, req, counters>>
Spec ==
  /\ Init /\ [][Next]_vars
  /\ \A a \in Appliers : WF_system(Apply(a))
  /\ \A q \in Reqs : WF_system(Resolve(q))
  /\ \A s \in Streams : WF_system(Serve(s))

-----------------------------------------------------------------------------
(* The settings, the listener, the sessions and the requests have their shape; *)
(* the mutex is held by an applier that is between its steps.                  *)
TypeOK ==
  /\ {stored, srv, old} \subseteq {Off} \cup Ports /\ missed \in BOOLEAN
  /\ lock \in {Free} \cup Appliers
  /\ \A a \in Appliers : applier[a] # Idle =>
       /\ applier[a].pc \in {"read", "lock", "stop", "listen"}
       /\ {applier[a].prev, applier[a].seen} \subseteq {Off} \cup Ports /\ applier[a].back \in BOOLEAN
  /\ \A a \in Appliers : lock = a <=> applier[a].pc \in {"stop", "listen"}
  /\ row \in [live : BOOLEAN, hash : 1 .. MaxEdits + 1, key : 0 .. MaxEdits,
               owner : BOOLEAN, managed : BOOLEAN, safe : BOOLEAN]
  /\ \A s \in Streams : Open(s) =>
       /\ stream[s].via \in {Lan} \cup Ports /\ stream[s].out \in 0 .. Cap
       /\ stream[s].gone \in BOOLEAN /\ stream[s].closed \in BOOLEAN
  /\ \A q \in Reqs : req[q] # Idle =>
       /\ req[q].kind \in {"open", "call", "post"} /\ req[q].s \in Streams /\ req[q].cut \in BOOLEAN
       /\ req[q].pc \in {"token", "managed", "owner", "settings", "networks", "key", "admitted", "send"}
  /\ \A s \in Streams : waits[s] \in 0 .. MaxCalls /\ (Open(s) => stream[s].out <= waits[s])

(* Once nothing is being applied, the external listener is what the settings  *)
(* say, other than where another program has the port: ApplyRemoteMCP "brings *)
(* the external listener in line with the stored configuration ... callers    *)
(* can invoke it at boot".                                                    *)
Quiet == old = Off /\ \A a \in Appliers : applier[a] = Idle
AsStored == srv = IF stored \in Taken THEN Off ELSE stored
AlwaysInLine == Quiet => AsStored

(* The same, other than after an upgrade whose old process still had the port. *)
InLine == Quiet /\ ~missed => AsStored

(* A request is let in only when each condition was met at some moment since  *)
(* it began: what was revoked before never counts.                            *)
Needed(q) ==
  {"token", "managed", "owner"} \cup (IF External(q) THEN {"settings", "networks", "key"} ELSE {})
OnlyIfAllowed ==
  [][\A q \in Reqs : req[q].pc = "admitted" /\ req'[q] # req[q] => Needed(q) \subseteq held[q]]_vars

(* Streams that came in over an external listener that is no more end.        *)
ExternalStreamsEnd ==
  \A s \in Streams : Open(s) /\ stream[s].via \notin {Lan, srv} ~> ~Open(s) \/ stream[s].via \in {Lan, srv}

(* An answer that was promised arrives, or the stream ends and the agent knows.*)
AnsweredOrEnded == \A s \in Streams : waits[s] > 0 ~> waits[s] = 0
=============================================================================
