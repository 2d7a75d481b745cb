--------------------------- MODULE ContainerFiles ---------------------------
(***************************************************************************)
(* The files of a container: the tools an agent calls (mcp/tools*.go), the    *)
(* file manager's requests (server/container_files.go) and the container's    *)
(* own processes work on them at once.  Nothing locks them.  A tool reads or  *)
(* writes through Docker's archives (module FileTree), several times for one  *)
(* call; a folder of a running container is listed by a command inside it.    *)
(* Archives are taken and put in one step; who may reach which container is   *)
(* module MCP's matter.                                                       *)
(***************************************************************************)
EXTENDS FileTree

CONSTANTS
  Calls,             \* tool calls and requests, each made once
  Roots,             \* folders to be listed and searched
  Folders,           \* folders to be copied into
  Targets,           \* paths to be read, written, edited and copied
  Patterns, Words, NewBodies, EditLists,
  Common, Mounted,   \* names at the root: the usual ones; the working folder's and the mounts'
  Trees, DiskTrees,  \* what the container and the network disk may hold at first
  Cap,               \* results of a glob or a search (500 in the code)
  PathLists,         \* lists of paths that the file manager copies
  LinkTargets,       \* where links of the network disk lead: paths of it, or Out
  MaxTurns           \* calls begun and changes by others

ASSUME ContainerFilesAssumption ==
  /\ Root \notin Targets \cup LinkTargets /\ Huge \notin NewBodies /\ Common \cap Mounted = {}
  /\ Cap \in Nat \ {0} /\ MaxTurns \in Nat

VARIABLES
  fs, disk,      \* the container's files; the user's network disk
  box,           \* the container: is it running, has it a shell
  call,          \* the calls, with what each has read and answered
  ever, always,  \* history: entries each call's source held at some, and at every, moment of it
  turns          \* bounded counter

history == <<ever, always>>
vars == <<fs, disk, box, call, history, turns>>
Trees2 == <<fs, disk>>

New == [pc |-> "new"]
Reading == {"list", "glob", "search", "read", "download"}
Copying == {"copy", "toContainer", "toNetdisk"}

(* The tools of NewContainerServer and the requests of the file manager, with *)
(* the arguments that their first checks let pass.                            *)
Tools ==
  [kind : {"list"}, p : Roots]
  \cup [kind : {"glob"}, p : Roots, name : Patterns]
  \cup [kind : {"search"}, p : Roots, name : Patterns, word : Words]
  \cup [kind : {"read"}, p : Targets]
  \cup [kind : {"write"}, p : Targets, body : NewBodies]
  \cup [kind : {"edit"}, p : Targets, edits : EditLists, all : BOOLEAN]
  \cup [kind : {"copy"}, p : Targets, to : Targets]
  \cup [kind : {"exec", "start", "stop", "restart"}, p : {Root}]
Manager ==
  [kind : {"list"}, p : Roots]
  \cup [kind : {"download"}, p : Targets]
  \cup [kind : {"toContainer", "toNetdisk"}, p : {Root}, paths : PathLists, to : Folders]

FirstStep(r) ==
  CASE r.kind = "list" -> "inspect"
    [] r.kind \in Reading \ {"list"} -> "archive"
    [] r.kind = "write" -> "put"
    [] r.kind \in {"edit", "copy"} -> "read"
    [] r.kind \in {"toContainer", "toNetdisk"} -> "dest"
    [] OTHER -> "act"

Init ==
  /\ fs \in Trees /\ disk \in DiskTrees
  /\ box \in [running : BOOLEAN, shell : BOOLEAN]
  /\ call = [q \in Calls |-> New]
  /\ ever = [q \in Calls |-> {}] /\ always = [q \in Calls |-> {}]
  /\ turns = 0

-----------------------------------------------------------------------------
Step(q, pc) == call[q].pc = pc
Kind(q) == call[q].req.kind
Goto(q, pc) == call' = [call EXCEPT ![q].pc = pc]
Answer(q, ans) == call' = [call EXCEPT ![q] = [pc |-> "done", ok |-> TRUE, ans |-> <<Kind(q), ans>>]]
Turn == turns < MaxTurns /\ turns' = turns + 1
Fail(q) == call' = [call EXCEPT ![q] = [pc |-> "done", ok |-> FALSE]]

(* handleToolsCall: the tool's handler with its arguments; the file manager's *)
(* handlers alike.                                                            *)
Begin(q, r) ==
  /\ Step(q, "new") /\ Turn
  /\ call' = [call EXCEPT ![q] = [pc |-> FirstStep(r), req |-> r, ok |-> FALSE, ans |-> {},
                                  ar |-> Empty, at |-> Root, i |-> 1, how |-> "archive"]]
  /\ UNCHANGED <<Trees2, box>>

(* ContainerFileList: a running container is listed by a command, ...         *)
Inspect(q) ==
  LET how == IF box.running THEN "command" ELSE IF call[q].req.p = Root THEN "stat" ELSE "archive" IN
  /\ Step(q, "inspect")
  /\ call' = [call EXCEPT ![q].pc = how, ![q].how = how]
  /\ UNCHANGED <<Trees2, box, turns>>

(* ... or by its archive, once the command fails, ...                         *)
ListCommand(q) ==
  LET p == call[q].req.p IN
  /\ Step(q, "command")
  /\ IF box.running /\ box.shell /\ Exists(fs, p) THEN Answer(q, Children(fs, p))
     ELSE call' = [call EXCEPT ![q].pc = "archive", ![q].how = "archive"]
  /\ UNCHANGED <<Trees2, box, turns>>

(* Mutant: the usual names alone.                                             *)
CandidatesUsual == SetToSeq(Common)

(* ... and at the root of a stopped one by looking for likely names, one by    *)
(* one.                                                                       *)
Candidates == SetToSeq(Common) \o SetToSeq(Mounted)

StatRoot(q) ==
  /\ Step(q, "stat")
  /\ LET n == <<Candidates[call[q].i]>>
         found == call[q].ans \cup ({n} \cap DOMAIN fs)
     IN  IF call[q].i = Len(Candidates) THEN Answer(q, found)
         ELSE call' = [call EXCEPT ![q].i = @ + 1, ![q].ans = found]
  /\ UNCHANGED <<Trees2, box, turns>>

(* glob and search_files give no more than so many results.                   *)
Capped(results) == {s \in SUBSET results : Cardinality(s) = IF Cardinality(results) < Cap THEN Cardinality(results) ELSE Cap}

(* What the readers of one archive answer, if anything.                       *)
Answers(r) ==
  LET ar == Archive(fs, r.p) IN
  IF ~Exists(fs, r.p) THEN {}
  ELSE CASE r.kind = "list" -> {ArchiveListing(ar, r.p)}
         [] r.kind = "glob" -> Capped(Glob(fs, r.p, r.name))
         [] r.kind = "search" -> IF IsDir(fs, r.p) \/ Bodies(ar) \ {Huge} # {}
                                 THEN Capped(Search(fs, r.p, r.word, r.name)) ELSE {}
         [] r.kind = "read" -> IF IsDir(fs, r.p) \/ Bodies(ar) \ {Huge} = {} THEN {} ELSE {Bodies(ar)}
         [] r.kind = "download" -> IF IsDir(fs, r.p) \/ Bodies(ar) # {} THEN {{<<n, Zipped(ar)[n]>> : n \in DOMAIN Zipped(ar)}} ELSE {}

ReadArchive(q) ==
  LET answers == Answers(call[q].req) IN
  /\ Step(q, "archive")
  /\ IF answers = {} THEN Fail(q) ELSE \E ans \in answers : Answer(q, ans)
  /\ UNCHANGED <<Trees2, box, turns>>

-----------------------------------------------------------------------------
(* Writing.  An upload that does not fit stops where it is.                   *)
Uploads(q, dest, ar) ==
  IF IsDir(fs, dest) /\ Clashes(fs, dest, ar) = {} THEN fs' = Put(fs, dest, ar) /\ Answer(q, {})
  ELSE /\ fs' \in {Put(fs, dest, b) : b \in IF IsDir(fs, dest) THEN Begun(ar, Clashes(fs, dest, ar)) ELSE {Empty}}
       /\ Fail(q)

(* handleWriteFile, handleUploadFile.                                         *)
WriteFile(q) ==
  /\ Step(q, "put") /\ Kind(q) = "write"
  /\ Uploads(q, Root, PathTar(call[q].req.p, call[q].req.body))
  /\ UNCHANGED <<disk, box, turns>>

(* handleEditFile reads the file, ...                                         *)
EditRead(q) ==
  LET r == call[q].req  bodies == Answers([r EXCEPT !.kind = "read"])
      new == ApplyEdits(CHOOSE b \in UNION bodies : TRUE, r.edits, r.all) IN
  /\ Step(q, "read") /\ Kind(q) = "edit"
  /\ IF bodies = {} \/ new = Refused THEN Fail(q)
     ELSE call' = [call EXCEPT ![q].pc = "put", ![q].ar = PathTar(r.p, new)]
  /\ UNCHANGED <<Trees2, box, turns>>

(* ... and writes the whole of it, with the edits made.                       *)
EditPut(q) ==
  /\ Step(q, "put") /\ Kind(q) = "edit"
  /\ Uploads(q, Root, call[q].ar)
  /\ UNCHANGED <<disk, box, turns>>

(* handleCopyFile takes the archive, asks what the destination is, ...        *)
CopyRead(q) ==
  LET p == call[q].req.p IN
  /\ Step(q, "read") /\ Kind(q) = "copy"
  /\ IF ~Exists(fs, p) THEN Fail(q)
     ELSE call' = [call EXCEPT ![q].pc = "stat to", ![q].ar = Archive(fs, p)]
  /\ UNCHANGED <<Trees2, box, turns>>

CopyStat(q) ==
  LET r == call[q].req  into == IsDir(fs, r.to) IN
  /\ Step(q, "stat to")
  /\ call' = [call EXCEPT ![q].pc = "put",
                          ![q].at = IF into THEN r.to ELSE Parent(r.to),
                          ![q].ar = Rewritten(@, Base(r.p), IF into THEN Base(r.p) ELSE Base(r.to))]
  /\ UNCHANGED <<Trees2, box, turns>>

(* ... and puts the archive there under its new name.                         *)
CopyPut(q) ==
  /\ Step(q, "put") /\ Kind(q) = "copy"
  /\ Uploads(q, call[q].at, call[q].ar)
  /\ UNCHANGED <<disk, box, turns>>

-----------------------------------------------------------------------------
(* Between the network disk and the container (containerFilesCopy). *)

Path(q) == call[q].req.paths[call[q].i]

(* The next path, or the answer.                                              *)
Onwards(q) ==
  IF call[q].i = Len(call[q].req.paths) THEN Answer(q, {})
  ELSE call' = [call EXCEPT ![q].pc = "read", ![q].i = @ + 1]

(* The destination must be a folder of the container; on the disk it is what   *)
(* cleanUserPath makes of it, and is made.                                    *)
Destination(q) ==
  LET to == call[q].req.to  full == Resolve(disk, to) IN
  /\ Step(q, "dest")
  /\ IF Kind(q) = "toContainer"
     THEN (IF IsDir(fs, to) THEN Goto(q, "read") ELSE Fail(q)) /\ UNCHANGED disk
     ELSE IF IsPlace(full) /\ \A p \in Ancestors(full) \cap DOMAIN disk : disk[p] = Dir
          THEN /\ call' = [call EXCEPT ![q].pc = "read", ![q].at = full]
               /\ disk' = disk @@ [p \in Ancestors(full) |-> Dir]
          ELSE Fail(q) /\ UNCHANGED disk
  /\ UNCHANGED <<fs, box, turns>>

(* One path is taken: of the disk, what cleanUserPath makes of it, under that  *)
(* place's own name; never a link itself, and no link below it.                *)
TakePath(q) ==
  LET toBox == Kind(q) = "toContainer"
      full == IF toBox THEN Resolve(disk, Path(q)) ELSE Path(q) IN
  /\ Step(q, "read") /\ Kind(q) \in {"toContainer", "toNetdisk"}
  /\ IF ~(IsPlace(full) /\ Exists(IF toBox THEN disk ELSE fs, full)) THEN Fail(q)
     ELSE call' = [call EXCEPT ![q].pc = "put",
                               ![q].at = IF toBox THEN full ELSE @,
                               ![q].ar = IF toBox THEN HostTar(disk, full) ELSE Archive(fs, full)]
  /\ UNCHANGED <<Trees2, box, turns>>

PutInContainer(q) ==
  LET to == call[q].req.to IN
  /\ Step(q, "put") /\ Kind(q) = "toContainer"
  /\ IF IsDir(fs, to) /\ Clashes(fs, to, call[q].ar) = {}
     THEN fs' = Put(fs, to, call[q].ar) /\ Onwards(q)
     ELSE Uploads(q, to, call[q].ar)
  /\ UNCHANGED <<disk, box, turns>>

(* On the disk every file is written in place: what breaks leaves one torn.     *)
(* The destination may have become a link since, that leads out of the disk.   *)
Torn == File(<<"torn">>)
PutOnDisk(q) ==
  LET ar == call[q].ar  at == call[q].at IN
  /\ Step(q, "put") /\ Kind(q) = "toNetdisk"
  /\ \E order \in Orders(ar), n \in 0 .. Cardinality(DOMAIN ar) :
       LET s == Extracted(disk, at, ar, SubSeq(order, 1, n))
           torn == IF n < Len(order) /\ IsFile(ar[order[n + 1]]) THEN {Extract(s, at, order[n + 1], Torn)} ELSE {} IN
       /\ s.ok
       /\ CASE Resolve(disk, at) = Broken -> Fail(q) /\ UNCHANGED disk
            [] Resolve(disk, at) = Out -> (Fail(q) \/ Onwards(q)) /\ UNCHANGED disk
            [] OTHER -> \/ n = Len(order) /\ disk' = s.tree /\ Onwards(q)
                        \/ disk' \in {x.tree : x \in {s} \cup torn} /\ Fail(q)
  /\ UNCHANGED <<fs, box, turns>>

-----------------------------------------------------------------------------
(* start, stop and restart; handleExec, whose command is one of the           *)
(* container's processes, that outlives the answer once it times out.         *)
Act(q) ==
  /\ Step(q, "act")
  /\ IF Kind(q) = "exec"
     THEN (IF box.running /\ box.shell THEN Answer(q, {}) ELSE Fail(q)) /\ UNCHANGED box
     ELSE Answer(q, {}) /\ box' = [box EXCEPT !.running = Kind(q) # "stop"]
  /\ UNCHANGED <<Trees2, turns>>

(* The container's processes; the user, or another container, on the disk.    *)
Changed(t, p, links) ==
  {Removed(t, p)} \cup {(p :> c) @@ Removed(t, p) : c \in {File(b) : b \in NewBodies} \cup {Dir} \cup {Link(to) : to \in links}}

Outside == Turn /\ UNCHANGED call
Program ==
  /\ Outside /\ box.running
  /\ \E p \in Targets : IsDir(fs, Parent(p)) /\ fs' \in Changed(fs, p, {Out})
  /\ UNCHANGED <<disk, box>>
DiskUser ==
  /\ Outside
  /\ \E p \in Targets : IsDir(disk, Parent(p)) /\ disk' \in Changed(disk, p, LinkTargets)
  /\ UNCHANGED <<fs, box>>
Flips ==
  /\ Outside
  /\ box' = [box EXCEPT !.running = ~@]
  /\ UNCHANGED Trees2

-----------------------------------------------------------------------------
List(q) == Inspect(q) \/ ListCommand(q) \/ StatRoot(q) \/ ReadArchive(q)
Write(q) == WriteFile(q) \/ EditRead(q) \/ EditPut(q) \/ CopyRead(q) \/ CopyStat(q) \/ CopyPut(q)
Exchange(q) == Destination(q) \/ TakePath(q) \/ PutInContainer(q) \/ PutOnDisk(q)

Moves ==
  \/ \E q \in Calls : (\E r \in Tools \cup Manager : Begin(q, r)) \/ List(q) \/ Write(q) \/ Exchange(q) \/ Act(q)
  \/ Program \/ DiskUser \/ Flips

(* The entries that a call is about.                                          *)
Sources(r) ==
  CASE r.kind = "toContainer" -> {Resolve(disk', p) : p \in Range(r.paths)}
    [] r.kind = "toNetdisk" -> Range(r.paths)
    [] OTHER -> {r.p}
Held(r) ==
  LET t == IF r.kind = "toContainer" THEN disk' ELSE fs' IN
  IF r.kind \notin Reading \cup Copying \cup {"edit"} THEN {}
  ELSE {<<p, t[p]>> : p \in UNION {Below(t, s) : s \in Sources(r)}}

Next ==
  /\ Moves
  /\ ever' = [q \in Calls |-> IF call'[q].pc \in {"new", "done"} THEN {} ELSE ever[q] \cup Held(call'[q].req)]
  /\ always' = [q \in Calls |-> CASE call'[q].pc \in {"new", "done"} -> {}
                                 [] call[q].pc = "new" /\ call'[q].pc \notin {"new", "done"} -> Held(call'[q].req)
                                 [] OTHER -> always[q] \cap Held(call'[q].req)]

Spec == Init /\ [][Next]_vars

-----------------------------------------------------------------------------
(* Every entry lies in a folder; a call remembers of its source what it held.   *)
WellFormed(t) == \A p \in DOMAIN t : IsDir(t, Parent(p))
TypeOK ==
  /\ WellFormed(fs) /\ WellFormed(disk)
  /\ box \in [running : BOOLEAN, shell : BOOLEAN] /\ turns \in 0 .. MaxTurns
  /\ \A q \in Calls : /\ call[q].pc \in {"new", "inspect", "command", "stat", "archive", "dest", "read", "stat to", "put", "act", "done"}
                      /\ always[q] \subseteq ever[q]

(* What an entry of the container adds to the answer of a reader.  Below a      *)
(* folder an archive's names begin with the folder's own, wherever it is.       *)
Shown(r, p, c) == IF p = r.p /\ c # Dir THEN p ELSE Base(r.p) \o Relative(r.p, p)
Gives(r, p, c) ==
  CASE r.kind = "list" -> IF p \in Children((p :> c), r.p) THEN {p} ELSE {}
    [] r.kind = "glob" -> IF (~IsLink(c) \/ p = r.p) /\ Named(p, r.name) THEN {Shown(r, p, c)} ELSE {}
    [] r.kind = "search" -> IF IsFile(c) /\ Named(p, r.name) THEN LinesWith(Shown(r, p, c), c.body, r.word) ELSE {}
    [] r.kind = "read" -> IF p = r.p /\ IsFile(c) THEN {c.body} ELSE {}
    [] r.kind = "download" -> IF IsLink(c) THEN {} ELSE {<<Base(r.p) \o Relative(r.p, p), c>>}

(* A reader that succeeds shows only what was there at some moment of the call,  *)
(* and, up to the cap, all that was there throughout; at the root of a stopped   *)
(* container, all the usual names and those of the working folder and the       *)
(* mounts.  glob, search_files and downloads show names as the archive has them; *)
(* a listing that is taken from an archive is spoken of at the top only: below,  *)
(* ListedBelow is what one would ask of it.                                     *)
Succeeds(q, kinds) == call[q].pc \notin {"new", "done"} /\ call'[q].pc = "done" /\ call'[q].ok /\ Kind(q) \in kinds
Shows(q) == call'[q].ans[2]
ListedDeep(q) == Kind(q) = "list" /\ call[q].how = "archive" /\ Len(call[q].req.p) > 1
FindsWhatIsThere ==
  [][\A q \in Calls : Succeeds(q, Reading) /\ ~ListedDeep(q) =>
       LET r == call[q].req
           All(entries) == UNION {Gives(r, e[1], e[2]) : e \in entries}
       IN  /\ Shows(q) \subseteq All(ever[q])
           /\ \/ r.kind \in {"glob", "search"} /\ Cardinality(Shows(q)) = Cap
              \/ {e \in All(always[q]) : call[q].how = "stat" => e[1] \in Common \cup Mounted} \subseteq Shows(q)]_vars

(* What the comment of walkArchiveNames and the tools' descriptions say: glob and *)
(* search_files answer paths of the container.  Below the top they do not.       *)
NamedByPath ==
  [][\A q \in Calls :
       /\ Succeeds(q, {"glob"}) => Shows(q) \subseteq {e[1] : e \in ever[q]}
       /\ Succeeds(q, {"search"}) => {hit[1] : hit \in Shows(q)} \subseteq {e[1] : e \in ever[q]}]_vars

(* What the comment of ContainerFileList says: folders of a stopped container are *)
(* listed from its archive.  Below the top nothing of them is.                    *)
ListedBelow ==
  [][\A q \in Calls : Succeeds(q, {"list"}) /\ call[q].req.p # Root =>
       {e[1] : e \in {e \in always[q] : Len(e[1]) = Len(call[q].req.p) + 1}} \subseteq Shows(q)]_vars

(* A path that is copied successfully arrives: what its source held throughout   *)
(* the call lies where its name leads, and nothing is put there that the source  *)
(* did not hold at some moment, nor any link, but the folders on the way.  On the *)
(* network disk links lead on, as far as they stay in the destination, and what   *)
(* is selected is what a link leads to.                                          *)
Arrives(q, s, t, after, Place(_)) ==
  LET Entry(from, p) == {e \in from : IsPrefix(s, e[1]) /\ ~IsLink(e[2]) /\ Place(Relative(s, e[1])) = p} IN
  /\ \A e \in always[q] :
       LET p == Place(Relative(s, e[1])) IN
       IsPrefix(s, e[1]) /\ ~IsLink(e[2]) /\ IsPlace(p) =>
         p \in DOMAIN after /\ \E f \in Entry(ever[q], p) : after[p] = f[2]
  /\ \A p \in DOMAIN after :
       \/ p \in DOMAIN t /\ t[p] = after[p]
       \/ \E f \in Entry(ever[q], p) : after[p] = f[2]
       \/ after[p] = Dir /\ \E e \in ever[q] : IsPrefix(s, e[1]) /\ p \in Ancestors(Place(Relative(s, e[1])))
PutsWell(q) == call[q].pc = "put" /\ call'[q] # call[q] /\ (call'[q].ok \/ call'[q].pc = "read")
CopiesWhatWasThere ==
  [][\A q \in Calls : PutsWell(q) =>
       LET r == call[q].req  at == call[q].at IN
       /\ r.kind = "copy" => \E landing \in {r.to, r.to \o Base(r.p)} : Arrives(q, r.p, fs, fs', LAMBDA n : landing \o n)
       /\ r.kind = "toContainer" => Arrives(q, at, fs, fs', LAMBDA n : r.to \o Base(at) \o n)
       /\ r.kind = "toNetdisk" => Arrives(q, Path(q), disk, disk', LAMBDA n : Landing(disk', at, Base(Path(q)) \o n))]_vars

(* An edit that changes a file leaves there what all of its edits, in their    *)
(* order and each with a place to work on, make of a body that the file had at  *)
(* some moment of the call.                                                   *)
Replaces(b, c, e, all) ==
  LET at == {i \in DOMAIN b : b[i] = e.old} IN
  /\ at # {} /\ (all \/ Cardinality(at) = 1)
  /\ c = [i \in DOMAIN b |-> IF i \in at THEN e.new ELSE b[i]]
Makes(b, c, r) ==
  \E chain \in [1 .. Len(r.edits) + 1 -> [DOMAIN b -> Words]] :
    /\ chain[1] = b /\ chain[Len(chain)] = c
    /\ \A i \in DOMAIN r.edits : Replaces(chain[i], chain[i + 1], r.edits[i], r.all)
EditsAreWhole ==
  [][\A q \in Calls : call[q].pc = "put" /\ call'[q] # call[q] /\ Kind(q) = "edit" /\ fs' # fs =>
       LET r == call[q].req IN
       \E e \in ever[q] : e[1] = r.p /\ IsFile(e[2]) /\ Makes(e[2].body, fs'[r.p].body, r)]_vars

(* An edit changes the file only as it is: no write that came in between is    *)
(* undone.  It does not hold: nothing locks the file between the two halves.   *)
NothingUndone ==
  [][\A q \in Calls : call[q].pc = "put" /\ call'[q] # call[q] /\ Kind(q) = "edit" /\ call'[q].ok =>
       LET r == call[q].req IN
       r.p \in DOMAIN fs /\ IsFile(fs[r.p]) /\ Makes(fs[r.p].body, fs'[r.p].body, r)]_vars
=============================================================================
