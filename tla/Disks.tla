------------------------------- MODULE Disks -------------------------------
(***************************************************************************)
(* A user's netdisk and backup disk: copying and moving entries on one disk *)
(* and between the two (netdisk.go, netdiskCopyOne and copyPathWithPolicy;   *)
(* backup.go, netdiskTransfer), restoring from the backup disk               *)
(* (netdiskBackupRestore), and the backup jobs, which outlive the request    *)
(* that starts them, with their registry and their cancellation (backup.go). *)
(*                                                                           *)
(* An entry is a file or a folder of files.  A handler works on it with one  *)
(* system call after the other; containers write into the netdisk (it is     *)
(* mounted into them), and the same user has other requests at work.         *)
(***************************************************************************)
EXTENDS Integers, Sequences, Functions

CONSTANTS
  Netdisk, Backup,  \* the directories on each disk
  Names,            \* base names of entries
  Folders,          \* those that are folders
  Parts, PartsOf,   \* the files an entry may have; a plain file has one
  MaxSuffix,        \* names that " (n)" and the backup's time stamp make: 0 is the plain name
  Start,            \* what is stored at first
  Reqs, Jobs,
  MaxKept,          \* finished jobs the registry keeps (50 in the code)
  Overlap,          \* may requests work on one destination, or on what another moves, at once?
  MaxOps, MaxWrites, MaxFaults   \* requests and jobs begun, files written, failures

Dirs == Netdisk \cup Backup
Slots == [dir : Dirs, name : Names, n : 0 .. MaxSuffix]
NoFile == -1
Torn == 0       \* a file whose copy failed half way
Contents == NoFile .. MaxWrites
Policies == {"overwrite", "skip", "rename"}

ASSUME DisksAssumption ==
  /\ Netdisk \cap Backup = {}
  /\ Folders \subseteq Names
  /\ PartsOf \in [Names -> SUBSET Parts]
  /\ \A x \in Names \ Folders : \E p \in Parts : PartsOf[x] = {p}
  /\ {MaxSuffix, MaxKept, MaxOps, MaxWrites} \subseteq Nat /\ MaxFaults \in Nat
  /\ Overlap \in BOOLEAN
  /\ Start \in [Slots -> [is : BOOLEAN, has : [Parts -> Contents]]]
  /\ \A s \in Slots : {p \in Parts : Start[s].has[p] # NoFile} \subseteq IF Start[s].is THEN PartsOf[s.name] ELSE {}

VARIABLES
  tree,      \* what is on the disks: does the entry exist, and the content of its files
  req,       \* requests at work
  job,       \* backup jobs: the goroutine and the record the registry shows
  kept,      \* the jobs in the registry, in the order in which they finished last
  cancel,    \* jobs whose cancellation has seen them running
  ops, writes, faults   \* bounded counters

vars == <<tree, req, job, kept, cancel, ops, writes, faults>>
counters == <<ops, writes, faults>>

Idle == [pc |-> "idle"]
NoJob == [pc |-> "none"]
Empty == [is |-> FALSE, has |-> [p \in Parts |-> NoFile]]

Same(s, t) == s.dir = t.dir /\ s.name = t.name
SameDisk(s, t) == {s.dir, t.dir} \subseteq Netdisk \/ {s.dir, t.dir} \subseteq Backup
Listed(s) == {p \in PartsOf[s.name] : tree[s].has[p] # NoFile}
Put(s, p, c) == [tree EXCEPT ![s].is = TRUE, ![s].has[p] = c]

(* nextFreeName and nextBackupName: the plain name if it is free, or the     *)
(* first suffix that is.  Nothing is created yet.                            *)
FreeNames(s, planned) ==
  {t \in Slots : Same(s, t) /\ t.n >= s.n /\ ~tree[t].is /\ t \notin planned}
(* Mutant: the names of the request's other items are not looked at.          *)
IsNextFreeUnplanned(t, s, planned) ==
  t \in FreeNames(s, {}) /\ \A x \in FreeNames(s, {}) : t.n <= x.n

IsNextFree(t, s, planned) ==
  t \in FreeNames(s, planned) /\ \A x \in FreeNames(s, planned) : t.n <= x.n

Alive(j) == job[j].pc \in {"name", "list", "copy", "cancelled", "done"}
Running(j) == job[j].pc # "none" /\ job[j].status = "running"

(* The bound: a name is left.                                                *)
Room(s) == FreeNames(s, {}) # {}

(* Is nothing that a request or a job at work writes to.                      *)
Untouched(s) ==
  \/ Overlap
  \/ /\ \A r \in Reqs : req[r] # Idle => \A i \in DOMAIN req[r].items : ~Same(s, req[r].items[i].to)
     /\ \A j \in Jobs : Alive(j) => ~Same(s, job[j].to)

(* The moves at work, and what they take away.                                *)
Movers == {r \in Reqs : req[r] # Idle /\ req[r].move}
Moving(s) == ~Overlap /\ \E r \in Movers : Same(s, req[r].items[1].from)

-----------------------------------------------------------------------------
Init ==
  /\ tree = Start
  /\ req = [r \in Reqs |-> Idle]
  /\ job = [j \in Jobs |-> NoJob]
  /\ kept = <<>>
  /\ cancel = {}
  /\ ops = 0 /\ writes = 2 /\ faults = 0

(* A container or an upload writes a file of the netdisk.                    *)
Write(s, p) ==
  /\ writes < MaxWrites
  /\ s.dir \in Netdisk /\ s.n = 0 /\ p \in PartsOf[s.name] /\ Untouched(s)
  /\ tree' = Put(s, p, writes + 1)
  /\ writes' = writes + 1
  /\ UNCHANGED <<req, job, kept, cancel, ops, faults>>

BeginOp == ops < MaxOps /\ ops' = ops + 1 /\ UNCHANGED <<writes, faults>>

Deleted(s) ==
  /\ tree[s].is /\ Untouched(s)
  /\ tree' = [tree EXCEPT ![s] = Empty]
  /\ BeginOp
  /\ UNCHANGED <<req, job, kept, cancel>>

(* netdiskDelete, netdiskBackupDelete.                                       *)
Delete(s) == s.dir \in Netdisk /\ Deleted(s)
BackupDelete(s) == s.dir \in Backup /\ Deleted(s)

(* netdiskRename, netdiskBackupRename: a file that has the new name is        *)
(* replaced, a folder that has it and is not empty refuses.                   *)
Renames(s, t) == ~(s.name \in Folders /\ tree[t].is /\ Listed(t) # {})

Rename(s, t) ==
  /\ tree[s].is /\ s # t /\ s.name = t.name /\ SameDisk(s, t)
  /\ Untouched(s) /\ Untouched(t) /\ ~Moving(t)
  /\ Renames(s, t)
  /\ tree' = [tree EXCEPT ![t] = tree[s], ![s] = Empty]
  /\ BeginOp
  /\ UNCHANGED <<req, job, kept, cancel>>

-----------------------------------------------------------------------------
(* Copying and moving. *)

Item(s, t) == [from |-> s, to |-> t]
Work(r) == Head(req[r].items)
To(r) == Work(r).to
From(r) == Work(r).from

(* An item is done, or failed: the next one, or the answer. *)
NextItem(r) ==
  LET row == req[r] IN
  req' = [req EXCEPT ![r] = IF Len(row.items) = 1 THEN Idle
                            ELSE [row EXCEPT !.pc = "list", !.todo = {}, !.items = Tail(row.items)]]

At(r, pc) == req[r].pc = pc
Goto(r, pc) == req' = [req EXCEPT ![r].pc = pc]

(* netdiskCopy, netdiskTransfer and netdiskBackupCopy reach netdiskCopyOne:   *)
(* an entry put where it is, other than to double it, is left alone.          *)
Begin(r, s, dir, move, policy) ==
  LET t == [s EXCEPT !.dir = dir] IN
  /\ req[r] = Idle
  /\ tree[s].is /\ Untouched(t) /\ ~Moving(t) /\ Room(t)
  /\ move => Untouched(s)
  /\ t # s \/ (~move /\ policy = "rename")
  /\ req' = [req EXCEPT ![r] = [pc |-> "choose", move |-> move, policy |-> policy,
                                items |-> <<Item(s, t)>>, todo |-> {}, at |-> writes]]
  /\ BeginOp
  /\ UNCHANGED <<tree, job, kept, cancel>>

(* netdiskCopyOne looks whether the destination is taken ... *)
Choose(r) ==
  LET after == IF req[r].move THEN "rename" ELSE "list" IN
  /\ At(r, "choose")
  /\ \/ /\ ~tree[To(r)].is
        /\ Goto(r, after) /\ UNCHANGED tree
     \/ /\ tree[To(r)].is /\ req[r].policy = "skip"
        /\ NextItem(r) /\ UNCHANGED tree
     \/ /\ tree[To(r)].is /\ req[r].policy = "rename"
        /\ \E t \in Slots :
             /\ IsNextFree(t, To(r), {})
             /\ req' = [req EXCEPT ![r].pc = after, ![r].items[1].to = t]
        /\ UNCHANGED tree
     \/ /\ tree[To(r)].is /\ req[r].policy = "overwrite" /\ To(r).name \in Folders
        /\ NextItem(r) /\ UNCHANGED tree
     \/ /\ tree[To(r)].is /\ req[r].policy = "overwrite" /\ To(r).name \notin Folders
        /\ Goto(r, after)
        /\ tree' = [tree EXCEPT ![To(r)] = Empty]
  /\ UNCHANGED <<job, kept, cancel, counters>>

(* ... a move on one disk renames, and between the disks copies.             *)
RenameStep(r) ==
  /\ At(r, "rename")
  /\ \/ /\ SameDisk(From(r), To(r)) /\ tree[From(r)].is /\ Renames(From(r), To(r))
        /\ tree' = [tree EXCEPT ![To(r)] = tree[From(r)], ![From(r)] = Empty]
        /\ NextItem(r)
     \/ /\ SameDisk(From(r), To(r)) /\ ~(tree[From(r)].is /\ Renames(From(r), To(r)))
        /\ NextItem(r) /\ UNCHANGED tree
     \/ /\ ~SameDisk(From(r), To(r))
        /\ Goto(r, "list") /\ UNCHANGED tree
  /\ UNCHANGED <<job, kept, cancel, counters>>

(* netdiskBackupRestore plans all its items first, each under a free name     *)
(* that no other item of the request has, or under its own.                   *)
BeginRestore(r, order, dir, policy) ==
  LET Plain(i) == [order[i] EXCEPT !.dir = dir] IN
  /\ req[r] = Idle
  /\ \A i \in DOMAIN order : tree[order[i]].is /\ Untouched(Plain(i)) /\ ~Moving(Plain(i))
  /\ \E ns \in [DOMAIN order -> 0 .. MaxSuffix] :
       LET plan == [i \in DOMAIN order |-> [Plain(i) EXCEPT !.n = ns[i]]] IN
       /\ \A i \in DOMAIN order :
            IF policy = "rename" THEN IsNextFree(plan[i], Plain(i), {plan[k] : k \in 1 .. i - 1})
            ELSE plan[i] = Plain(i)
       /\ req' = [req EXCEPT ![r] = [pc |-> "list", move |-> FALSE, policy |-> policy, todo |-> {},
                    items |-> [i \in DOMAIN order |-> Item(order[i], plan[i])], at |-> writes]]
  /\ BeginOp
  /\ UNCHANGED <<tree, job, kept, cancel>>

(* copyPathWithPolicy: the walk makes the folder and reads the names in it ...*)
ListFiles(r) ==
  /\ At(r, "list")
  /\ IF ~tree[From(r)].is THEN NextItem(r) /\ UNCHANGED tree
     ELSE /\ req' = [req EXCEPT ![r].pc = "copy", ![r].todo = Listed(From(r))]
          /\ tree' = IF To(r).name \in Folders THEN [tree EXCEPT ![To(r)].is = TRUE] ELSE tree
  /\ UNCHANGED <<job, kept, cancel, counters>>

(* ... and copies one file after the other; a file that is gone ends it.     *)
Skips(r, p) == req[r].policy = "skip" /\ tree[To(r)].has[p] # NoFile

(* Mutant: files that cannot be read are passed over.                         *)
CopyFileLenient(r, p) ==
  /\ At(r, "copy") /\ p \in req[r].todo
  /\ \/ tree' = IF p \in Listed(From(r)) THEN Put(To(r), p, tree[From(r)].has[p]) ELSE tree
     \/ tree' = tree
  /\ req' = [req EXCEPT ![r].todo = @ \ {p}]
  /\ UNCHANGED <<job, kept, cancel, counters>>

CopyFile(r, p) ==
  /\ At(r, "copy") /\ p \in req[r].todo
  /\ \/ /\ Skips(r, p) \/ p \in Listed(From(r))
        /\ tree' = IF Skips(r, p) THEN tree ELSE Put(To(r), p, tree[From(r)].has[p])
        /\ req' = [req EXCEPT ![r].todo = @ \ {p}]
     \/ /\ ~Skips(r, p) /\ p \notin Listed(From(r))
        /\ NextItem(r) /\ UNCHANGED tree
  /\ UNCHANGED <<job, kept, cancel, counters>>

(* A disk that is full or fails leaves a file cut short, and the error.      *)
CopyFails(r, p) ==
  /\ At(r, "copy") /\ p \in req[r].todo /\ faults < MaxFaults
  /\ ~Skips(r, p) /\ p \in Listed(From(r))
  /\ tree' = Put(To(r), p, Torn)
  /\ NextItem(r)
  /\ faults' = faults + 1
  /\ UNCHANGED <<job, kept, cancel, ops, writes>>

(* Everything is copied: a move between the disks removes what it moved.      *)
EndCopy(r) ==
  /\ At(r, "copy") /\ req[r].todo = {}
  /\ tree' = IF req[r].move THEN [tree EXCEPT ![From(r)] = Empty] ELSE tree
  /\ NextItem(r)
  /\ UNCHANGED <<job, kept, cancel, counters>>

-----------------------------------------------------------------------------
(* Backup jobs. *)

Finish(j, status) == [job[j] EXCEPT !.status = status]
Done(j, k) == Append(SelectSeq(k, LAMBDA x : x # j), j)

(* pruneLocked: when one more job is registered and there are more than        *)
(* MaxKept, the ones that finished first go, and none that is running.        *)
Excess(k) == IF Len(k) >= MaxKept THEN Len(k) + 1 - MaxKept ELSE 0
Pruned(k) ==
  LET finished == SelectSeq(k, LAMBDA x : ~Running(x))
      gone == {finished[i] : i \in {i \in DOMAIN finished : i <= Excess(k)}}
  IN SelectSeq(k, LAMBDA x : x \notin gone)

(* startBackupJob, for a selection, for everyone or on schedule: the job is   *)
(* registered and its goroutine started.                                     *)
StartJob(j, s, dir) ==
  LET t == [s EXCEPT !.dir = dir] IN
  /\ job[j] = NoJob \/ (~Alive(j) /\ j \notin Range(kept))
  /\ j \notin cancel
  /\ tree[s].is /\ s.dir \in Netdisk /\ Untouched(t) /\ ~Moving(t) /\ Room(t)
  /\ job' = [job EXCEPT ![j] = [pc |-> "name", from |-> s, to |-> t, status |-> "running",
                                stop |-> FALSE, failed |-> FALSE, todo |-> {},
                                read |-> [p \in Parts |-> NoFile]]]
  /\ kept' = Append(Pruned(kept), j)
  /\ BeginOp
  /\ UNCHANGED <<tree, req, cancel>>

(* Mutant: a source that is gone ends the goroutine and nothing else.        *)
NameJobSilent(j) ==
  /\ job[j].pc = "name"
  /\ \/ /\ ~tree[job[j].from].is
        /\ job' = [job EXCEPT ![j].pc = "ended"]
     \/ /\ tree[job[j].from].is
        /\ \E t \in Slots : /\ IsNextFree(t, job[j].to, {})
                            /\ job' = [job EXCEPT ![j].pc = "list", ![j].to = t]
  /\ UNCHANGED <<tree, req, kept, cancel, counters>>

(* runBackup: the source is looked at and nextBackupName picks a name ...    *)
NameJob(j) ==
  /\ job[j].pc = "name"
  /\ \/ /\ ~tree[job[j].from].is
        /\ job' = [job EXCEPT ![j] = [Finish(j, "error") EXCEPT !.pc = "ended"]]
        /\ kept' = IF j \in Range(kept) THEN Done(j, kept) ELSE kept
     \/ /\ tree[job[j].from].is
        /\ \E t \in Slots : /\ IsNextFree(t, job[j].to, {})
                            /\ job' = [job EXCEPT ![j].pc = "list", ![j].to = t]
        /\ UNCHANGED kept
  /\ UNCHANGED <<tree, req, cancel, counters>>

(* ... backupTree makes the folder and lists it; a source gone by now counts *)
(* as a failed file ...                                                       *)
ListJob(j) ==
  /\ job[j].pc = "list"
  /\ IF job[j].stop
     THEN job' = [job EXCEPT ![j].pc = "copy"] /\ UNCHANGED tree
     ELSE /\ job' = [job EXCEPT ![j].pc = "copy", ![j].todo = Listed(job[j].from),
                                ![j].failed = ~tree[job[j].from].is]
          /\ tree' = IF tree[job[j].from].is /\ job[j].to.name \in Folders
                     THEN [tree EXCEPT ![job[j].to].is = TRUE] ELSE tree
  /\ UNCHANGED <<req, kept, cancel, counters>>

(* ... and copies the files, past those that fail.                           *)
BackupFile(j, p) ==
  LET c == tree[job[j].from].has[p] IN
  /\ job[j].pc = "copy" /\ p \in job[j].todo /\ ~job[j].stop
  /\ \/ /\ c # NoFile
        /\ tree' = Put(job[j].to, p, c)
        /\ job' = [job EXCEPT ![j].todo = @ \ {p}, ![j].read[p] = c]
     \/ /\ c = NoFile
        /\ job' = [job EXCEPT ![j].todo = @ \ {p}, ![j].failed = TRUE]
        /\ UNCHANGED tree
  /\ UNCHANGED <<req, kept, cancel, counters>>

(* Mutant: the error of a file is dropped.                                    *)
BackupFileFailsSilently(j, p) ==
  /\ job[j].pc = "copy" /\ p \in job[j].todo /\ ~job[j].stop /\ faults < MaxFaults
  /\ tree[job[j].from].has[p] # NoFile
  /\ tree' = Put(job[j].to, p, Torn)
  /\ job' = [job EXCEPT ![j].todo = @ \ {p}, ![j].read[p] = tree[job[j].from].has[p]]
  /\ faults' = faults + 1
  /\ UNCHANGED <<req, kept, cancel, ops, writes>>

BackupFileFails(j, p) ==
  /\ job[j].pc = "copy" /\ p \in job[j].todo /\ ~job[j].stop /\ faults < MaxFaults
  /\ tree[job[j].from].has[p] # NoFile
  /\ tree' = Put(job[j].to, p, Torn)
  /\ job' = [job EXCEPT ![j].todo = @ \ {p}, ![j].failed = TRUE, ![j].read[p] = tree[job[j].from].has[p]]
  /\ faults' = faults + 1
  /\ UNCHANGED <<req, kept, cancel, ops, writes>>

(* A folder that cannot be made on the backup disk ends the job.              *)
JobFails(j) ==
  /\ job[j].pc \in {"name", "list"} /\ tree[job[j].from].is /\ ~job[j].stop /\ faults < MaxFaults
  /\ job' = [job EXCEPT ![j] = [Finish(j, "error") EXCEPT !.pc = "ended"]]
  /\ kept' = IF j \in Range(kept) THEN Done(j, kept) ELSE kept
  /\ faults' = faults + 1
  /\ UNCHANGED <<tree, req, cancel, ops, writes>>

(* The walk is over, and the context is looked at once more ...               *)
EndWalk(j) ==
  /\ job[j].pc = "copy" /\ (job[j].todo = {} \/ job[j].stop)
  /\ job' = [job EXCEPT ![j].pc = IF job[j].stop THEN "cancelled" ELSE "done"]
  /\ UNCHANGED <<tree, req, kept, cancel, counters>>

(* ... and the status is set, whatever it is by then.                         *)
EndJob(j) ==
  /\ job[j].pc \in {"cancelled", "done"}
  /\ job' = [job EXCEPT ![j] = [Finish(j, job[j].pc) EXCEPT !.pc = "ended"]]
  /\ kept' = IF j \in Range(kept) THEN Done(j, kept) ELSE kept
  /\ UNCHANGED <<tree, req, cancel, counters>>

(* backupJobCancel finds the job running ...                                  *)
CancelSeen(j) ==
  /\ j \in Range(kept) /\ Running(j) /\ j \notin cancel
  /\ cancel' = cancel \cup {j}
  /\ BeginOp
  /\ UNCHANGED <<tree, req, job, kept>>

(* ... and stops it and says so, though it may be over by now.                *)
CancelSet(j) ==
  /\ j \in cancel
  /\ cancel' = cancel \ {j}
  /\ job' = [job EXCEPT ![j] = [Finish(j, "cancelled") EXCEPT !.stop = TRUE]]
  /\ kept' = IF j \in Range(kept) THEN Done(j, kept) ELSE kept
  /\ UNCHANGED <<tree, req, counters>>

(* The process ends and is started again: the disks are as they are.         *)
Crash ==
  /\ faults < MaxFaults
  /\ faults' = faults + 1
  /\ req' = [r \in Reqs |-> Idle]
  /\ job' = [j \in Jobs |-> NoJob]
  /\ kept' = <<>> /\ cancel' = {}
  /\ UNCHANGED <<tree, ops, writes>>

-----------------------------------------------------------------------------
RequestStep(r) ==
  \/ Choose(r) \/ RenameStep(r) \/ ListFiles(r) \/ EndCopy(r)
  \/ \E p \in Parts : CopyFile(r, p) \/ CopyFails(r, p)

JobGoes(j) ==
  \/ NameJob(j) \/ ListJob(j) \/ EndWalk(j) \/ EndJob(j) \/ \E p \in Parts : BackupFile(j, p)
JobStep(j) == JobGoes(j) \/ JobFails(j) \/ \E p \in Parts : BackupFileFails(j, p)

(* At most two entries are restored at once.                                 *)
Backups == {s \in Slots : s.dir \in Backup}
Orders == {<<s>> : s \in Backups} \cup {<<s, t>> : s, t \in Backups}

Begins(r) ==
  \/ \E s \in Slots, d \in Dirs, move \in BOOLEAN, policy \in Policies : Begin(r, s, d, move, policy)
  \/ \E order \in Orders, d \in Netdisk, policy \in Policies : BeginRestore(r, order, d, policy)

Next ==
  \/ \E r \in Reqs : Begins(r) \/ RequestStep(r)
  \/ \E j \in Jobs : \/ JobStep(j) \/ CancelSeen(j) \/ CancelSet(j)
                     \/ \E s \in Slots, d \in Backup : StartJob(j, s, d)
  \/ \E s \in Slots : \/ Delete(s) \/ BackupDelete(s)
                      \/ \E p \in Parts : Write(s, p)
                      \/ \E t \in Slots : Rename(s, t)
  \/ Crash

(* A goroutine that can go on does.                                           *)
Spec == Init /\ [][Next]_vars /\ \A j \in Jobs : WF_vars(JobGoes(j))

-----------------------------------------------------------------------------
Items == [from : Slots, to : Slots]

(* What is on the disks and what works on it has its shape.                   *)
TypeOK ==
  /\ tree \in [Slots -> [is : BOOLEAN, has : [Parts -> Contents]]]
  /\ \A s \in Slots : ~tree[s].is => tree[s] = Empty
  /\ \A r \in Reqs : req[r] # Idle =>
       /\ req[r].pc \in {"choose", "rename", "list", "copy"} /\ req[r].move \in BOOLEAN
       /\ req[r].policy \in Policies /\ req[r].items \in Seq(Items) \ {<<>>}
       /\ req[r].todo \subseteq Parts /\ req[r].at \in 0 .. MaxWrites
  /\ \A j \in Jobs : job[j] # NoJob =>
       /\ job[j].pc \in {"name", "list", "copy", "cancelled", "done", "ended"}
       /\ {job[j].from, job[j].to} \subseteq Slots
       /\ job[j].status \in {"running", "done", "error", "cancelled"}
       /\ job[j].stop \in BOOLEAN /\ job[j].failed \in BOOLEAN
       /\ job[j].todo \subseteq Parts /\ job[j].read \in [Parts -> Contents]
  /\ IsInjective(kept) /\ Range(kept) \cup cancel \subseteq Jobs
  /\ ops \in 0 .. MaxOps /\ writes \in 0 .. MaxWrites /\ faults \in 0 .. MaxFaults

-----------------------------------------------------------------------------
(* A move loses nothing: what it removes from the source, other than what was *)
(* written there while it was at work, is at the destination.                 *)
MoveKeeps ==
  [][\A r \in Reqs :
       LET s == From(r)
           c(p) == tree[s].has[p]
       IN req[r] # Idle /\ req'[r] # req[r] /\ req[r].move /\ tree[s].is /\ ~tree'[s].is =>
            \A p \in Parts : c(p) \in 0 .. req[r].at => tree'[To(r)].has[p] = c(p)]_vars

(* No copy, move, restore or backup writes over a file that is there, unless  *)
(* the request says overwrite.                                                *)
Writing(s, p) == tree[s].has[p] # NoFile /\ tree'[s].has[p] \notin {NoFile, tree[s].has[p]}

OnlyOverwriteReplaces ==
  [][\A s \in Slots, p \in Parts :
       Writing(s, p) =>
         \/ ops' # ops \/ writes' # writes
         \/ \E r \in Reqs : req'[r] # req[r] /\ req[r].policy = "overwrite"]_vars

(* A backup that says it copied every file holds what it read of each.        *)
BackupWhole ==
  [][\A j \in Jobs :
       job[j].pc = "done" /\ job'[j].pc = "ended" /\ ~job[j].failed =>
         \A p \in Parts : job[j].read[p] # NoFile => tree[job[j].to].has[p] = job[j].read[p]]_vars

(* A job that is shown as running can be found, and so cancelled.             *)
RunningKept == \A j \in Jobs : Running(j) /\ Alive(j) => j \in Range(kept)

(* Every backup job comes to an end that the registry shows.                  *)
JobsEnd == \A j \in Jobs : Running(j) ~> ~Running(j)
=============================================================================
