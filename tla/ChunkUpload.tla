----------------------------- MODULE ChunkUpload ----------------------------
(***************************************************************************)
(* Resumable uploads of large files to one destination: the handlers       *)
(* chunk/init, chunk, chunk/complete and chunk/abort of                    *)
(* internal/server/chunkupload.go and the browser's coordinator of         *)
(* web/lib/chunkupload.js, which sends several chunks at once, sends a     *)
(* chunk again when its answer is lost and starts over from the resume     *)
(* record after a reload.                                                  *)
(*                                                                         *)
(* Handlers share nothing but files and two families of locks; every file  *)
(* operation another handler can see the effect of is a step of its own.   *)
(* A lock is taken in one step with the read that follows it.  A crash is  *)
(* the end of the process: what was written to a file stays.               *)
(***************************************************************************)
EXTENDS Integers, FiniteSets, FiniteSetsExt

CONSTANTS
  None,         \* no file, no record, no request
  Files,        \* contents a user may upload under the name
  Size,         \* their sizes, in units
  ChunkSize,    \* units per chunk
  Sessions,     \* page loads that upload to the destination, in the order of their numbers
  Reqs,         \* requests the server may be executing at once
  Concurrency,  \* chunks one page sends at a time
  MaxRetries,   \* times a page sends one chunk
  Overlap,      \* what a page, or an abort, may find still running, see Start
  WholeFileCRC, \* whether complete carries the checksum of the whole file
  CrashPoints,  \* program points of a request at which the process may die
  MaxFaults,    \* bound on lost answers, garbled bodies and refused quotas
  MaxCrashes,   \* bound on crashes
  MaxAborts,    \* bound on chunk/abort requests
  MaxTrouble,   \* bound on the three together
  MaxCloses     \* bound on pages closed before their upload is over

ASSUME UploadAssumption ==
  /\ None \notin Files \cup Reqs
  /\ ChunkSize \in Nat \ {0}
  /\ Size \in [Files -> Nat \ {0}]
  /\ IsFiniteSet(Sessions) /\ Sessions \subseteq Nat \ {0}
  /\ IsFiniteSet(Reqs)
  /\ Concurrency \in Nat \ {0} /\ MaxRetries \in Nat \ {0}
  /\ Overlap \in {"nothing", "chunks", "anything"}
  /\ WholeFileCRC \in BOOLEAN
  /\ MaxFaults \in Nat /\ MaxCrashes \in Nat /\ MaxAborts \in Nat /\ MaxTrouble \in Nat
  /\ MaxCloses \in Nat

\* totalChunks = ceil(size / chunkSize), which init insists on.
TotalChunks(size) == (size + ChunkSize - 1) \div ChunkSize

Indices(size) == 0 .. TotalChunks(size) - 1

Chunks == UNION {Indices(Size[f]) : f \in Files}

\* Bytes of chunk i of a file of this size; the last one may be short.
chunkByteLength(size, i) ==
  (IF (i + 1) * ChunkSize > size THEN size ELSE (i + 1) * ChunkSize) - i * ChunkSize

\* What a segment file holds: the first len units of chunk i of a file.
Content == [file : Files, len : 0 .. ChunkSize]

WholeChunk(f, i) == [file |-> f, len |-> chunkByteLength(Size[f], i)]

WholeFile(f) == [i \in Chunks |-> IF i \in Indices(Size[f]) THEN WholeChunk(f, i) ELSE None]

Empty == [i \in Chunks |-> None]

Ids == Nat

(***************************************************************************)
(* The resume record.  The file's checksum is stored in it but never       *)
(* compared with anything.                                                 *)
(***************************************************************************)
chunkUploadState == [id : Ids \ {0}, size : {Size[f] : f \in Files}, received : SUBSET Chunks]

Ops == {"init", "chunk", "complete", "abort"}

\* A request the server is executing, with its locals.
Request ==
  [op : Ops \cup {None},
   session : Sessions \cup {0},
   id : Ids,                            \* the uploadId it carries
   index : Chunks \cup {0},
   pc : {"idle", "read", "segment lock", "open", "copy", "state lock", "tmp", "rename",
         "create", "append", "stat", "check", "clean"},
   st : chunkUploadState \cup {None},   \* the record it read last
   n : Nat,                             \* loop counter of assemble and clean
   written : Nat,                       \* sizes of the segments appended
   stream : [Chunks -> Content \cup {None}],  \* what it appended
   linked : BOOLEAN]                    \* whether its destination file still has the name

ASSUME NoneAssumption == None \notin Ops \cup chunkUploadState \cup Content

Idle == [op |-> None, session |-> 0, id |-> 0, index |-> 0, pc |-> "idle", st |-> None,
         n |-> 0, written |-> 0, stream |-> Empty, linked |-> FALSE]

\* One page load of the browser.
Page ==
  [phase : {"new", "init", "upload", "complete", "done", "failed", "closed"},
   file : Files \cup {None},
   id : Ids,
   todo : SUBSET Chunks,                   \* chunks not yet confirmed
   tries : [Chunks -> 0 .. MaxRetries],    \* failed attempts per chunk
   waits : [Chunks -> Reqs \cup {None}],   \* the chunk request whose answer is awaited
   call : Reqs \cup {None},                \* the same for init and complete
   round : 0 .. 2]                         \* complete answers "missing chunks" so far

NewPage == [phase |-> "new", file |-> None, id |-> 0, todo |-> {}, tries |-> [i \in Chunks |-> 0],
            waits |-> [i \in Chunks |-> None], call |-> None, round |-> 0]

VARIABLES
  state,       \* <dst>.mudppart, the resume record, or None
  tmp,         \* <dst>.mudppart.tmp
  seg,         \* <dst>.mudppart.<i>
  dst,         \* the destination file by chunks, or None
  segLock,     \* chunkSegmentLocks: the request holding (dst, i), or None
  stateLock,   \* chunkStateLocks: the request holding dst, or None
  req,
  page,
  nextId,      \* ids minted so far
  promised,    \* history: the file whose upload was last answered ok, until
               \* a crash interrupts another complete
  faults, crashes, aborts, closes

files == <<state, tmp, seg, dst>>
locks == <<segLock, stateLock>>
bounds == <<faults, crashes, aborts, closes>>
vars == <<files, locks, req, page, nextId, promised, bounds>>

Init ==
  /\ state = None /\ tmp = None /\ dst = None
  /\ seg = Empty
  /\ segLock = [i \in Chunks |-> None] /\ stateLock = None
  /\ req = [r \in Reqs |-> Idle]
  /\ page = [s \in Sessions |-> NewPage]
  /\ nextId = 0
  /\ promised = None
  /\ faults = 0 /\ crashes = 0 /\ aborts = 0 /\ closes = 0

Bounded == faults + crashes + aborts < MaxTrouble
Fault == Bounded /\ faults < MaxFaults /\ faults' = faults + 1

Free == {r \in Reqs : req[r].pc = "idle"}

Send(r, op, s, i) ==
  req' = [req EXCEPT ![r] = [Idle EXCEPT !.op = op, !.session = s, !.id = page[s].id,
                                         !.index = i, !.pc = "read"]]

(***************************************************************************)
(* What an answer does to the page that still waits for it.                *)
(***************************************************************************)
Failed(p) == [p EXCEPT !.phase = "failed", !.call = None]

\* uploadOneChunkWithRetry: any error of a chunk is followed by another attempt, up to a limit.
ChunkFailed(p, i) ==
  LET again == [p EXCEPT !.tries[i] = @ + 1, !.waits[i] = None]
  IN  IF again.tries[i] < MaxRetries THEN again ELSE [again EXCEPT !.phase = "failed"]

\* Mutant of ChunkStored: the worker does not go on to the next chunk.
ChunkStoredAgain(p, i) == [p EXCEPT !.waits[i] = None]

ChunkStored(p, i) == [p EXCEPT !.todo = @ \ {i}, !.waits[i] = None]

\* uploadLargeFile after init: send what the server does not list as received.
Initialised(p, st) ==
  [p EXCEPT !.phase = "upload", !.call = None, !.id = st.id,
            !.todo = Indices(Size[p.file]) \ st.received]

\* After a 409: send the missing chunks, one by one, and complete again.
Conflicted(p, missing) ==
  [p EXCEPT !.phase = "upload", !.call = None, !.todo = missing,
            !.tries = [i \in Chunks |-> 0], !.round = @ + 1]

\* The request is over; its page, if it still waits for this request, takes p.
Answer(r, p) ==
  LET s == req[r].session
      waiting == r \in {page[s].call, page[s].waits[req[r].index]}
  IN  /\ req' = [req EXCEPT ![r] = Idle]
      /\ page' = IF waiting THEN [page EXCEPT ![s] = p] ELSE page

PageOf(r) == page[req[r].session]

AnswerError(r) ==
  Answer(r, IF req[r].op = "chunk" THEN ChunkFailed(PageOf(r), req[r].index) ELSE Failed(PageOf(r)))

At(r, op, pc) == req[r].op = op /\ req[r].pc = pc

Goto(r, pc) == req' = [req EXCEPT ![r].pc = pc]

Unlock(r) ==
  /\ segLock' = [i \in Chunks |-> IF segLock[i] = r THEN None ELSE segLock[i]]
  /\ stateLock' = IF stateLock = r THEN None ELSE stateLock

-----------------------------------------------------------------------------
(***************************************************************************)
(* The browser.                                                            *)
(***************************************************************************)

Running(op) == {r \in Reqs : req[r].op = op}

(***************************************************************************)
(* A page starts an upload by calling init.  Overlap says what of earlier  *)
(* pages may still be there: nothing, the chunk requests they left behind  *)
(* when they were closed, or anything, open pages included.                *)
(***************************************************************************)
Start(s) ==
  /\ page[s].phase = "new"
  /\ \A t \in {u \in Sessions : u < s} :
       page[t].phase \in (IF Overlap = "anything" THEN {"init", "upload", "complete", "failed"} ELSE {})
                         \cup {"done", "closed"}
  /\ Overlap = "chunks" => Running("complete") = {} /\ Running("init") = {}
  /\ Overlap = "nothing" => Free = Reqs
  /\ \E f \in Files, r \in Free :
       /\ page' = [page EXCEPT ![s] = [NewPage EXCEPT !.phase = "init", !.file = f, !.call = r]]
       /\ Send(r, "init", s, 0)
  /\ UNCHANGED <<files, locks, nextId, promised, bounds>>

\* Chunks a worker of the pool has taken up; a failed one keeps its worker from taking others.
Active(s) == {i \in page[s].todo : page[s].waits[i] # None \/ page[s].tries[i] > 0}

Width(s) == IF page[s].round = 0 THEN Concurrency ELSE 1

(***************************************************************************)
(* A worker posts its chunk, for the first time or again.  When one worker *)
(* gives up the upload has failed, but the others of the pool go on.       *)
(***************************************************************************)
SendChunk(s, i) ==
  /\ page[s].phase = "upload" \/ (page[s].phase = "failed" /\ page[s].round = 0)
  /\ i \in page[s].todo
  /\ page[s].waits[i] = None
  /\ page[s].tries[i] < MaxRetries
  /\ i \in Active(s) \/ Cardinality(Active(s)) < Width(s)
  /\ \E r \in Free :
       /\ page' = [page EXCEPT ![s].waits[i] = r]
       /\ Send(r, "chunk", s, i)
  /\ UNCHANGED <<files, locks, nextId, promised, bounds>>

\* All chunks are confirmed: complete, unless the server has missed chunks twice.
SendComplete(s) ==
  /\ page[s].phase = "upload" /\ page[s].todo = {}
  /\ \/ /\ page[s].round < 2
        /\ \E r \in Free :
             /\ page' = [page EXCEPT ![s].phase = "complete", ![s].call = r]
             /\ Send(r, "complete", s, 0)
     \/ /\ page[s].round = 2
        /\ page' = [page EXCEPT ![s] = Failed(@)]
        /\ UNCHANGED req
  /\ UNCHANGED <<files, locks, nextId, promised, bounds>>

\* chunk/abort with the handle of an upload; no page sends it by itself.  Where nothing
\* overlaps, it is sent when no page is open and no request runs.
SendAbort(s) ==
  /\ Bounded /\ aborts < MaxAborts /\ aborts' = aborts + 1
  /\ page[s].phase \in {"upload", "complete", "failed", "closed"} /\ page[s].id # 0
  /\ Overlap = "nothing" => /\ Free = Reqs
                            /\ \A t \in Sessions : page[t].phase \in {"new", "done", "closed"}
  /\ \E r \in Free : Send(r, "abort", s, 0)
  /\ UNCHANGED <<files, locks, page, nextId, promised, faults, crashes, closes>>

\* The connection of an awaited request breaks; the server goes on executing it.
LoseAnswer(s) ==
  /\ Fault
  /\ \/ /\ page[s].call # None
        /\ page' = [page EXCEPT ![s] = Failed(@)]
     \/ \E i \in Chunks :
          /\ page[s].waits[i] # None
          /\ page' = [page EXCEPT ![s] = ChunkFailed(@, i)]
  /\ UNCHANGED <<files, locks, req, nextId, promised, crashes, aborts, closes>>

\* The user closes or reloads the page, or cancels the upload.
Close(s) ==
  /\ closes < MaxCloses /\ closes' = closes + 1
  /\ page[s].phase \in {"init", "upload", "complete", "failed"}
  /\ page' = [page EXCEPT ![s].phase = "closed", ![s].call = None,
                          ![s].waits = [i \in Chunks |-> None]]
  /\ UNCHANGED <<files, locks, req, nextId, promised, faults, crashes, aborts>>
-----------------------------------------------------------------------------
(***************************************************************************)
(* handleChunkInit: resume a record of the same layout or make a new one,  *)
(* then save it.  No lock is held.                                         *)
(***************************************************************************)
Resumes(f) == state # None /\ state.size = Size[f]

InitRead(r) ==
  /\ At(r, "init", "read")
  /\ LET f == PageOf(r).file
         fresh == [id |-> nextId + 1, size |-> Size[f], received |-> {}]
     IN  /\ req' = [req EXCEPT ![r].st = IF Resumes(f) THEN state ELSE fresh, ![r].pc = "tmp"]
         /\ nextId' = IF Resumes(f) THEN nextId ELSE nextId + 1
  /\ UNCHANGED <<files, locks, page, promised, bounds>>

\* quotaCheck refuses the bytes still to come.
InitRefused(r) ==
  /\ At(r, "init", "tmp")
  /\ Fault
  /\ AnswerError(r)
  /\ UNCHANGED <<files, locks, nextId, promised, crashes, aborts, closes>>

(***************************************************************************)
(* handleChunk up to the segment lock.                                     *)
(***************************************************************************)
ChunkRead(r) ==
  /\ At(r, "chunk", "read")
  /\ IF state # None /\ state.id = req[r].id /\ req[r].index \in Indices(state.size)
       THEN req' = [req EXCEPT ![r].st = state, ![r].pc = "segment lock"] /\ UNCHANGED page
       ELSE AnswerError(r)
  /\ UNCHANGED <<files, locks, nextId, promised, bounds>>

\* Mutant of ChunkLockSegment: the record is not read again under the lock.
ChunkLockSegmentStale(r) ==
  LET i == req[r].index IN
  /\ At(r, "chunk", "segment lock")
  /\ segLock[i] = None
  /\ IF i \in req[r].st.received
       THEN Answer(r, ChunkStored(PageOf(r), i)) /\ UNCHANGED segLock
       ELSE Goto(r, "open") /\ segLock' = [segLock EXCEPT ![i] = r] /\ UNCHANGED page
  /\ UNCHANGED <<files, stateLock, nextId, promised, bounds>>

\* Mutant of ChunkLockSegment: nobody waits for the lock.
ChunkLockSegmentFree(r) ==
  LET i == req[r].index IN
  /\ At(r, "chunk", "segment lock")
  /\ IF state # None /\ i \in state.received
       THEN Answer(r, ChunkStored(PageOf(r), i)) /\ UNCHANGED segLock
       ELSE Goto(r, "open") /\ segLock' = [segLock EXCEPT ![i] = r] /\ UNCHANGED page
  /\ UNCHANGED <<files, stateLock, nextId, promised, bounds>>

\* Under the lock of (dst, index): a chunk recorded as received is not written again.
ChunkLockSegment(r) ==
  LET i == req[r].index IN
  /\ At(r, "chunk", "segment lock")
  /\ segLock[i] = None
  /\ IF state # None /\ i \in state.received
       THEN Answer(r, ChunkStored(PageOf(r), i)) /\ UNCHANGED segLock
       ELSE Goto(r, "open") /\ segLock' = [segLock EXCEPT ![i] = r] /\ UNCHANGED page
  /\ UNCHANGED <<files, stateLock, nextId, promised, bounds>>

(***************************************************************************)
(* writeChunkSegment: truncate the segment, copy the body into it, compare *)
(* its length and its checksum with the declared ones.  An intact body has *)
(* the declared length: the handle it carries was minted for its layout.   *)
(***************************************************************************)
ChunkOpen(r) ==
  /\ At(r, "chunk", "open")
  /\ seg' = [seg EXCEPT ![req[r].index] = [file |-> PageOf(r).file, len |-> 0]]
  /\ Goto(r, "copy")
  /\ UNCHANGED <<state, tmp, dst, locks, page, nextId, promised, bounds>>

ChunkCopy(r) ==
  LET i == req[r].index  f == PageOf(r).file IN
  /\ At(r, "chunk", "copy")
  /\ seg' = [seg EXCEPT ![i] = WholeChunk(f, i)]
  /\ Goto(r, "state lock")
  /\ UNCHANGED <<state, tmp, dst, locks, page, nextId, promised, bounds>>

\* The body was garbled or cut short on its way.
ChunkGarbled(r) ==
  /\ At(r, "chunk", "copy")
  /\ Fault
  /\ seg' = [seg EXCEPT ![req[r].index] = None]
  /\ AnswerError(r)
  /\ Unlock(r)
  /\ UNCHANGED <<state, tmp, dst, nextId, promised, crashes, aborts, closes>>

\* Mutant of ChunkLockState: the index is added to the record read before the locks.
ChunkLockStateStale(r) ==
  /\ At(r, "chunk", "state lock")
  /\ stateLock = None
  /\ req' = [req EXCEPT ![r].st.received = @ \cup {req[r].index}, ![r].pc = "tmp"]
  /\ stateLock' = r
  /\ UNCHANGED <<files, segLock, page, nextId, promised, bounds>>

\* Under the lock of dst: read the record afresh and add the index to it.
ChunkLockState(r) ==
  /\ At(r, "chunk", "state lock")
  /\ stateLock = None
  /\ IF state # None
       THEN /\ req' = [req EXCEPT ![r].st = [state EXCEPT !.received = @ \cup {req[r].index}],
                                  ![r].pc = "tmp"]
            /\ stateLock' = r
            /\ UNCHANGED <<segLock, page>>
       ELSE AnswerError(r) /\ Unlock(r)
  /\ UNCHANGED <<files, nextId, promised, bounds>>

(***************************************************************************)
(* writeChunkState, for init and chunk: write the temporary file, rename   *)
(* it.  All writers of a destination share the temporary file; a writer    *)
(* that finds it renamed away fails.                                       *)
(***************************************************************************)
WriteTmp(r) ==
  /\ req[r].pc = "tmp"
  /\ tmp' = req[r].st
  /\ Goto(r, "rename")
  /\ UNCHANGED <<state, seg, dst, locks, page, nextId, promised, bounds>>

Rename(r) ==
  /\ req[r].pc = "rename"
  /\ \/ /\ tmp # None
        /\ state' = tmp /\ tmp' = None
        /\ Answer(r, IF req[r].op = "init" THEN Initialised(PageOf(r), req[r].st)
                                           ELSE ChunkStored(PageOf(r), req[r].index))
     \/ tmp = None /\ AnswerError(r) /\ UNCHANGED <<state, tmp>>
  /\ Unlock(r)
  /\ UNCHANGED <<seg, dst, nextId, promised, bounds>>

(***************************************************************************)
(* handleChunkComplete: all chunks must be recorded.                       *)
(***************************************************************************)
CompleteRead(r) ==
  LET missing == Indices(state.size) \ state.received IN
  /\ At(r, "complete", "read")
  /\ IF state = None \/ (state # None /\ state.id # req[r].id) THEN AnswerError(r)
     ELSE IF missing # {} THEN Answer(r, Conflicted(PageOf(r), missing))
     ELSE req' = [req EXCEPT ![r].st = state, ![r].pc = "create"] /\ UNCHANGED page
  /\ UNCHANGED <<files, locks, nextId, promised, bounds>>

(***************************************************************************)
(* assembleChunks: truncate the destination, append the segments in order, *)
(* adding up their sizes as found after the copy.  No lock is held.        *)
(***************************************************************************)
\* Mutant of AssembleCreate: assembled under another name and not renamed.
AssembleCreateAside(r) ==
  /\ At(r, "complete", "create")
  /\ Goto(r, "append")
  /\ UNCHANGED <<files, locks, page, nextId, promised, bounds>>

AssembleCreate(r) ==
  /\ At(r, "complete", "create")
  /\ dst' = Empty
  /\ req' = [req EXCEPT ![r].linked = TRUE, ![r].pc = "append"]
  /\ UNCHANGED <<state, tmp, seg, locks, page, nextId, promised, bounds>>

\* os.Remove(dst): whoever has the file open goes on writing to a file without a name.
AssembleFails(r) ==
  LET s == req[r].session
      waiting == page[s].call = r
  IN  /\ dst' = None
      /\ req' = [q \in Reqs |-> IF q = r THEN Idle ELSE [req[q] EXCEPT !.linked = FALSE]]
      /\ page' = IF waiting THEN [page EXCEPT ![s] = Failed(@)] ELSE page

AssembleAppend(r) ==
  LET n == req[r].n IN
  /\ At(r, "complete", "append")
  /\ IF seg[n] = None
       THEN AssembleFails(r)
       ELSE /\ dst' = IF req[r].linked THEN [dst EXCEPT ![n] = seg[n]] ELSE dst
            /\ req' = [req EXCEPT ![r].stream[n] = seg[n], ![r].pc = "stat"]
            /\ UNCHANGED page
  /\ UNCHANGED <<state, tmp, seg, locks, nextId, promised, bounds>>

\* The open segment's size; one that was removed meanwhile keeps the size it had.
AssembleStat(r) ==
  LET n == req[r].n
      size == IF seg[n] = None THEN req[r].stream[n].len ELSE seg[n].len
      last == n + 1 = TotalChunks(req[r].st.size)
  IN
  /\ At(r, "complete", "stat")
  /\ req' = [req EXCEPT ![r].written = @ + size, ![r].n = IF last THEN 0 ELSE n + 1,
                        ![r].pc = IF last THEN "check" ELSE "append"]
  /\ UNCHANGED <<files, locks, page, nextId, promised, bounds>>

\* Mutant of AssembleCheck: the checksum of the whole file is not compared.
AssembleCheckSize(r) ==
  /\ At(r, "complete", "check")
  /\ IF req[r].written # req[r].st.size
       THEN AssembleFails(r)
       ELSE Goto(r, "clean") /\ UNCHANGED <<dst, page>>
  /\ UNCHANGED <<state, tmp, seg, locks, nextId, promised, bounds>>

AssembleCheck(r) ==
  /\ At(r, "complete", "check")
  /\ IF \/ req[r].written # req[r].st.size
        \/ WholeFileCRC /\ req[r].stream # WholeFile(PageOf(r).file)
       THEN AssembleFails(r)
       ELSE Goto(r, "clean") /\ UNCHANGED <<dst, page>>
  /\ UNCHANGED <<state, tmp, seg, locks, nextId, promised, bounds>>

\* handleChunkAbort: only the handle of the record in place removes it.
AbortRead(r) ==
  /\ At(r, "abort", "read")
  /\ IF state # None /\ state.id = req[r].id
       THEN req' = [req EXCEPT ![r].st = state, ![r].pc = "clean"] /\ UNCHANGED page
       ELSE Answer(r, PageOf(r))
  /\ UNCHANGED <<files, locks, nextId, promised, bounds>>

CleanSegment(r) ==
  LET n == req[r].n IN
  /\ req[r].pc = "clean"
  /\ n \in Indices(req[r].st.size)
  /\ seg' = [seg EXCEPT ![n] = None]
  /\ req' = [req EXCEPT ![r].n = n + 1]
  /\ UNCHANGED <<state, tmp, dst, locks, page, nextId, promised, bounds>>

CleanState(r) ==
  /\ req[r].pc = "clean"
  /\ req[r].n \notin Indices(req[r].st.size)
  /\ state' = None
  /\ IF req[r].op = "complete"
       THEN promised' = PageOf(r).file /\ Answer(r, [PageOf(r) EXCEPT !.phase = "done", !.call = None])
       ELSE UNCHANGED promised /\ Answer(r, PageOf(r))
  /\ UNCHANGED <<tmp, seg, dst, locks, nextId, bounds>>

(***************************************************************************)
(* The process dies and is started again.  Pages see their requests fail.  *)
(***************************************************************************)
Crash ==
  /\ Bounded /\ crashes < MaxCrashes /\ crashes' = crashes + 1
  /\ \A r \in Reqs : req[r].pc \in CrashPoints \cup {"idle"}
  /\ req' = [r \in Reqs |-> Idle]
  /\ segLock' = [i \in Chunks |-> None] /\ stateLock' = None
  /\ page' = [s \in Sessions |->
                LET p == page[s]
                    hit == {i \in Chunks : p.waits[i] # None}
                    again == [p EXCEPT !.waits = [i \in Chunks |-> None],
                                       !.tries = [i \in Chunks |-> p.tries[i] + (IF i \in hit THEN 1 ELSE 0)]]
                IN  IF p.call # None THEN Failed(p)
                    ELSE IF \E i \in hit : again.tries[i] = MaxRetries THEN Failed(again)
                    ELSE again]
  /\ promised' = IF Running("complete") = {} THEN promised ELSE None
  /\ UNCHANGED <<files, nextId, faults, aborts, closes>>
-----------------------------------------------------------------------------
Serve(r) ==
  \/ InitRead(r) \/ ChunkRead(r) \/ ChunkLockSegment(r) \/ ChunkOpen(r) \/ ChunkCopy(r)
  \/ ChunkLockState(r) \/ WriteTmp(r) \/ Rename(r) \/ CompleteRead(r) \/ AssembleCreate(r)
  \/ AssembleAppend(r) \/ AssembleStat(r) \/ AssembleCheck(r) \/ AbortRead(r)
  \/ CleanSegment(r) \/ CleanState(r)

Upload(s) == SendComplete(s) \/ \E i \in Chunks : SendChunk(s, i)

\* Every upload was started and nothing runs any more.
Over ==
  /\ \A s \in Sessions : page[s].phase \in {"done", "failed", "closed"}
  /\ Free = Reqs
  /\ UNCHANGED vars

Next ==
  \/ \E r \in Reqs : Serve(r) \/ InitRefused(r) \/ ChunkGarbled(r)
  \/ \E s \in Sessions : Start(s) \/ Upload(s) \/ SendAbort(s) \/ LoseAnswer(s) \/ Close(s)
  \/ Crash
  \/ Over

\* Handlers run to their end; an open page goes on with its upload.
Fairness ==
  /\ \A r \in Reqs : WF_vars(Serve(r))
  /\ \A s \in Sessions : WF_vars(Upload(s))

Spec == Init /\ [][Next]_vars /\ Fairness
-----------------------------------------------------------------------------
\* Every variable keeps its type.  (A page never sends a chunk more than MaxRetries times.)
TypeOK ==
  /\ state \in chunkUploadState \cup {None} /\ tmp \in chunkUploadState \cup {None}
  /\ seg \in [Chunks -> Content \cup {None}]
  /\ dst \in [Chunks -> Content \cup {None}] \cup {None}
  /\ segLock \in [Chunks -> Reqs \cup {None}] /\ stateLock \in Reqs \cup {None}
  /\ \A r \in Reqs : req[r] \in Request
  /\ page \in [Sessions -> Page]
  /\ nextId \in Ids
  /\ promised \in Files \cup {None}
  /\ faults \in 0 .. MaxFaults /\ crashes \in 0 .. MaxCrashes /\ aborts \in 0 .. MaxAborts
  /\ closes \in 0 .. MaxCloses

\* Unless a request is cleaning up, a chunk the resume record lists is on disk, complete, and
\* belongs to a file of the recorded size: what a resumed upload will not send again is there.
ReceivedIsStored ==
  (state # None /\ \A r \in Reqs : req[r].pc # "clean") =>
    \A i \in state.received : \E f \in Files : Size[f] = state.size /\ seg[i] = WholeChunk(f, i)

\* A chunk a live page was told is stored stays in the record of that upload, whatever other
\* chunks are recorded at the same time, until complete has been called.
AcknowledgedIsRecorded ==
  \A s \in Sessions : page[s].phase = "upload" =>
    /\ state # None /\ state.id = page[s].id
    /\ Indices(Size[page[s].file]) \ page[s].todo \subseteq state.received

\* A segment is complete unless its writer, which holds its lock, is still copying:
\* as long as the process lives, retries of a chunk never leave a torn segment behind.
SegmentsWhole ==
  crashes = 0 => \A i \in Chunks :
    \/ seg[i] = None
    \/ seg[i].len = chunkByteLength(Size[seg[i].file], i)
    \/ segLock[i] # None /\ At(segLock[i], "chunk", "copy") /\ req[segLock[i]].index = i

\* Once complete has answered ok the destination is the uploaded file, and stays it
\* unless another complete is assembling a new one.
DestinationStays ==
  (promised # None /\ \A r \in Reqs : req[r].op # "complete") => dst = WholeFile(promised)

\* An upload ends: with its file complete, with an error shown, or because the page was left.
UploadEnds ==
  \A s \in Sessions :
    page[s].phase \in {"init", "upload", "complete"} ~> page[s].phase \in {"done", "failed", "closed"}

=============================================================================
