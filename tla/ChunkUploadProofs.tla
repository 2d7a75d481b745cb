-------------------------- MODULE ChunkUploadProofs -------------------------
(***************************************************************************)
(* What holds of ChunkUpload for any files, pages, requests and chunks.    *)
(*                                                                         *)
(* The invariant comes in four layers.  Inv1 is about single requests and  *)
(* pages, and about who may hold the handle of a record; it holds however  *)
(* uploads overlap.  Inv2 says that pages which take turns have one init,  *)
(* complete or abort at work at most, Stored how the record and the        *)
(* segments then relate to the requests that work on them, and Followed    *)
(* goes with an assembly to the destination.                               *)
(***************************************************************************)
EXTENDS ChunkUpload, TLAPS

\* The points of the handler of each operation.
PcOf(op) ==
  CASE op = "init"     -> {"read", "tmp", "rename"}
    [] op = "chunk"    -> {"read", "segment lock", "open", "copy", "state lock", "tmp", "rename"}
    [] op = "complete" -> {"read", "create", "append", "stat", "check", "clean"}
    [] op = "abort"    -> {"read", "clean"}
    [] OTHER           -> {"idle"}

\* What a request holds at each of them.
RequestOK(q) ==
  /\ q \in Request
  /\ q.pc \in PcOf(q.op)
  /\ q.op # None => q.session \in Sessions /\ q.index \in Chunks
  /\ q.pc \notin {"idle", "read"} => q.st # None
  /\ q.op = "complete" /\ q.pc \in {"read", "create"} =>
       q.n = 0 /\ q.written = 0 /\ q.stream = Empty
  /\ q.pc \in {"append", "stat"} => q.n \in Indices(q.st.size)
  /\ q.pc = "stat" => q.stream[q.n] # None

\* What a page knows in each of its phases.
PageOK(p) ==
  /\ p \in Page
  /\ p.phase = "new" => p = NewPage
  /\ p.phase # "new" => p.file \in Files
  /\ p.call # None <=> p.phase \in {"init", "complete"}
  /\ p.phase = "init" => p.id = 0
  /\ p.phase \in {"upload", "complete"} => p.id # 0
  /\ p.id = 0 => p.todo = {}
  /\ p.phase = "complete" => p.round < 2
  /\ \A i \in Chunks : p.waits[i] # None =>
       i \in p.todo /\ p.phase \in {"upload", "failed"} /\ p.tries[i] < MaxRetries

\* A page waits for requests of its own.
AwaitedOK(s) ==
  /\ page[s].call # None =>
       /\ req[page[s].call].session = s
       /\ req[page[s].call].op = IF page[s].phase = "init" THEN "init" ELSE "complete"
  /\ \A i \in Chunks : page[s].waits[i] # None =>
       /\ req[page[s].waits[i]].session = s
       /\ req[page[s].waits[i]].op = "chunk"
       /\ req[page[s].waits[i]].index = i

FileOf(q) == page[q.session].file

\* What a request has of the page that sent it.
OwnedOK(r) ==
  /\ req[r].op # None => page[req[r].session].phase # "new"
  /\ req[r].op \in {"chunk", "complete", "abort"} =>
       page[req[r].session].id = req[r].id /\ req[r].id # 0
  /\ req[r].op = "init" /\ req[r].pc # "read" =>
       req[r].st.size = Size[page[req[r].session].file]
  /\ req[r].op = "chunk" /\ req[r].pc # "read" =>
       req[r].index \in Indices(Size[page[req[r].session].file])

FilesTyped ==
  /\ state \in chunkUploadState \cup {None} /\ tmp \in chunkUploadState \cup {None}
  /\ seg \in [Chunks -> Content \cup {None}]
  /\ dst \in [Chunks -> Content \cup {None}] \cup {None}
  /\ segLock \in [Chunks -> Reqs \cup {None}] /\ stateLock \in Reqs \cup {None}
  /\ nextId \in Ids
  /\ promised \in Files \cup {None}

BoundsTyped ==
  /\ faults \in 0 .. MaxFaults /\ crashes \in 0 .. MaxCrashes /\ aborts \in 0 .. MaxAborts
  /\ closes \in 0 .. MaxCloses

Handled == {q \in Request : RequestOK(q)}
Shown == {p \in Page : PageOK(p)}

Requests == req \in [Reqs -> Handled]
Pages == page \in [Sessions -> Shown] /\ \A s \in Sessions : AwaitedOK(s)
Owned == \A r \in Reqs : OwnedOK(r)

\* Who works on a segment holds its lock, and who saves the record the record's.
Writing == {"open", "copy", "state lock", "tmp", "rename"}
Saving == {"tmp", "rename"}
Locked ==
  \A r \in Reqs : req[r].op = "chunk" =>
    /\ req[r].pc \in Writing => segLock[req[r].index] = r
    /\ req[r].pc \in Saving => stateLock = r

\* Whoever knows an upload by its id, and with which size.
Knows(i, z) ==
  \/ state # None /\ state.id = i /\ state.size = z
  \/ tmp # None /\ tmp.id = i /\ tmp.size = z
  \/ \E r \in Reqs : req[r].st # None /\ req[r].st.id = i /\ req[r].st.size = z
  \/ \E s \in Sessions : page[s].id # 0 /\ page[s].id = i /\ Size[page[s].file] = z

\* An id is minted once, for a file of one size.
Sizes == {Size[f] : f \in Files}
OneLayout ==
  /\ \A i \in Ids, z \in Sizes : Knows(i, z) => i <= nextId
  /\ \A i \in Ids, y, z \in Sizes : Knows(i, y) /\ Knows(i, z) => y = z

\* Who appends to the destination appends to a file that is there.
Linked == \A r \in Reqs : req[r].linked => dst \in [Chunks -> Content \cup {None}]

Inv1 == FilesTyped /\ BoundsTyped /\ Requests /\ Pages /\ Owned /\ Locked /\ OneLayout
-----------------------------------------------------------------------------
\* A page that is out of the way of the next one.
Past(p) == p.phase \in {"done", "closed"}

\* One page ends before the next begins.
Turns == \A s, t \in Sessions : s < t /\ page[t].phase # "new" => Past(page[s])

\* An init or an abort is alone, there is one complete, and none of the three meets a page
\* it could disturb.
SoloOK(r) ==
  /\ req[r].op \in {"init", "chunk", "complete"} =>
       \A t \in Sessions : t > req[r].session => page[t].phase = "new"
  /\ req[r].op \in {"init", "abort"} => \A q \in Reqs \ {r} : req[q].op = None
  /\ req[r].op = "init" =>
       page[req[r].session].phase \in {"init", "failed", "closed"} /\ page[req[r].session].id = 0
  /\ req[r].op = "complete" =>
       /\ page[req[r].session].phase \in {"complete", "failed", "closed"}
       /\ \A q \in Reqs \ {r} : req[q].op # "complete"
  /\ req[r].op = "abort" => \A s \in Sessions : page[s].phase = "new" \/ Past(page[s])

Solo == Turns /\ \A r \in Reqs : SoloOK(r)

Inv2 == Inv1 /\ Linked /\ Solo
-----------------------------------------------------------------------------
\* A record an init is about to save is the one in place, or one nobody knows yet.
InitOK(q) ==
  q.op = "init" /\ q.pc \in Saving =>
    /\ \/ q.st = state
       \/ q.st.received = {} /\ \A s \in Sessions : page[s].id # q.st.id
    /\ q.pc = "rename" => tmp = q.st

\* A chunk is written while the record does not list it, and saved by adding it.
ChunkOK(q) ==
  q.op = "chunk" /\ q.pc # "read" =>
    /\ state # None => state.id = q.id
    /\ q.pc \in Writing => state = None \/ q.index \notin state.received
    /\ q.pc \in {"state lock"} \cup Saving => seg[q.index] = WholeChunk(FileOf(q), q.index)
    /\ q.pc \in Saving =>
         state # None /\ q.st = [state EXCEPT !.received = @ \cup {q.index}]
    /\ q.pc = "rename" => tmp = q.st

\* What complete found, all chunks received, stays so.
CompleteOK(q) ==
  q.op = "complete" /\ q.pc # "read" =>
    state = q.st /\ state.id = q.id /\ Indices(state.size) \subseteq state.received

Working == \A r \in Reqs : InitOK(req[r]) /\ ChunkOK(req[r]) /\ CompleteOK(req[r])

\* Only a crash amid a clean-up could leave chunks listed that are gone.
Kept == "clean" \notin CrashPoints => ReceivedIsStored

Stored == Working /\ Kept /\ AcknowledgedIsRecorded
-----------------------------------------------------------------------------
\* What was appended so far is the beginning of the file, under its name.
Beginning(f, n) == [i \in Chunks |-> IF i < n THEN WholeFile(f)[i] ELSE None]
Bytes(size, n) == IF n * ChunkSize > size THEN size ELSE n * ChunkSize
AssemblyOK(q) ==
  q.op = "complete" =>
    /\ q.pc \in {"append", "stat", "check"} => q.linked /\ dst = q.stream
    /\ q.pc \in {"append", "stat"} => q.written = Bytes(q.st.size, q.n)
    /\ q.pc = "append" => q.stream = Beginning(FileOf(q), q.n)
    /\ q.pc = "stat" => q.stream = Beginning(FileOf(q), q.n + 1)
    /\ q.pc = "check" => q.stream = WholeFile(FileOf(q)) /\ q.written = q.st.size
    /\ q.pc = "clean" => dst = WholeFile(FileOf(q))

\* What was promised is there until a complete truncates it.
Stays ==
  promised # None /\ (\A r \in Reqs : req[r].op = "complete" => req[r].pc \in {"read", "create"})
    => dst = WholeFile(promised)

Followed == Stays /\ \A r \in Reqs : AssemblyOK(req[r])
-----------------------------------------------------------------------------
(***************************************************************************)
(* Sizes, chunks and their lengths.                                        *)
(***************************************************************************)

\* Rounding up: the last chunk begins before the end of the file, the next one would not.
LEMMA Rounding ==
  ASSUME NEW size \in Nat \ {0}
  PROVE  /\ TotalChunks(size) \in Nat \ {0}
         /\ (TotalChunks(size) - 1) * ChunkSize < size
         /\ TotalChunks(size) * ChunkSize >= size
<1> DEFINE a == size + ChunkSize - 1
<1> DEFINE t == a \div ChunkSize
<1>1. ChunkSize \in Nat \ {0}
  BY UploadAssumption
<1>2. a \in Nat /\ a >= ChunkSize
  BY <1>1
<1>3. t \in Int /\ t * ChunkSize <= a /\ a < (t + 1) * ChunkSize
  BY <1>1, <1>2
<1>4. (t + 1) * ChunkSize = t * ChunkSize + ChunkSize /\ (t - 1) * ChunkSize = t * ChunkSize - ChunkSize
  BY <1>1, <1>3
<1>5. t * ChunkSize > 0
  BY <1>1, <1>2, <1>3, <1>4
<1>6. t > 0
  BY <1>1, <1>3, <1>5
<1> QED
  BY <1>1, <1>3, <1>4, <1>6 DEF TotalChunks

\* A chunk begins inside the file.
LEMMA Inside ==
  ASSUME NEW size \in Nat \ {0}, NEW i \in Indices(size)
  PROVE  i \in Nat /\ i * ChunkSize < size /\ i < TotalChunks(size)
<1>1. ChunkSize \in Nat \ {0} /\ TotalChunks(size) \in Nat
  BY UploadAssumption, Rounding
<1>2. i \in Nat /\ i <= TotalChunks(size) - 1 /\ i < TotalChunks(size)
  BY <1>1 DEF Indices
<1>3. i * ChunkSize <= (TotalChunks(size) - 1) * ChunkSize
  BY <1>1, <1>2
<1>4. (TotalChunks(size) - 1) * ChunkSize < size /\ (TotalChunks(size) - 1) * ChunkSize \in Int /\ i * ChunkSize \in Int
  BY <1>1, <1>2, Rounding
<1> QED
  BY <1>2, <1>3, <1>4

\* No chunk is empty, none is longer than a chunk may be.
LEMMA Lengths ==
  ASSUME NEW size \in Nat \ {0}, NEW i \in Indices(size)
  PROVE  chunkByteLength(size, i) \in 1 .. ChunkSize
<1>1. ChunkSize \in Nat \ {0}
  BY UploadAssumption
<1>2. i \in Nat /\ i * ChunkSize < size
  BY Inside
<1>3. (i + 1) * ChunkSize = i * ChunkSize + ChunkSize /\ i * ChunkSize \in Nat
  BY <1>1, <1>2
<1> DEFINE b == i * ChunkSize
<1>4. b \in Nat /\ b < size /\ (i + 1) * ChunkSize = b + ChunkSize
  BY <1>2, <1>3
<1>5. chunkByteLength(size, i) = (IF b + ChunkSize > size THEN size ELSE b + ChunkSize) - b
  BY <1>4 DEF chunkByteLength
<1> HIDE DEF b
<1> QED
  BY <1>1, <1>4, <1>5

\* The chunks of any of the files are chunks.
LEMMA FileChunks ==
  ASSUME NEW f \in Files
  PROVE  /\ Size[f] \in Nat \ {0} /\ Size[f] \in Sizes
         /\ Indices(Size[f]) \subseteq Chunks /\ 0 \in Indices(Size[f]) /\ 0 \in Chunks
<1>1. Size[f] \in Nat \ {0}
  BY UploadAssumption
<1>2. 0 \in Indices(Size[f])
  BY <1>1, Rounding DEF Indices
<1> QED
  BY <1>1, <1>2 DEF Chunks, Sizes

LEMMA Naturals == Chunks \subseteq Nat /\ Sizes \subseteq Nat \ {0}
  BY UploadAssumption, Inside DEF Chunks, Sizes

\* A chunk of a file, torn or whole, is a content, and the empty and whole files are streams.
LEMMA Contents ==
  ASSUME NEW f \in Files
  PROVE  /\ [file |-> f, len |-> 0] \in Content
         /\ \A i \in Indices(Size[f]) : WholeChunk(f, i) \in Content
         /\ Empty \in [Chunks -> Content \cup {None}]
         /\ WholeFile(f) \in [Chunks -> Content \cup {None}]
<1>1. ChunkSize \in Nat \ {0}
  BY UploadAssumption
<1>2. [file |-> f, len |-> 0] \in Content
  BY <1>1 DEF Content
<1>3. ASSUME NEW i \in Indices(Size[f])
      PROVE  WholeChunk(f, i) \in Content
  <2>1. chunkByteLength(Size[f], i) \in 0 .. ChunkSize
    BY FileChunks, Lengths, <1>1
  <2> QED
    BY <2>1 DEF WholeChunk, Content
<1> QED
  BY <1>2, <1>3 DEF Empty, WholeFile

\* One more chunk, so many more bytes; after the last one, all of them.
LEMMA OneMore ==
  ASSUME NEW size \in Nat \ {0}, NEW i \in Indices(size)
  PROVE  /\ Bytes(size, i) + chunkByteLength(size, i) = Bytes(size, i + 1)
         /\ Bytes(size, 0) = 0
         /\ i + 1 = TotalChunks(size) => Bytes(size, i + 1) = size
         /\ i + 1 # TotalChunks(size) => i + 1 \in Indices(size)
<1>1. ChunkSize \in Nat \ {0} /\ TotalChunks(size) \in Nat /\ TotalChunks(size) * ChunkSize >= size
  BY UploadAssumption, Rounding
<1>2. i \in Nat /\ i * ChunkSize < size /\ i < TotalChunks(size)
  BY Inside
<1>3. i * ChunkSize \in Nat /\ (i + 1) * ChunkSize \in Nat /\ 0 * ChunkSize = 0
  BY <1>1, <1>2
<1>4. Bytes(size, i) + chunkByteLength(size, i) = Bytes(size, i + 1)
  <2> DEFINE b == i * ChunkSize
  <2> DEFINE c == (i + 1) * ChunkSize
  <2>1. b \in Nat /\ c \in Nat /\ b < size
    BY <1>2, <1>3
  <2>2. /\ Bytes(size, i) = (IF b > size THEN size ELSE b)
        /\ Bytes(size, i + 1) = (IF c > size THEN size ELSE c)
        /\ chunkByteLength(size, i) = (IF c > size THEN size ELSE c) - b
    BY DEF Bytes, chunkByteLength
  <2> HIDE DEF b, c
  <2> QED
    BY <2>1, <2>2
<1>5. i + 1 = TotalChunks(size) => Bytes(size, i + 1) = size
  BY <1>1, <1>3 DEF Bytes
<1>6. i + 1 # TotalChunks(size) => i + 1 \in Indices(size)
  BY <1>1, <1>2 DEF Indices
<1>7. Bytes(size, 0) = 0
  BY <1>3 DEF Bytes
<1> QED
  BY <1>4, <1>5, <1>6, <1>7
-----------------------------------------------------------------------------
(***************************************************************************)
(* What an answer, or the lack of one, makes of a page.                    *)
(***************************************************************************)

LEMMA NewPageOK == PageOK(NewPage)
<1>1. MaxRetries \in Nat /\ None \notin Files \cup Reqs
  BY UploadAssumption
<1>2. NewPage \in Page
  BY <1>1 DEF NewPage, Page, Ids
<1> QED
  BY <1>2 DEF NewPage, PageOK

LEMMA StartedOK ==
  ASSUME NEW f \in Files, NEW r \in Reqs
  PROVE  PageOK([NewPage EXCEPT !.phase = "init", !.file = f, !.call = r])
<1> DEFINE p == [NewPage EXCEPT !.phase = "init", !.file = f, !.call = r]
<1>1. None \notin Files \cup Reqs
  BY UploadAssumption
<1>2. NewPage \in Page /\ NewPage.id = 0 /\ NewPage.todo = {} /\ \A i \in Chunks : NewPage.waits[i] = None
  BY NewPageOK DEF PageOK, NewPage
<1>3. /\ p \in Page /\ p.phase = "init" /\ p.file = f /\ p.call = r
      /\ p.id = 0 /\ p.todo = {} /\ \A i \in Chunks : p.waits[i] = None
  BY <1>2 DEF Page
<1> HIDE DEF p
<1>4. PageOK(p)
  BY <1>1, <1>3 DEF PageOK
<1> QED
  BY <1>4 DEF p

LEMMA FailedOK ==
  ASSUME NEW p, PageOK(p), p.call # None
  PROVE  /\ PageOK(Failed(p))
         /\ Failed(p).file = p.file /\ Failed(p).id = p.id /\ Failed(p).waits = p.waits
         /\ Failed(p).todo = p.todo /\ Failed(p).phase = "failed" /\ Failed(p).call = None
<1>1. /\ Failed(p) \in Page /\ Failed(p).phase = "failed" /\ Failed(p).call = None
      /\ Failed(p).file = p.file /\ Failed(p).id = p.id /\ Failed(p).waits = p.waits
      /\ Failed(p).todo = p.todo
  BY DEF PageOK, Page, Failed
<1>2. p.phase \in {"init", "complete"} /\ p.file \in Files /\ (p.id = 0 => p.todo = {})
  BY DEF PageOK
<1>3. \A i \in Chunks : p.waits[i] = None
  BY <1>2 DEF PageOK
<1> QED
  BY <1>1, <1>2, <1>3 DEF PageOK

LEMMA DoneOK ==
  ASSUME NEW p, PageOK(p), p.call # None
  PROVE  LET d == [p EXCEPT !.phase = "done", !.call = None] IN
         /\ PageOK(d) /\ d.file = p.file /\ d.id = p.id /\ d.waits = p.waits
         /\ d.phase = "done" /\ d.call = None
<1> DEFINE d == [p EXCEPT !.phase = "done", !.call = None]
<1>1. /\ d \in Page /\ d.phase = "done" /\ d.call = None
      /\ d.file = p.file /\ d.id = p.id /\ d.waits = p.waits
      /\ d.todo = p.todo
  BY DEF PageOK, Page
<1>2. p.phase \in {"init", "complete"} /\ p.file \in Files /\ (p.id = 0 => p.todo = {})
  BY DEF PageOK
<1>3. \A i \in Chunks : p.waits[i] = None
  BY <1>2 DEF PageOK
<1> HIDE DEF d
<1>4. PageOK(d)
  BY <1>1, <1>2, <1>3 DEF PageOK
<1> QED
  BY <1>1, <1>4 DEF d

LEMMA ClosedOK ==
  ASSUME NEW p, PageOK(p), p.phase # "new"
  PROVE  LET c == [p EXCEPT !.phase = "closed", !.call = None, !.waits = [i \in Chunks |-> None]] IN
         /\ PageOK(c) /\ c.file = p.file /\ c.id = p.id
         /\ c.phase = "closed" /\ c.call = None /\ \A i \in Chunks : c.waits[i] = None
<1> DEFINE c == [p EXCEPT !.phase = "closed", !.call = None, !.waits = [i \in Chunks |-> None]]
<1>1. /\ c \in Page /\ c.phase = "closed" /\ c.call = None
      /\ c.file = p.file /\ c.id = p.id /\ c.todo = p.todo
      /\ \A i \in Chunks : c.waits[i] = None
  BY DEF PageOK, Page
<1>2. p.file \in Files /\ (p.id = 0 => p.todo = {})
  BY DEF PageOK
<1> HIDE DEF c
<1>3. PageOK(c)
  BY <1>1, <1>2 DEF PageOK
<1> QED
  BY <1>1, <1>3 DEF c

LEMMA ChunkStoredOK ==
  ASSUME NEW p, PageOK(p), NEW i \in Chunks, p.waits[i] # None
  PROVE  LET c == ChunkStored(p, i) IN
         /\ PageOK(c) /\ c.file = p.file /\ c.id = p.id /\ c.phase = p.phase /\ c.call = p.call
         /\ c.todo = p.todo \ {i}
         /\ c.waits[i] = None /\ \A j \in Chunks \ {i} : c.waits[j] = p.waits[j]
<1> DEFINE c == ChunkStored(p, i)
<1>1. /\ c \in Page /\ c.phase = p.phase /\ c.call = p.call /\ c.tries = p.tries
      /\ c.file = p.file /\ c.id = p.id /\ c.todo = p.todo \ {i} /\ c.round = p.round
      /\ c.waits[i] = None /\ \A j \in Chunks \ {i} : c.waits[j] = p.waits[j]
  BY DEF PageOK, Page, ChunkStored
<1>2. p.phase \in {"upload", "failed"}
  BY DEF PageOK
<1> HIDE DEF c
<1>3. PageOK(c)
  BY <1>1, <1>2 DEF PageOK
<1> QED
  BY <1>1, <1>3 DEF c

LEMMA ChunkFailedOK ==
  ASSUME NEW p, PageOK(p), NEW i \in Chunks, p.waits[i] # None
  PROVE  LET c == ChunkFailed(p, i) IN
         /\ PageOK(c) /\ c.file = p.file /\ c.id = p.id /\ c.call = p.call
         /\ c.phase \in {p.phase, "failed"} /\ c.todo = p.todo
         /\ c.waits[i] = None /\ \A j \in Chunks \ {i} : c.waits[j] = p.waits[j]
<1> DEFINE a == [p EXCEPT !.tries[i] = @ + 1, !.waits[i] = None]
<1> DEFINE b == [a EXCEPT !.phase = "failed"]
<1>1. /\ p \in Page /\ MaxRetries \in Nat /\ p.tries[i] \in 0 .. MaxRetries /\ p.tries[i] < MaxRetries
      /\ p.phase \in {"upload", "failed"}
  BY UploadAssumption DEF PageOK, Page
<1> DEFINE t == [p.tries EXCEPT ![i] = @ + 1]
<1> DEFINE w == [p.waits EXCEPT ![i] = None]
<1>a. /\ t \in [Chunks -> 0 .. MaxRetries] /\ w \in [Chunks -> Reqs \cup {None}]
      /\ w[i] = None /\ \A j \in Chunks \ {i} : w[j] = p.waits[j] /\ t[j] = p.tries[j]
  <2>1. p.tries[i] + 1 \in 0 .. MaxRetries
    BY <1>1
  <2>2. p.tries \in [Chunks -> 0 .. MaxRetries] /\ p.waits \in [Chunks -> Reqs \cup {None}]
    BY <1>1 DEF Page
  <2> QED
    BY <2>1, <2>2
<1>b. a = [p EXCEPT !.tries = t, !.waits = w]
  BY <1>1 DEF Page
<1> HIDE DEF t, w
<1>2. /\ a \in Page /\ a.phase = p.phase /\ a.call = p.call /\ a.file = p.file /\ a.id = p.id
      /\ a.todo = p.todo /\ a.waits[i] = None /\ \A j \in Chunks \ {i} : a.waits[j] = p.waits[j]
      /\ \A j \in Chunks \ {i} : a.tries[j] = p.tries[j]
  BY <1>1, <1>a, <1>b DEF Page
<1>3. /\ b \in Page /\ b.phase = "failed" /\ b.call = p.call /\ b.file = p.file /\ b.id = p.id
      /\ b.todo = p.todo /\ b.waits = a.waits /\ b.tries = a.tries
  BY <1>2 DEF Page
<1>4. ChunkFailed(p, i) \in {a, b}
  BY DEF ChunkFailed
<1> HIDE DEF a, b
<1>5. PageOK(a)
  BY <1>1, <1>2 DEF PageOK
<1>6. PageOK(b)
  BY <1>1, <1>2, <1>3 DEF PageOK
<1> QED
  BY <1>2, <1>3, <1>4, <1>5, <1>6

LEMMA InitialisedOK ==
  ASSUME NEW p, PageOK(p), p.phase = "init", NEW st \in chunkUploadState
  PROVE  LET c == Initialised(p, st) IN
         /\ PageOK(c) /\ c.file = p.file /\ c.id = st.id /\ c.phase = "upload" /\ c.call = None
         /\ c.todo = Indices(Size[p.file]) \ st.received /\ c.waits = p.waits
<1> DEFINE c == Initialised(p, st)
<1>1. p \in Page /\ p.file \in Files /\ st.id \in Ids \ {0} /\ \A i \in Chunks : p.waits[i] = None
  BY DEF PageOK, chunkUploadState
<1>2. Indices(Size[p.file]) \subseteq Chunks
  BY <1>1, FileChunks
<1>3. /\ c \in Page /\ c.phase = "upload" /\ c.call = None /\ c.file = p.file /\ c.id = st.id
      /\ c.todo = Indices(Size[p.file]) \ st.received /\ c.waits = p.waits
  BY <1>1, <1>2 DEF Page, Initialised
<1> HIDE DEF c
<1>4. PageOK(c)
  BY <1>1, <1>3 DEF PageOK
<1> QED
  BY <1>3, <1>4 DEF c

LEMMA ConflictedOK ==
  ASSUME NEW p, PageOK(p), p.phase = "complete", NEW M \in SUBSET Chunks
  PROVE  LET c == Conflicted(p, M) IN
         /\ PageOK(c) /\ c.file = p.file /\ c.id = p.id /\ c.phase = "upload" /\ c.call = None
         /\ c.todo = M /\ c.waits = p.waits
<1> DEFINE c == Conflicted(p, M)
<1>1. p \in Page /\ p.file \in Files /\ p.id # 0 /\ p.round \in 0 .. 1 /\ \A i \in Chunks : p.waits[i] = None
  BY DEF PageOK, Page
<1> DEFINE t == [j \in Chunks |-> 0]
<1> DEFINE n == p.round + 1
<1>2. t \in [Chunks -> 0 .. MaxRetries] /\ n \in 0 .. 2
  BY <1>1, UploadAssumption
<1>a. c = [p EXCEPT !.phase = "upload", !.call = None, !.todo = M, !.tries = t, !.round = n]
  BY <1>1 DEF Page, Conflicted
<1> HIDE DEF t, n
<1>3. /\ c \in Page /\ c.phase = "upload" /\ c.call = None /\ c.file = p.file /\ c.id = p.id
      /\ c.todo = M /\ c.waits = p.waits
  BY <1>1, <1>2, <1>a DEF Page
<1> HIDE DEF c
<1>4. PageOK(c)
  BY <1>1, <1>3 DEF PageOK
<1> QED
  BY <1>3, <1>4 DEF c

LEMMA AskingOK ==
  ASSUME NEW p, PageOK(p), NEW i \in Chunks, NEW r \in Reqs,
         p.phase \in {"upload", "failed"}, i \in p.todo, p.tries[i] < MaxRetries
  PROVE  LET c == [p EXCEPT !.waits[i] = r] IN
         /\ PageOK(c) /\ c.file = p.file /\ c.id = p.id /\ c.phase = p.phase /\ c.call = p.call
         /\ c.todo = p.todo
         /\ c.waits[i] = r /\ \A j \in Chunks \ {i} : c.waits[j] = p.waits[j]
<1> DEFINE c == [p EXCEPT !.waits[i] = r]
<1>1. /\ c \in Page /\ c.phase = p.phase /\ c.call = p.call /\ c.tries = p.tries
      /\ c.file = p.file /\ c.id = p.id /\ c.todo = p.todo /\ c.round = p.round
      /\ c.waits[i] = r /\ \A j \in Chunks \ {i} : c.waits[j] = p.waits[j]
  BY DEF PageOK, Page
<1> HIDE DEF c
<1>2. PageOK(c)
  BY <1>1 DEF PageOK
<1> QED
  BY <1>1, <1>2 DEF c

LEMMA CompletingOK ==
  ASSUME NEW p, PageOK(p), NEW r \in Reqs, p.phase = "upload", p.todo = {}, p.round < 2
  PROVE  LET c == [p EXCEPT !.phase = "complete", !.call = r] IN
         /\ PageOK(c) /\ c.file = p.file /\ c.id = p.id /\ c.phase = "complete" /\ c.call = r
         /\ c.waits = p.waits
<1> DEFINE c == [p EXCEPT !.phase = "complete", !.call = r]
<1>1. None \notin Files \cup Reqs
  BY UploadAssumption
<1>2. /\ c \in Page /\ c.phase = "complete" /\ c.call = r
      /\ c.file = p.file /\ c.id = p.id /\ c.todo = p.todo /\ c.round = p.round /\ c.waits = p.waits
  BY DEF PageOK, Page
<1>3. p.file \in Files /\ p.id # 0 /\ \A i \in Chunks : p.waits[i] = None
  BY DEF PageOK
<1> HIDE DEF c
<1>4. PageOK(c)
  BY <1>1, <1>2, <1>3 DEF PageOK
<1> QED
  BY <1>2, <1>4 DEF c

LEMMA GaveUpOK ==
  ASSUME NEW p, PageOK(p), p.phase = "upload"
  PROVE  /\ PageOK(Failed(p))
         /\ Failed(p).file = p.file /\ Failed(p).id = p.id /\ Failed(p).waits = p.waits
         /\ Failed(p).phase = "failed" /\ Failed(p).call = None
<1>1. /\ Failed(p) \in Page /\ Failed(p).phase = "failed" /\ Failed(p).call = None
      /\ Failed(p).file = p.file /\ Failed(p).id = p.id /\ Failed(p).waits = p.waits
      /\ Failed(p).todo = p.todo /\ Failed(p).tries = p.tries
  BY DEF PageOK, Page, Failed
<1> QED
  BY <1>1 DEF PageOK
-----------------------------------------------------------------------------
(***************************************************************************)
(* What a step does to requests and pages: it moves one request along its  *)
(* handler, answers it, sends it, or changes one page only.                *)
(***************************************************************************)

LEMMA Shapes ==
  /\ \A q : q \in Handled <=> RequestOK(q)
  /\ \A p : p \in Shown <=> PageOK(p)
BY DEF Handled, Shown, RequestOK, PageOK

LEMMA IdleHandled == Idle \in Handled /\ Idle.op = None /\ Idle.pc = "idle" /\ Idle.st = None
<1>1. None \notin Ops
  BY NoneAssumption
<1>2. Idle \in Request
  BY DEF Idle, Request, Empty, Ids
<1>3. Idle.pc \in PcOf(Idle.op)
  BY <1>1 DEF Idle, PcOf, Ops
<1> QED
  BY <1>1, <1>2, <1>3 DEF Handled, RequestOK, Idle, Ops

\* The names of the operations and of the points are what they are.
LEMMA Named ==
  /\ None \notin Ops /\ None # "init" /\ None # "chunk" /\ None # "complete" /\ None # "abort"
  /\ \A q \in Handled : q.op = None <=> q.pc = "idle"
  /\ \A q \in Handled : q.op \in Ops \cup {None}
  /\ \A q \in Handled : q.op = "init" => q.pc \in {"read", "tmp", "rename"}
  /\ \A q \in Handled : q.op = "chunk" =>
       q.pc \in {"read", "segment lock", "open", "copy", "state lock", "tmp", "rename"}
  /\ \A q \in Handled : q.op = "complete" =>
       q.pc \in {"read", "create", "append", "stat", "check", "clean"}
  /\ \A q \in Handled : q.op = "abort" => q.pc \in {"read", "clean"}
<1>1. None \notin Ops
  BY NoneAssumption
<1>2. \A q \in Handled : q.op \in Ops \cup {None} /\ q.pc \in PcOf(q.op)
  BY DEF Handled, RequestOK, Request
<1> QED
  BY <1>1, <1>2 DEF PcOf, Ops

Kin(q, p) == q.op = p.op /\ q.session = p.session /\ q.id = p.id /\ q.index = p.index

\* A request that moves along keeps what it was sent with, its page is as it was.
LEMMA MoveKeeps ==
  ASSUME Requests, Pages, Owned, NEW r \in Reqs, NEW q \in Handled,
         req' = [req EXCEPT ![r] = q], page' = page, Kin(q, req[r]),
         q.op = "init" /\ q.pc # "read" => q.st.size = Size[FileOf(req[r])],
         q.op = "chunk" /\ q.pc # "read" => q.index \in Indices(Size[FileOf(req[r])])
  PROVE  Requests' /\ Pages' /\ Owned'
<1>1. /\ req' \in [Reqs -> Handled] /\ req'[r] = q
      /\ \A x \in Reqs \ {r} : req'[x] = req[x]
  BY DEF Requests
<1>2. \A x \in Reqs : /\ req'[x].op = req[x].op /\ req'[x].session = req[x].session
                      /\ req'[x].id = req[x].id /\ req'[x].index = req[x].index
  BY <1>1 DEF Kin
<1>3. ASSUME NEW s \in Sessions
      PROVE  AwaitedOK(s)'
  <2>1. AwaitedOK(s) /\ page[s] \in Page
    BY DEF Pages, Shown
  <2>2. page[s].call \in Reqs \cup {None} /\ \A i \in Chunks : page[s].waits[i] \in Reqs \cup {None}
    BY <2>1 DEF Page
  <2> QED
    BY <1>2, <2>1, <2>2 DEF AwaitedOK
<1>4. ASSUME NEW x \in Reqs
      PROVE  OwnedOK(x)'
  <2>1. OwnedOK(x)
    BY DEF Owned
  <2>2. CASE x = r
    BY <1>1, <2>1, <2>2 DEF OwnedOK, Kin, FileOf
  <2>3. CASE x # r
    BY <1>1, <2>1, <2>3 DEF OwnedOK
  <2> QED
    BY <2>2, <2>3
<1> QED
  BY <1>1, <1>3, <1>4 DEF Requests, Pages, Owned

\* A page keeps its file, and the id it has.
Evolves(p, q) ==
  /\ p.phase # "new" => q.phase # "new" /\ q.file = p.file
  /\ p.id # 0 => q.id = p.id

LEMMA EvolvedOwned ==
  ASSUME Requests, Owned, page \in [Sessions -> Shown], NEW x \in Reqs, NEW p,
         \A s \in Sessions : \/ page'[s] = page[s]
                             \/ page'[s] = p /\ Evolves(page[s], p),
         req'[x] = req[x]
  PROVE  OwnedOK(x)'
<1>1. OwnedOK(x)
  BY DEF Owned
<1>2. CASE req[x].op = None
  BY <1>2, Named DEF OwnedOK
<1>3. CASE req[x].op # None
  <2> DEFINE s == req[x].session
  <2>1. s \in Sessions
    BY <1>3 DEF Requests, Handled, RequestOK
  <2>2. page'[s].phase # "new" /\ page'[s].file = page[s].file /\ (page[s].id # 0 => page'[s].id = page[s].id)
    BY <1>1, <1>3, <2>1 DEF OwnedOK, Evolves
  <2> QED
    BY <1>1, <1>3, <2>2 DEF OwnedOK
<1> QED
  BY <1>2, <1>3

\* A request that ends is forgotten by the page that waits for it.
LEMMA AnswerKeeps ==
  ASSUME Requests, Pages, Owned, NEW r \in Reqs, NEW p, Answer(r, p), req[r].op # None,
         req[r].op \in {"init", "complete"} /\ PageOf(r).call = r =>
           p \in Shown /\ Evolves(PageOf(r), p) /\ p.call = None /\ p.waits = PageOf(r).waits,
         req[r].op = "chunk" /\ PageOf(r).waits[req[r].index] = r =>
           /\ p \in Shown /\ Evolves(PageOf(r), p) /\ p.call = PageOf(r).call
           /\ p.waits[req[r].index] = None
           /\ \A j \in Chunks \ {req[r].index} : p.waits[j] = PageOf(r).waits[j]
  PROVE  Requests' /\ Pages' /\ Owned'
<1> DEFINE s == req[r].session
<1> DEFINE i == req[r].index
<1> DEFINE waiting == r \in {page[s].call, page[s].waits[i]}
<1>0. None \notin Reqs
  BY UploadAssumption
<1>1. s \in Sessions /\ i \in Chunks /\ req[r].op \in Ops
  BY Named DEF Requests, Handled, RequestOK
<1>2. /\ req' \in [Reqs -> Handled] /\ req'[r] = Idle
      /\ \A x \in Reqs \ {r} : req'[x] = req[x]
  BY IdleHandled DEF Requests, Answer
<1>3. \A t \in Sessions : page[t] \in Shown /\ page[t] \in Page /\ AwaitedOK(t)
                          /\ page[t].call \in Reqs \cup {None}
                          /\ page[t].waits \in [Chunks -> Reqs \cup {None}]
  BY DEF Pages, Shown, Page
<1>4. ASSUME waiting
      PROVE  \/ req[r].op \in {"init", "complete"} /\ page[s].call = r
             \/ req[r].op = "chunk" /\ page[s].waits[i] = r
  BY <1>0, <1>1, <1>3, <1>4 DEF AwaitedOK
<1>5. waiting => p \in Shown /\ Evolves(page[s], p)
  BY <1>4 DEF PageOf
<1>6. /\ page' \in [Sessions -> Shown]
      /\ \A t \in Sessions \ {s} : page'[t] = page[t]
      /\ page'[s] = IF waiting THEN p ELSE page[s]
  BY <1>1, <1>5 DEF Answer, Pages
<1> HIDE DEF waiting
<1>7. ASSUME NEW t \in Sessions
      PROVE  AwaitedOK(t)'
  <2>1. AwaitedOK(t) /\ page[t].call \in Reqs \cup {None} /\ page[t].waits \in [Chunks -> Reqs \cup {None}]
    BY <1>3
  <2>2. CASE t # s
    <3>1. page'[t] = page[t] /\ page[t].call # r /\ \A j \in Chunks : page[t].waits[j] # r
      BY <1>0, <1>6, <2>1, <2>2 DEF AwaitedOK
    <3> QED
      BY <1>2, <2>1, <3>1 DEF AwaitedOK
  <2>3. CASE t = s /\ ~waiting
    <3>1. page[s].call # r /\ page[s].waits[i] # r
      BY <2>3 DEF waiting
    <3>a. ASSUME NEW j \in Chunks
          PROVE  page[t].waits[j] # r
      <4>1. page[t].waits[j] = r => i = j
        BY <1>0, <2>1 DEF AwaitedOK
      <4> QED
        BY <2>3, <3>1, <4>1
    <3>2. page'[t] = page[t] /\ page[t].call # r /\ \A j \in Chunks : page[t].waits[j] # r
      BY <1>6, <2>3, <3>1, <3>a
    <3> QED
      BY <1>2, <2>1, <3>2 DEF AwaitedOK
  <2>4. CASE t = s /\ waiting /\ req[r].op \in {"init", "complete"}
    <3>1. page[s].call = r
      BY <1>4, <2>4
    <3>2. page'[t] = p /\ p.call = None /\ p.waits = page[t].waits
      BY <1>6, <2>4, <3>1 DEF PageOf
    <3>3. \A j \in Chunks : page[t].waits[j] # r
      BY <1>0, <2>1, <2>4 DEF AwaitedOK
    <3> QED
      BY <1>2, <2>1, <3>2, <3>3 DEF AwaitedOK
  <2>5. CASE t = s /\ waiting /\ req[r].op = "chunk"
    <3>1. page[s].waits[i] = r
      BY <1>4, <2>5
    <3>2. /\ page'[t] = p /\ p.call = page[t].call /\ p.waits[i] = None
          /\ \A j \in Chunks \ {i} : p.waits[j] = page[t].waits[j]
      BY <1>6, <2>5, <3>1 DEF PageOf
    <3>3. page[t].call = None
      <4>1. PageOK(page[t]) /\ page[t].waits[i] # None
        BY <1>0, <1>3, <2>5, <3>1, Shapes
      <4> QED
        BY <1>1, <4>1 DEF PageOK
    <3>4. \A j \in Chunks \ {i} : page[t].waits[j] # r
      BY <1>0, <2>1, <2>5 DEF AwaitedOK
    <3> QED
      BY <1>2, <2>1, <3>2, <3>3, <3>4 DEF AwaitedOK
  <2> QED
    BY <1>4, <2>2, <2>3, <2>4, <2>5
<1>8. ASSUME NEW x \in Reqs
      PROVE  OwnedOK(x)'
  <2>1. CASE x = r
    BY <1>2, <2>1, IdleHandled, Named DEF OwnedOK
  <2>2. CASE x # r
    <3>1. \A t \in Sessions : page'[t] = page[t] \/ (page'[t] = p /\ Evolves(page[t], p))
      BY <1>5, <1>6
    <3> HIDE DEF s
    <3> QED
      BY <1>2, <2>2, <3>1, EvolvedOwned DEF Pages
  <2> QED
    BY <2>1, <2>2
<1> QED
  BY <1>2, <1>6, <1>7, <1>8 DEF Requests, Pages, Owned

\* A page that changes without the server, gives up some of what it waits for.
LEMMA PageKeeps ==
  ASSUME Requests, Pages, Owned, NEW s \in Sessions, NEW p \in Shown,
         page' = [page EXCEPT ![s] = p], req' = req, Evolves(page[s], p),
         p.call = None \/ (p.call = page[s].call /\ p.phase = page[s].phase),
         \A i \in Chunks : p.waits[i] \in {None, page[s].waits[i]}
  PROVE  Requests' /\ Pages' /\ Owned'
<1>1. /\ page' \in [Sessions -> Shown] /\ page'[s] = p
      /\ \A t \in Sessions \ {s} : page'[t] = page[t]
  BY DEF Pages
<1>2. ASSUME NEW t \in Sessions
      PROVE  AwaitedOK(t)'
  <2>1. AwaitedOK(t)
    BY DEF Pages
  <2> QED
    BY <1>1, <2>1 DEF AwaitedOK
<1>3. ASSUME NEW x \in Reqs
      PROVE  OwnedOK(x)'
  <2>1. \A t \in Sessions : page'[t] = page[t] \/ (page'[t] = p /\ Evolves(page[t], p))
    BY <1>1
  <2> QED
    BY <2>1, EvolvedOwned DEF Pages
<1> QED
  BY <1>1, <1>2, <1>3 DEF Requests, Pages, Owned

\* What a page, or an administrator of the abort, sends.
Sent(op, s, i) == [Idle EXCEPT !.op = op, !.session = s, !.id = page[s].id, !.index = i, !.pc = "read"]

LEMMA SentHandled ==
  ASSUME Pages, NEW op \in Ops, NEW s \in Sessions, NEW i \in Chunks
  PROVE  /\ Sent(op, s, i) \in Handled
         /\ Sent(op, s, i).op = op /\ Sent(op, s, i).session = s /\ Sent(op, s, i).id = page[s].id
         /\ Sent(op, s, i).index = i /\ Sent(op, s, i).pc = "read" /\ Sent(op, s, i).st = None
<1> DEFINE q == Sent(op, s, i)
<1>1. page[s].id \in Ids
  BY DEF Pages, Shown, Page
<1>2. Idle \in Request /\ Idle.n = 0 /\ Idle.written = 0 /\ Idle.stream = Empty /\ Idle.st = None
  BY IdleHandled DEF Handled, Idle
<1>3. /\ q \in Request /\ q.op = op /\ q.session = s /\ q.id = page[s].id /\ q.index = i
      /\ q.pc = "read" /\ q.st = None /\ q.n = 0 /\ q.written = 0 /\ q.stream = Empty
  BY <1>1, <1>2 DEF Request, Sent
<1>4. q.pc \in PcOf(q.op)
  BY <1>3, Named DEF PcOf, Ops
<1> HIDE DEF q
<1>5. q \in Handled
  BY <1>3, <1>4 DEF Handled, RequestOK
<1> QED
  BY <1>3, <1>5 DEF q

\* What page s is, when it has sent r, but for what it was.
Expecting(p, s, r, op, i) ==
  /\ p.id = page[s].id /\ p.phase # "new"
  /\ op # "init" => page[s].id # 0
  /\ \/ p.call = None
     \/ p.call = page[s].call /\ p.phase = page[s].phase
     \/ op = "init" /\ p.call = r /\ p.phase = "init"
     \/ op = "complete" /\ p.call = r /\ p.phase = "complete"
  /\ \A j \in Chunks : p.waits[j] = page[s].waits[j] \/ (op = "chunk" /\ j = i /\ p.waits[j] = r)

\* A request that is sent, by a page that waits for it from now on or does not wait.
LEMMA SendKeeps ==
  ASSUME Requests, Pages, Owned, NEW r \in Free, NEW op \in Ops, NEW s \in Sessions,
         NEW i \in Chunks, NEW p \in Shown, page' = [page EXCEPT ![s] = p], Send(r, op, s, i),
         Evolves(page[s], p), Expecting(p, s, r, op, i)
  PROVE  Requests' /\ Pages' /\ Owned'
<1> DEFINE q == Sent(op, s, i)
<1>0. None \notin Reqs /\ r \in Reqs
  BY UploadAssumption DEF Free
<1>1. /\ q \in Handled /\ q.op = op /\ q.session = s /\ q.id = page[s].id /\ q.index = i
      /\ q.pc = "read" /\ q.st = None
  BY SentHandled
<1>2. req' = [req EXCEPT ![r] = q]
  BY DEF Send, Sent
<1> HIDE DEF q
<1>3. /\ req' \in [Reqs -> Handled] /\ req'[r] = q
      /\ \A x \in Reqs \ {r} : req'[x] = req[x]
  BY <1>0, <1>1, <1>2 DEF Requests
<1>4. /\ page' \in [Sessions -> Shown] /\ page'[s] = p
      /\ \A t \in Sessions \ {s} : page'[t] = page[t]
  BY DEF Pages
<1>5. req[r].op = None
  BY <1>0, Named DEF Requests, Free
<1>6. ASSUME NEW t \in Sessions
      PROVE  AwaitedOK(t)'
  <2>1. /\ AwaitedOK(t) /\ page[t].call \in Reqs \cup {None}
        /\ page[t].waits \in [Chunks -> Reqs \cup {None}]
    BY DEF Pages, Shown, Page
  <2>a. None # "init" /\ None # "complete" /\ None # "chunk"
    BY Named
  <2>b. page[t].call # r
    BY <1>0, <1>5, <2>1, <2>a DEF AwaitedOK
  <2>c. \A j \in Chunks : page[t].waits[j] # r
    BY <1>0, <1>5, <2>1, <2>a DEF AwaitedOK
  <2>2. page[t].call # r /\ \A j \in Chunks : page[t].waits[j] # r
    BY <2>b, <2>c
  <2>3. CASE t # s
    BY <1>3, <1>4, <2>1, <2>2, <2>3 DEF AwaitedOK
  <2>4. CASE t = s
    <3>1. page'[t] = p
      BY <1>4, <2>4
    <3>2. p.call # None =>
            /\ req'[p.call].session = s
            /\ req'[p.call].op = IF p.phase = "init" THEN "init" ELSE "complete"
      BY <1>1, <1>3, <2>1, <2>2, <2>4 DEF AwaitedOK, Expecting
    <3>3. ASSUME NEW j \in Chunks, p.waits[j] # None
          PROVE  req'[p.waits[j]].session = s /\ req'[p.waits[j]].op = "chunk" /\ req'[p.waits[j]].index = j
      BY <1>1, <1>3, <2>1, <2>2, <2>4, <3>3 DEF AwaitedOK, Expecting
    <3> QED
      BY <2>4, <3>1, <3>2, <3>3 DEF AwaitedOK
  <2> QED
    BY <2>3, <2>4
<1>7. ASSUME NEW x \in Reqs
      PROVE  OwnedOK(x)'
  <2>1. CASE x = r
    BY <1>1, <1>3, <1>4, <2>1, Named DEF OwnedOK, Expecting
  <2>2. CASE x # r
    <3>1. \A t \in Sessions : page'[t] = page[t] \/ (page'[t] = p /\ Evolves(page[t], p))
      BY <1>4
    <3> QED
      BY <1>3, <2>2, <3>1, EvolvedOwned DEF Pages
  <2> QED
    BY <2>1, <2>2
<1> QED
  BY <1>3, <1>4, <1>6, <1>7 DEF Requests, Pages, Owned

\* An assembly that fails ends its request, and takes the file away from all others.
LEMMA FailKeeps ==
  ASSUME Requests, Pages, Owned, NEW r \in Reqs, AssembleFails(r), req[r].op = "complete"
  PROVE  /\ Requests' /\ Pages' /\ Owned'
         /\ req'[r] = Idle
         /\ \A x \in Reqs \ {r} : /\ Kin(req'[x], req[x])
                                  /\ req'[x].pc = req[x].pc /\ req'[x].st = req[x].st
<1> DEFINE s == req[r].session
<1> DEFINE waiting == page[s].call = r
<1> DEFINE p == IF waiting THEN Failed(page[s]) ELSE page[s]
<1>0. None \notin Reqs
  BY UploadAssumption
<1>1. s \in Sessions /\ page[s] \in Shown /\ PageOK(page[s])
  BY Named, Shapes DEF Requests, Handled, RequestOK, Pages
<1>2. /\ p \in Shown /\ Evolves(page[s], p) /\ p.waits = page[s].waits
      /\ p.call # r
  BY <1>0, <1>1, FailedOK, Shapes DEF Evolves
<1>3. /\ page' \in [Sessions -> Shown] /\ page'[s] = p
      /\ \A t \in Sessions \ {s} : page'[t] = page[t]
  BY <1>1, <1>2 DEF AssembleFails, Pages
<1>4. p.call = None \/ p = page[s]
  BY <1>1, <1>0, FailedOK
<1> HIDE DEF p, waiting
<1>5. ASSUME NEW x \in Reqs \ {r}
      PROVE  /\ req'[x] \in Handled /\ Kin(req'[x], req[x])
             /\ req'[x].pc = req[x].pc /\ req'[x].st = req[x].st
  <2> DEFINE q == [req[x] EXCEPT !.linked = FALSE]
  <2>1. req[x] \in Request /\ RequestOK(req[x])
    BY DEF Requests, Handled
  <2>2. /\ q \in Request /\ Kin(q, req[x]) /\ q.pc = req[x].pc /\ q.st = req[x].st
        /\ q.n = req[x].n /\ q.written = req[x].written /\ q.stream = req[x].stream
    BY <2>1 DEF Request, Kin
  <2>3. req'[x] = q
    BY DEF AssembleFails
  <2> HIDE DEF q
  <2>4. q \in Handled
    BY <2>1, <2>2 DEF Handled, RequestOK, Kin
  <2> QED
    BY <2>2, <2>3, <2>4
<1>6. req'[r] = Idle
  BY DEF AssembleFails
<1>7. req' \in [Reqs -> Handled]
  <2>1. req' = [x \in Reqs |-> req'[x]]
    BY DEF AssembleFails
  <2> QED
    BY <1>5, <1>6, <2>1, IdleHandled
<1>8. ASSUME NEW t \in Sessions
      PROVE  AwaitedOK(t)'
  <2>1. /\ AwaitedOK(t) /\ page[t].call \in Reqs \cup {None}
        /\ page[t].waits \in [Chunks -> Reqs \cup {None}]
    BY DEF Pages, Shown, Page
  <2>2. \A j \in Chunks : page[t].waits[j] # r
    BY <1>0, <2>1 DEF AwaitedOK
  <2>3. t # s => page[t].call # r
    BY <1>0, <2>1 DEF AwaitedOK
  <2>4. page'[t].waits = page[t].waits
    BY <1>2, <1>3
  <2>5. page'[t].call = None \/ page'[t] = page[t]
    BY <1>3, <1>4
  <2>6. page'[t].call # r
    BY <1>2, <1>3, <2>3
  <2> QED
    BY <1>5, <2>1, <2>2, <2>4, <2>5, <2>6 DEF AwaitedOK, Kin
<1>9. ASSUME NEW x \in Reqs
      PROVE  OwnedOK(x)'
  <2>1. CASE x = r
    BY <1>6, <2>1, IdleHandled, Named DEF OwnedOK
  <2>2. CASE x # r /\ req[x].op = None
    BY <1>5, <2>2, Named DEF OwnedOK, Kin
  <2>3. CASE x # r /\ req[x].op # None
    <3> DEFINE t == req[x].session
    <3>1. t \in Sessions /\ OwnedOK(x)
      BY <2>3 DEF Requests, Handled, RequestOK, Owned
    <3>2. page'[t] = page[t] \/ (page'[t] = p /\ Evolves(page[t], p))
      BY <1>2, <1>3, <3>1
    <3>3. page'[t].phase # "new" /\ page'[t].file = page[t].file /\ (page[t].id # 0 => page'[t].id = page[t].id)
      BY <2>3, <3>1, <3>2 DEF OwnedOK, Evolves
    <3> QED
      BY <1>5, <2>3, <3>1, <3>3 DEF OwnedOK, Kin
  <2> QED
    BY <2>1, <2>2, <2>3
<1> QED
  BY <1>3, <1>5, <1>6, <1>7, <1>8, <1>9 DEF Requests, Pages, Owned

\* What a crash makes of a page.
Crashed(p) ==
  LET hit == {i \in Chunks : p.waits[i] # None}
      again == [p EXCEPT !.waits = [i \in Chunks |-> None],
                         !.tries = [i \in Chunks |-> p.tries[i] + (IF i \in hit THEN 1 ELSE 0)]]
  IN  IF p.call # None THEN Failed(p)
      ELSE IF \E i \in hit : again.tries[i] = MaxRetries THEN Failed(again)
      ELSE again

LEMMA CrashedOK ==
  ASSUME NEW p, PageOK(p)
  PROVE  LET c == Crashed(p) IN
         /\ PageOK(c) /\ Evolves(p, c) /\ c.id = p.id /\ c.file = p.file /\ c.todo = p.todo
         /\ c.phase \in {p.phase, "failed"} /\ (p.phase \in {"new", "done", "closed"} => c.phase = p.phase)
         /\ c.call = None /\ \A i \in Chunks : c.waits[i] = None
<1> DEFINE hit == {i \in Chunks : p.waits[i] # None}
<1> DEFINE t == [i \in Chunks |-> p.tries[i] + (IF i \in hit THEN 1 ELSE 0)]
<1> DEFINE w == [i \in Chunks |-> None]
<1> DEFINE a == [p EXCEPT !.waits = w, !.tries = t]
<1>1. p \in Page /\ p.tries \in [Chunks -> 0 .. MaxRetries] /\ MaxRetries \in Nat
  BY UploadAssumption DEF PageOK, Page
<1>2. \A i \in hit : p.phase \in {"upload", "failed"} /\ p.tries[i] < MaxRetries
  BY DEF PageOK
<1>3. t \in [Chunks -> 0 .. MaxRetries]
  BY <1>1, <1>2
<1>4. p.phase = "new" => a = p
  <2>1. SUFFICES ASSUME p.phase = "new" PROVE a = p
    OBVIOUS
  <2>2. p = NewPage
    BY <2>1 DEF PageOK
  <2>3. p.waits = w /\ hit = {}
    BY <2>2 DEF NewPage
  <2>4. t = p.tries
    BY <1>1, <2>3
  <2> QED
    BY <1>1, <2>3, <2>4 DEF Page
<1> HIDE DEF t
<1>5. /\ a \in Page /\ a.phase = p.phase /\ a.call = p.call /\ a.file = p.file /\ a.id = p.id
      /\ a.todo = p.todo /\ a.round = p.round /\ \A i \in Chunks : a.waits[i] = None
  BY <1>1, <1>3 DEF Page
<1>6. Crashed(p) = IF p.call # None THEN Failed(p)
                   ELSE IF \E i \in hit : a.tries[i] = MaxRetries THEN Failed(a) ELSE a
  BY DEF Crashed, t
<1> HIDE DEF a
<1>7. CASE p.call # None
  <2>1. p.phase \in {"init", "complete"}
    BY <1>7 DEF PageOK
  <2>2. \A i \in Chunks : p.waits[i] = None
    BY <2>1 DEF PageOK
  <2> QED
    BY <1>6, <1>7, <2>1, <2>2, FailedOK DEF Evolves
<1>8. CASE p.call = None /\ \E i \in hit : a.tries[i] = MaxRetries
  <2> DEFINE c == Failed(a)
  <2>1. p.phase \in {"upload", "failed"}
    BY <1>2, <1>8
  <2>2. /\ c \in Page /\ c.phase = "failed" /\ c.call = None /\ c.file = p.file /\ c.id = p.id
        /\ c.todo = p.todo /\ \A i \in Chunks : c.waits[i] = None
    BY <1>5 DEF Failed, Page
  <2>3. p.file \in Files /\ (p.id = 0 => p.todo = {})
    BY <2>1 DEF PageOK
  <2>4. Crashed(p) = c
    BY <1>6, <1>8
  <2> HIDE DEF c
  <2>5. PageOK(c)
    BY <2>2, <2>3 DEF PageOK
  <2> QED
    BY <2>1, <2>2, <2>4, <2>5 DEF Evolves
<1>9. CASE p.call = None /\ ~ \E i \in hit : a.tries[i] = MaxRetries
  <2>1. PageOK(a)
    BY <1>4, <1>5 DEF PageOK
  <2>2. Crashed(p) = a
    BY <1>6, <1>9
  <2> QED
    BY <1>5, <1>9, <2>1, <2>2 DEF Evolves
<1> QED
  BY <1>7, <1>8, <1>9

\* After a crash nothing runs, and the pages know that it does not.
LEMMA CrashKeeps ==
  ASSUME Requests, Pages, Owned, Crash
  PROVE  /\ Requests' /\ Pages' /\ Owned'
         /\ \A r \in Reqs : req'[r] = Idle
         /\ \A s \in Sessions : page'[s] = Crashed(page[s])
<1>1. /\ req' \in [Reqs -> Handled] /\ \A r \in Reqs : req'[r] = Idle
  BY IdleHandled DEF Crash
<1>2. page' = [s \in Sessions |-> Crashed(page[s])]
  BY DEF Crash, Crashed
<1>3. \A s \in Sessions : PageOK(page[s])
  BY Shapes DEF Pages
<1>4. \A s \in Sessions :
        /\ page'[s] \in Shown /\ page'[s].call = None /\ \A i \in Chunks : page'[s].waits[i] = None
  BY <1>2, <1>3, CrashedOK, Shapes
<1>5. page' \in [Sessions -> Shown] /\ \A s \in Sessions : AwaitedOK(s)'
  BY <1>2, <1>4 DEF AwaitedOK
<1>6. \A r \in Reqs : OwnedOK(r)'
  BY <1>1, IdleHandled, Named DEF OwnedOK
<1> QED
  BY <1>1, <1>2, <1>5, <1>6 DEF Requests, Pages, Owned
-----------------------------------------------------------------------------
(***************************************************************************)
(* The same in a form that the layers of the invariant share: what becomes *)
(* of the request, of the others, and of the pages.                        *)
(***************************************************************************)

\* One request moves along, to q; no page changes.
Moves(r, q) == q \in Handled /\ req' = [req EXCEPT ![r] = q] /\ page' = page /\ Kin(q, req[r])

\* Nothing about a page gets better without an answer that says so.
Lost(p, c) ==
  /\ c.id = p.id /\ c.file = p.file /\ c.todo = p.todo
  /\ \/ c.phase = p.phase
     \/ p.phase \in {"init", "upload", "complete", "failed"} /\ c.phase \in {"failed", "closed"}

\* One request ends; the others are what they were.
Ends(r) == req'[r] = Idle /\ \A x \in Reqs \ {r} : req'[x] = req[x]

LEMMA MovesOne ==
  ASSUME Requests, NEW r \in Reqs, NEW q, Moves(r, q)
  PROVE  req'[r] = q /\ page' = page /\ \A x \in Reqs \ {r} : req'[x] = req[x]
BY DEF Moves, Requests

\* A step to another point that changes nothing else.
Onward == {"open", "copy", "state lock", "rename", "clean"}

LEMMA Goes ==
  ASSUME Requests, NEW r \in Reqs, NEW t, Goto(r, t), page' = page, req[r].st # None,
         t \in PcOf(req[r].op), t \in Onward
  PROVE  \E q : Moves(r, q) /\ q.pc = t /\ q.st = req[r].st
<1> DEFINE q == [req[r] EXCEPT !.pc = t]
<1>1. req[r] \in Request /\ RequestOK(req[r])
  BY DEF Requests, Handled
<1>2. /\ q \in Request /\ Kin(q, req[r]) /\ q.pc = t /\ q.st = req[r].st /\ q.n = req[r].n
      /\ q.stream = req[r].stream
  BY <1>1 DEF Request, Kin, Onward
<1>3. req' = [req EXCEPT ![r] = q]
  BY DEF Goto
<1> HIDE DEF q
<1>4. q \in Handled
  BY <1>1, <1>2 DEF Handled, RequestOK, Kin, Onward
<1> QED
  BY <1>2, <1>3, <1>4 DEF Moves

LEMMA AnswerEffect ==
  ASSUME Requests, Pages, NEW r \in Reqs, NEW p, Answer(r, p), req[r].op # None
  PROVE  /\ Ends(r)
         /\ \A t \in Sessions :
              \/ page'[t] = page[t]
              \/ /\ t = req[r].session /\ page'[t] = p /\ page[t].phase # "new"
                 /\ \/ req[r].op \in {"init", "complete"} /\ page[t].call = r
                       /\ page[t].phase = (IF req[r].op = "init" THEN "init" ELSE "complete")
                    \/ req[r].op = "chunk" /\ page[t].waits[req[r].index] = r
                       /\ page[t].phase \in {"upload", "failed"}
<1> DEFINE s == req[r].session
<1> DEFINE i == req[r].index
<1>0. None \notin Reqs
  BY UploadAssumption
<1>1. s \in Sessions /\ i \in Chunks
  BY DEF Requests, Handled, RequestOK
<1>2. Ends(r)
  BY DEF Requests, Answer, Ends
<1>3. ASSUME NEW t \in Sessions, page'[t] # page[t]
      PROVE  /\ t = s /\ page'[t] = p /\ page[t].phase # "new"
             /\ \/ req[r].op \in {"init", "complete"} /\ page[t].call = r
                   /\ page[t].phase = (IF req[r].op = "init" THEN "init" ELSE "complete")
                \/ req[r].op = "chunk" /\ page[t].waits[i] = r
                   /\ page[t].phase \in {"upload", "failed"}
  <2>1. t = s /\ page'[t] = p /\ r \in {page[t].call, page[t].waits[i]}
    BY <1>1, <1>3 DEF Answer, Pages
  <2>2. AwaitedOK(t) /\ PageOK(page[t])
    BY Shapes DEF Pages
  <2>3. CASE page[t].call = r
    <3>1. page[t].phase \in {"init", "complete"}
      BY <1>0, <2>2, <2>3 DEF PageOK
    <3> QED
      BY <1>0, <2>1, <2>2, <2>3, <3>1 DEF AwaitedOK
  <2>4. CASE page[t].waits[i] = r
    <3>1. page[t].phase \in {"upload", "failed"}
      BY <1>0, <1>1, <2>2, <2>4 DEF PageOK
    <3> QED
      BY <1>0, <1>1, <2>1, <2>2, <2>4, <3>1 DEF AwaitedOK
  <2> QED
    BY <2>1, <2>3, <2>4
<1> QED
  BY <1>2, <1>3

\* An error ends the request and makes its page fail, or try the chunk again.
LEMMA ErrorKeeps ==
  ASSUME Requests, Pages, Owned, NEW r \in Reqs, AnswerError(r), req[r].op # None
  PROVE  /\ Requests' /\ Pages' /\ Owned'
         /\ Ends(r) /\ \A t \in Sessions : Lost(page[t], page'[t])
<1> DEFINE s == req[r].session
<1> DEFINE i == req[r].index
<1> DEFINE p == IF req[r].op = "chunk" THEN ChunkFailed(page[s], i) ELSE Failed(page[s])
<1>0. None \notin Reqs
  BY UploadAssumption
<1>1. s \in Sessions /\ i \in Chunks /\ PageOK(page[s]) /\ PageOf(r) = page[s]
  BY Shapes DEF Requests, Handled, RequestOK, Pages, PageOf
<1>2. Answer(r, p)
  BY DEF AnswerError, PageOf
<1>3. ASSUME req[r].op \in {"init", "complete"}, page[s].call = r
      PROVE  /\ p \in Shown /\ Evolves(page[s], p) /\ p.call = None /\ p.waits = page[s].waits
             /\ p.id = page[s].id /\ p.file = page[s].file /\ p.todo = page[s].todo /\ p.phase = "failed"
  BY <1>0, <1>1, <1>3, FailedOK, Shapes DEF Evolves
<1>4. ASSUME req[r].op = "chunk", page[s].waits[i] = r
      PROVE  /\ p \in Shown /\ Evolves(page[s], p) /\ p.call = page[s].call
             /\ p.waits[i] = None
             /\ \A j \in Chunks \ {i} : p.waits[j] = page[s].waits[j]
             /\ p.id = page[s].id /\ p.file = page[s].file /\ p.todo = page[s].todo
             /\ p.phase \in {page[s].phase, "failed"}
  <2>1. PageOK(ChunkFailed(page[s], i)) /\ p = ChunkFailed(page[s], i)
    BY <1>0, <1>1, <1>4, ChunkFailedOK
  <2>2. page[s].phase # "new"
    BY <1>0, <1>1, <1>4 DEF PageOK
  <2> HIDE DEF p
  <2>3. p \in Shown
    BY <2>1, Shapes
  <2> QED
    BY <1>0, <1>1, <1>4, <2>1, <2>2, <2>3, ChunkFailedOK DEF Evolves
<1> HIDE DEF p
<1>5. Requests' /\ Pages' /\ Owned'
  BY <1>1, <1>2, <1>3, <1>4, AnswerKeeps
<1>6. Ends(r)
  BY <1>2, AnswerEffect
<1>7. ASSUME NEW t \in Sessions
      PROVE  Lost(page[t], page'[t])
  <2>1. CASE page'[t] = page[t]
    BY <2>1 DEF Lost
  <2>2. CASE page'[t] # page[t]
    <3>1. /\ t = s /\ page'[t] = p
          /\ \/ req[r].op \in {"init", "complete"} /\ page[t].call = r
                /\ page[t].phase \in {"init", "complete"}
             \/ req[r].op = "chunk" /\ page[t].waits[i] = r /\ page[t].phase \in {"upload", "failed"}
      BY <1>2, <2>2, AnswerEffect
    <3> QED
      BY <1>3, <1>4, <3>1 DEF Lost
  <2> QED
    BY <2>1, <2>2
<1> QED
  BY <1>5, <1>6, <1>7

\* A chunk that is stored leaves its page's list.
LEMMA StoredKeeps ==
  ASSUME Requests, Pages, Owned, NEW r \in Reqs, req[r].op = "chunk",
         Answer(r, ChunkStored(PageOf(r), req[r].index))
  PROVE  /\ Requests' /\ Pages' /\ Owned' /\ Ends(r)
         /\ \A t \in Sessions :
              /\ page'[t].phase = page[t].phase /\ page'[t].id = page[t].id
              /\ page'[t].file = page[t].file
              /\ \/ page'[t].todo = page[t].todo
                 \/ t = req[r].session /\ page'[t].todo = page[t].todo \ {req[r].index}
<1> DEFINE s == req[r].session
<1> DEFINE i == req[r].index
<1> DEFINE p == ChunkStored(page[s], i)
<1>0. None \notin Reqs /\ req[r].op # None
  BY UploadAssumption, Named
<1>1. s \in Sessions /\ i \in Chunks /\ PageOK(page[s]) /\ PageOf(r) = page[s]
  BY <1>0, Shapes DEF Requests, Handled, RequestOK, Pages, PageOf
<1>2. Answer(r, p)
  BY DEF PageOf
<1>4. ASSUME page[s].waits[i] = r
      PROVE  /\ p \in Shown /\ Evolves(page[s], p) /\ p.call = page[s].call
             /\ p.waits[i] = None
             /\ \A j \in Chunks \ {i} : p.waits[j] = page[s].waits[j]
             /\ p.id = page[s].id /\ p.file = page[s].file /\ p.todo = page[s].todo \ {i}
             /\ p.phase = page[s].phase
  <2>1. p \in Shown
    BY <1>0, <1>1, <1>4, ChunkStoredOK, Shapes
  <2> QED
    BY <1>0, <1>1, <1>4, <2>1, ChunkStoredOK DEF Evolves
<1> HIDE DEF p
<1>5. Requests' /\ Pages' /\ Owned'
  BY <1>0, <1>1, <1>2, <1>4, AnswerKeeps
<1>6. Ends(r)
  BY <1>0, <1>2, AnswerEffect
<1>7. ASSUME NEW t \in Sessions, page'[t] # page[t]
      PROVE  t = s /\ page'[t] = p /\ page[t].waits[i] = r
  BY <1>0, <1>2, <1>7, AnswerEffect
<1> QED
  BY <1>4, <1>5, <1>6, <1>7
-----------------------------------------------------------------------------
(***************************************************************************)
(* The steps of the handlers, as moves, answers and errors.                *)
(***************************************************************************)

LEMMA HandledRequest ==
  ASSUME Requests, Pages, Owned, NEW r \in Reqs
  PROVE  /\ req[r] \in Request /\ RequestOK(req[r])
         /\ req[r].op # None =>
              /\ req[r].session \in Sessions /\ PageOK(page[req[r].session])
              /\ page[req[r].session].phase # "new" /\ page[req[r].session].file \in Files
BY Shapes DEF Requests, Handled, RequestOK, Pages, Owned, OwnedOK, PageOK

LEMMA InitReadEffect ==
  ASSUME FilesTyped, Requests, Pages, Owned, NEW r \in Reqs, InitRead(r)
  PROVE  \E q :
           /\ Moves(r, q) /\ q.op = "init" /\ q.pc = "tmp"
           /\ q.st.size = Size[FileOf(req[r])] /\ q.st \in chunkUploadState
           /\ \/ state # None /\ q.st = state /\ nextId' = nextId
              \/ q.st.id = nextId + 1 /\ q.st.received = {} /\ nextId' = nextId + 1
<1> DEFINE f == PageOf(r).file
<1> DEFINE fresh == [id |-> nextId + 1, size |-> Size[f], received |-> {}]
<1> DEFINE st == IF Resumes(f) THEN state ELSE fresh
<1> DEFINE q == [req[r] EXCEPT !.st = st, !.pc = "tmp"]
<1>1. /\ req[r] \in Request /\ RequestOK(req[r]) /\ req[r].op = "init" /\ req[r].op # None
      /\ req[r].session \in Sessions /\ f \in Files /\ f = FileOf(req[r])
  BY HandledRequest, Named DEF InitRead, At, PageOf, FileOf
<1>2. nextId \in Nat
  BY DEF FilesTyped, Ids
<1>3. fresh \in chunkUploadState /\ fresh.id = nextId + 1 /\ fresh.size = Size[f] /\ fresh.received = {}
  BY <1>1, <1>2 DEF chunkUploadState, Ids
<1>4. /\ st \in chunkUploadState /\ st.size = Size[f]
      /\ \/ state # None /\ st = state /\ nextId' = nextId
         \/ st.id = nextId + 1 /\ st.received = {} /\ nextId' = nextId + 1
  BY <1>3 DEF FilesTyped, InitRead, Resumes
<1>5. req' = [req EXCEPT ![r] = q] /\ page' = page
  BY DEF InitRead
<1> HIDE DEF st, fresh, f
<1>6. q \in Request /\ Kin(q, req[r]) /\ q.pc = "tmp" /\ q.st = st /\ q.n = req[r].n
      /\ q.stream = req[r].stream /\ q.op = "init"
  BY <1>1, <1>4 DEF Request, Kin
<1> HIDE DEF q
<1>7. st # None
  BY <1>4, NoneAssumption
<1>8. q \in Handled
  BY <1>1, <1>6, <1>7 DEF Handled, RequestOK, Kin, PcOf
<1> QED
  BY <1>1, <1>4, <1>5, <1>6, <1>8 DEF Moves

LEMMA ChunkReadEffect ==
  ASSUME FilesTyped, Requests, Pages, Owned, NEW r \in Reqs, ChunkRead(r)
  PROVE  \/ AnswerError(r)
         \/ \E q : /\ Moves(r, q) /\ q.op = "chunk" /\ q.pc = "segment lock" /\ q.st = state
                   /\ state # None /\ state.id = req[r].id /\ req[r].index \in Indices(state.size)
<1>1. CASE ~ (state # None /\ state.id = req[r].id /\ req[r].index \in Indices(state.size))
  BY <1>1 DEF ChunkRead
<1>2. CASE state # None /\ state.id = req[r].id /\ req[r].index \in Indices(state.size)
  <2> DEFINE q == [req[r] EXCEPT !.st = state, !.pc = "segment lock"]
  <2>1. req[r] \in Request /\ RequestOK(req[r]) /\ req[r].op = "chunk"
    BY HandledRequest DEF ChunkRead, At
  <2>2. req' = [req EXCEPT ![r] = q] /\ page' = page
    BY <1>2 DEF ChunkRead
  <2>3. q \in Request /\ Kin(q, req[r]) /\ q.pc = "segment lock" /\ q.st = state
        /\ q.stream = req[r].stream /\ q.n = req[r].n /\ q.op = "chunk"
    BY <2>1 DEF Request, Kin, FilesTyped
  <2> HIDE DEF q
  <2>4. q \in Handled
    BY <1>2, <2>1, <2>3 DEF Handled, RequestOK, Kin, PcOf
  <2> QED
    BY <1>2, <2>2, <2>3, <2>4 DEF Moves
<1> QED
  BY <1>1, <1>2

LEMMA ChunkLockSegmentEffect ==
  ASSUME Requests, NEW r \in Reqs, ChunkLockSegment(r)
  PROVE  \/ /\ state # None /\ req[r].index \in state.received
            /\ Answer(r, ChunkStored(PageOf(r), req[r].index)) /\ segLock' = segLock
         \/ /\ state = None \/ req[r].index \notin state.received
            /\ segLock' = [segLock EXCEPT ![req[r].index] = r] /\ segLock[req[r].index] = None
            /\ \E q : Moves(r, q) /\ q.op = "chunk" /\ q.pc = "open" /\ q.st = req[r].st
<1>1. req[r].op = "chunk" /\ req[r].st # None
  BY DEF ChunkLockSegment, At, Requests, Handled, RequestOK
<1>2. CASE state # None /\ req[r].index \in state.received
  BY <1>2 DEF ChunkLockSegment
<1>3. CASE ~ (state # None /\ req[r].index \in state.received)
  <2>1. Goto(r, "open") /\ page' = page /\ "open" \in PcOf(req[r].op) /\ "open" \in Onward
    BY <1>1, <1>3 DEF ChunkLockSegment, PcOf, Onward
  <2>2. \E q : Moves(r, q) /\ q.pc = "open" /\ q.st = req[r].st
    BY <1>1, <2>1, Goes
  <2> QED
    BY <1>1, <1>3, <2>2 DEF ChunkLockSegment, Moves, Kin
<1> QED
  BY <1>2, <1>3

LEMMA ChunkOpenEffect ==
  ASSUME Requests, NEW r \in Reqs, ChunkOpen(r)
  PROVE  \E q : Moves(r, q) /\ q.op = "chunk" /\ q.pc = "copy" /\ q.st = req[r].st
<1>1. req[r].op = "chunk" /\ req[r].st # None
  BY DEF ChunkOpen, At, Requests, Handled, RequestOK
<1>2. Goto(r, "copy") /\ page' = page /\ "copy" \in PcOf(req[r].op) /\ "copy" \in Onward
  BY <1>1 DEF ChunkOpen, PcOf, Onward
<1>3. PICK q : Moves(r, q) /\ q.pc = "copy" /\ q.st = req[r].st
  BY <1>1, <1>2, Goes
<1>4. q.op = "chunk"
  BY <1>1, <1>3 DEF Moves, Kin
<1> QED
  BY <1>3, <1>4

LEMMA ChunkCopyEffect ==
  ASSUME Requests, NEW r \in Reqs, ChunkCopy(r)
  PROVE  \E q : Moves(r, q) /\ q.op = "chunk" /\ q.pc = "state lock" /\ q.st = req[r].st
<1>1. req[r].op = "chunk" /\ req[r].st # None
  BY DEF ChunkCopy, At, Requests, Handled, RequestOK
<1>2. Goto(r, "state lock") /\ page' = page /\ "state lock" \in PcOf(req[r].op) /\ "state lock" \in Onward
  BY <1>1 DEF ChunkCopy, PcOf, Onward
<1>3. PICK q : Moves(r, q) /\ q.pc = "state lock" /\ q.st = req[r].st
  BY <1>1, <1>2, Goes
<1>4. q.op = "chunk"
  BY <1>1, <1>3 DEF Moves, Kin
<1> QED
  BY <1>3, <1>4

LEMMA WriteTmpEffect ==
  ASSUME Requests, NEW r \in Reqs, WriteTmp(r)
  PROVE  /\ req[r].op \in {"init", "chunk"} /\ req[r].st # None
         /\ \E q : Moves(r, q) /\ q.pc = "rename" /\ q.st = req[r].st
<1>1. req[r].st # None /\ req[r].pc \in PcOf(req[r].op) /\ req[r].op \in Ops \cup {None}
  BY DEF WriteTmp, Requests, Handled, RequestOK, Request
<1>2. req[r].op \in {"init", "chunk"}
  BY <1>1, Named DEF WriteTmp, PcOf, Ops
<1>3. Goto(r, "rename") /\ page' = page /\ "rename" \in PcOf(req[r].op) /\ "rename" \in Onward
  BY <1>2 DEF WriteTmp, PcOf, Onward
<1> QED
  BY <1>1, <1>2, <1>3, Goes

LEMMA ChunkLockStateEffect ==
  ASSUME FilesTyped, Requests, Pages, Owned, NEW r \in Reqs, ChunkLockState(r)
  PROVE  \/ AnswerError(r) /\ Unlock(r) /\ state = None
         \/ /\ state # None /\ stateLock' = r /\ segLock' = segLock
            /\ \E q : /\ Moves(r, q) /\ q.op = "chunk" /\ q.pc = "tmp"
                      /\ q.st = [state EXCEPT !.received = @ \cup {req[r].index}]
                      /\ q.st \in chunkUploadState /\ q.st.id = state.id /\ q.st.size = state.size
<1>1. CASE state = None
  BY <1>1 DEF ChunkLockState
<1>2. CASE state # None
  <2> DEFINE st == [state EXCEPT !.received = @ \cup {req[r].index}]
  <2> DEFINE q == [req[r] EXCEPT !.st = st, !.pc = "tmp"]
  <2>1. /\ req[r] \in Request /\ RequestOK(req[r]) /\ req[r].op = "chunk" /\ req[r].op # None
        /\ req[r].index \in Chunks
    BY HandledRequest, Named DEF ChunkLockState, At, RequestOK
  <2>2. st \in chunkUploadState /\ st.id = state.id /\ st.size = state.size
    BY <1>2, <2>1 DEF FilesTyped, chunkUploadState
  <2>3. req' = [req EXCEPT ![r] = q] /\ page' = page
    BY <1>2 DEF ChunkLockState
  <2> HIDE DEF st
  <2>4. q \in Request /\ Kin(q, req[r]) /\ q.pc = "tmp" /\ q.st = st
        /\ q.stream = req[r].stream /\ q.n = req[r].n /\ q.op = "chunk"
    BY <2>1, <2>2 DEF Request, Kin
  <2> HIDE DEF q
  <2>5. st # None
    BY <2>2, NoneAssumption
  <2>6. q \in Handled
    BY <2>1, <2>4, <2>5 DEF Handled, RequestOK, Kin, PcOf
  <2> QED
    <3>1. Moves(r, q)
      BY <2>3, <2>4, <2>6 DEF Moves
    <3>2. stateLock' = r /\ segLock' = segLock
      BY <1>2 DEF ChunkLockState
    <3>3. q.st = [state EXCEPT !.received = @ \cup {req[r].index}]
      BY <2>4 DEF st
    <3>4. q.st \in chunkUploadState /\ q.st.id = state.id /\ q.st.size = state.size
      BY <2>2, <2>4
    <3> QED
      BY <1>2, <2>4, <3>1, <3>2, <3>3, <3>4
<1> QED
  BY <1>1, <1>2

LEMMA CompleteReadEffect ==
  ASSUME FilesTyped, Requests, Pages, Owned, NEW r \in Reqs, CompleteRead(r)
  PROVE  \/ AnswerError(r)
         \/ /\ state # None /\ state.id = req[r].id
            /\ Answer(r, Conflicted(PageOf(r), Indices(state.size) \ state.received))
         \/ /\ state # None /\ state.id = req[r].id /\ Indices(state.size) \subseteq state.received
            /\ \E q : Moves(r, q) /\ q.op = "complete" /\ q.pc = "create" /\ q.st = state
<1> DEFINE missing == Indices(state.size) \ state.received
<1>1. CASE state = None \/ (state # None /\ state.id # req[r].id)
  BY <1>1 DEF CompleteRead
<1>2. CASE state # None /\ state.id = req[r].id /\ missing # {}
  BY <1>2 DEF CompleteRead
<1>3. CASE state # None /\ state.id = req[r].id /\ missing = {}
  <2> DEFINE q == [req[r] EXCEPT !.st = state, !.pc = "create"]
  <2>1. req[r] \in Request /\ RequestOK(req[r]) /\ req[r].op = "complete" /\ req[r].pc = "read"
    BY HandledRequest DEF CompleteRead, At
  <2>2. req' = [req EXCEPT ![r] = q] /\ page' = page
    BY <1>3 DEF CompleteRead
  <2>3. q \in Request /\ Kin(q, req[r]) /\ q.pc = "create" /\ q.st = state
        /\ q.stream = req[r].stream /\ q.n = req[r].n /\ q.written = req[r].written /\ q.op = "complete"
    BY <2>1 DEF Request, Kin, FilesTyped
  <2> HIDE DEF q
  <2>4. q \in Handled
    BY <1>3, <2>1, <2>3 DEF Handled, RequestOK, Kin, PcOf
  <2> QED
    BY <1>3, <2>2, <2>3, <2>4 DEF Moves
<1> QED
  BY <1>1, <1>2, <1>3

LEMMA AssembleCreateEffect ==
  ASSUME FilesTyped, Requests, Pages, Owned, NEW r \in Reqs, AssembleCreate(r)
  PROVE  \E q : /\ Moves(r, q) /\ q.op = "complete" /\ q.pc = "append" /\ q.st = req[r].st
                /\ q.linked /\ q.n = 0 /\ q.written = 0 /\ q.stream = Empty
<1> DEFINE q == [req[r] EXCEPT !.linked = TRUE, !.pc = "append"]
<1>1. /\ req[r] \in Request /\ RequestOK(req[r]) /\ req[r].op = "complete" /\ req[r].pc = "create"
  BY HandledRequest DEF AssembleCreate, At
<1>2. req' = [req EXCEPT ![r] = q] /\ page' = page
  BY DEF AssembleCreate
<1>3. /\ q \in Request /\ Kin(q, req[r]) /\ q.pc = "append" /\ q.st = req[r].st /\ q.linked
      /\ q.stream = req[r].stream /\ q.n = req[r].n /\ q.written = req[r].written /\ q.op = "complete"
  BY <1>1 DEF Request, Kin
<1> HIDE DEF q
<1>4. /\ req[r].st # None /\ req[r].n = 0 /\ req[r].written = 0 /\ req[r].stream = Empty
  BY <1>1 DEF RequestOK
<1>5. req[r].st \in chunkUploadState
  BY <1>1, <1>4 DEF Request
<1>6. 0 \in Indices(req[r].st.size)
  BY <1>5, FileChunks DEF chunkUploadState
<1>7. q \in Handled
  BY <1>1, <1>3, <1>4, <1>6 DEF Handled, RequestOK, Kin, PcOf
<1> QED
  BY <1>2, <1>3, <1>4, <1>7 DEF Moves

LEMMA AssembleAppendEffect ==
  ASSUME FilesTyped, Requests, Pages, Owned, NEW r \in Reqs, AssembleAppend(r)
  PROVE  \/ AssembleFails(r) /\ seg[req[r].n] = None
         \/ /\ seg[req[r].n] # None
            /\ dst' = IF req[r].linked THEN [dst EXCEPT ![req[r].n] = seg[req[r].n]] ELSE dst
            /\ \E q : /\ Moves(r, q) /\ q.op = "complete" /\ q.pc = "stat" /\ q.st = req[r].st
                      /\ q.linked = req[r].linked /\ q.n = req[r].n /\ q.written = req[r].written
                      /\ q.stream = [req[r].stream EXCEPT ![req[r].n] = seg[req[r].n]]
<1> DEFINE n == req[r].n
<1>1. CASE seg[n] = None
  BY <1>1 DEF AssembleAppend
<1>2. CASE seg[n] # None
  <2> DEFINE w == [req[r].stream EXCEPT ![n] = seg[n]]
  <2> DEFINE q == [req[r] EXCEPT !.stream = w, !.pc = "stat"]
  <2>1. /\ req[r] \in Request /\ RequestOK(req[r]) /\ req[r].op = "complete" /\ req[r].pc = "append"
    BY HandledRequest DEF AssembleAppend, At
  <2>2. req[r].st # None /\ n \in Indices(req[r].st.size)
    BY <2>1 DEF RequestOK
  <2>3. n \in Chunks
    BY <2>1, <2>2, FileChunks DEF Request, chunkUploadState
  <2>4. w \in [Chunks -> Content \cup {None}] /\ w[n] # None
    BY <1>2, <2>1, <2>3 DEF Request, FilesTyped
  <2>5. req' = [req EXCEPT ![r] = q] /\ page' = page
    BY <1>2 DEF AssembleAppend
  <2>a. dst' = IF req[r].linked THEN [dst EXCEPT ![n] = seg[n]] ELSE dst
    BY <1>2 DEF AssembleAppend
  <2> HIDE DEF w
  <2>6. /\ q \in Request /\ Kin(q, req[r]) /\ q.pc = "stat" /\ q.st = req[r].st
        /\ q.linked = req[r].linked
        /\ q.stream = w /\ q.n = n /\ q.written = req[r].written /\ q.op = "complete"
    BY <2>1, <2>4 DEF Request, Kin
  <2> HIDE DEF q
  <2>7. q \in Handled
    BY <2>1, <2>2, <2>4, <2>6 DEF Handled, RequestOK, Kin, PcOf
  <2> QED
    BY <1>2, <2>5, <2>6, <2>7, <2>a DEF Moves, w
<1> QED
  BY <1>1, <1>2

LEMMA AssembleStatEffect ==
  ASSUME FilesTyped, Requests, Pages, Owned, NEW r \in Reqs, AssembleStat(r)
  PROVE  LET n == req[r].n
             last == n + 1 = TotalChunks(req[r].st.size)
         IN  \E q : /\ Moves(r, q) /\ q.op = "complete" /\ q.st = req[r].st
                    /\ q.linked = req[r].linked /\ q.stream = req[r].stream
                    /\ q.pc = IF last THEN "check" ELSE "append"
                    /\ q.n = IF last THEN 0 ELSE n + 1
                    /\ q.written = req[r].written
                         + (IF seg[n] = None THEN req[r].stream[n].len ELSE seg[n].len)
<1> DEFINE n == req[r].n
<1> DEFINE size == IF seg[n] = None THEN req[r].stream[n].len ELSE seg[n].len
<1> DEFINE last == n + 1 = TotalChunks(req[r].st.size)
<1> DEFINE w == req[r].written + size
<1> DEFINE m == IF last THEN 0 ELSE n + 1
<1> DEFINE pc == IF last THEN "check" ELSE "append"
<1> DEFINE q == [req[r] EXCEPT !.written = w, !.n = m, !.pc = pc]
<1>1. /\ req[r] \in Request /\ RequestOK(req[r]) /\ req[r].op = "complete" /\ req[r].pc = "stat"
  BY HandledRequest DEF AssembleStat, At
<1>2. req[r].st # None /\ n \in Indices(req[r].st.size) /\ req[r].stream[n] # None
  BY <1>1 DEF RequestOK
<1>3. req[r].st \in chunkUploadState
  BY <1>1, <1>2 DEF Request
<1>4. n \in Chunks /\ req[r].st.size \in Nat \ {0}
  BY <1>2, <1>3, FileChunks DEF chunkUploadState
<1>5. ChunkSize \in Nat /\ n \in Nat
  BY <1>4, UploadAssumption, Naturals
<1>6. size \in Nat
  <2>1. req[r].stream[n] \in Content /\ (seg[n] # None => seg[n] \in Content)
    BY <1>1, <1>2, <1>4 DEF Request, FilesTyped
  <2>2. \A c \in Content : c.len \in Nat
    BY <1>5 DEF Content
  <2> QED
    BY <2>1, <2>2
<1> HIDE DEF size
<1>7. w \in Nat
  <2>1. req[r].written \in Nat
    BY <1>1 DEF Request
  <2> QED
    BY <1>6, <2>1
<1>8. m \in Nat /\ (~last => m \in Indices(req[r].st.size))
  BY <1>2, <1>4, <1>5, OneMore
<1>9. req' = [req EXCEPT ![r] = q] /\ page' = page
  BY DEF AssembleStat, size
<1> HIDE DEF w, m
<1>10. pc \in {"check", "append"} /\ (pc = "append" => ~last) /\ pc # "stat"
  OBVIOUS
<1> HIDE DEF pc
<1>11. /\ q \in Request /\ Kin(q, req[r]) /\ q.pc = pc /\ q.st = req[r].st /\ q.linked = req[r].linked
       /\ q.stream = req[r].stream /\ q.n = m /\ q.written = w /\ q.op = "complete"
  BY <1>1, <1>7, <1>8, <1>10 DEF Request, Kin
<1> HIDE DEF q, last
<1>12. q \in Handled
  BY <1>1, <1>2, <1>8, <1>10, <1>11 DEF Handled, RequestOK, Kin, PcOf
<1> QED
  BY <1>9, <1>11, <1>12 DEF Moves, w, m, pc, last, size

LEMMA AssembleCheckEffect ==
  ASSUME Requests, NEW r \in Reqs, AssembleCheck(r)
  PROVE  \/ /\ AssembleFails(r)
            /\ req[r].written # req[r].st.size \/ req[r].stream # WholeFile(FileOf(req[r]))
         \/ /\ dst' = dst /\ req[r].written = req[r].st.size
            /\ \E q : Moves(r, q) /\ q.op = "complete" /\ q.pc = "clean" /\ q.st = req[r].st
<1>1. req[r].op = "complete" /\ req[r].st # None
  BY DEF AssembleCheck, At, Requests, Handled, RequestOK
<1> DEFINE bad == \/ req[r].written # req[r].st.size
                  \/ WholeFileCRC /\ req[r].stream # WholeFile(PageOf(r).file)
<1>2. CASE bad
  BY <1>2 DEF AssembleCheck, FileOf, PageOf
<1>3. CASE ~bad
  <2>1. Goto(r, "clean") /\ page' = page /\ dst' = dst /\ "clean" \in PcOf(req[r].op) /\ "clean" \in Onward
    BY <1>1, <1>3 DEF AssembleCheck, PcOf, Onward
  <2>2. \E q : Moves(r, q) /\ q.pc = "clean" /\ q.st = req[r].st
    BY <1>1, <2>1, Goes
  <2> QED
    BY <1>1, <1>3, <2>1, <2>2 DEF Moves, Kin
<1> QED
  BY <1>2, <1>3

LEMMA AbortReadEffect ==
  ASSUME FilesTyped, Requests, Pages, Owned, NEW r \in Reqs, AbortRead(r)
  PROVE  \/ Answer(r, PageOf(r))
         \/ /\ state # None
            /\ \E q : Moves(r, q) /\ q.op = "abort" /\ q.pc = "clean" /\ q.st = state
<1>1. CASE ~ (state # None /\ state.id = req[r].id)
  BY <1>1 DEF AbortRead
<1>2. CASE state # None /\ state.id = req[r].id
  <2> DEFINE q == [req[r] EXCEPT !.st = state, !.pc = "clean"]
  <2>1. req[r] \in Request /\ RequestOK(req[r]) /\ req[r].op = "abort"
    BY HandledRequest DEF AbortRead, At
  <2>2. req' = [req EXCEPT ![r] = q] /\ page' = page
    BY <1>2 DEF AbortRead
  <2>3. q \in Request /\ Kin(q, req[r]) /\ q.pc = "clean" /\ q.st = state
        /\ q.stream = req[r].stream /\ q.n = req[r].n /\ q.op = "abort"
    BY <2>1 DEF Request, Kin, FilesTyped
  <2> HIDE DEF q
  <2>4. q \in Handled
    BY <1>2, <2>1, <2>3 DEF Handled, RequestOK, Kin, PcOf
  <2> QED
    BY <1>2, <2>2, <2>3, <2>4 DEF Moves
<1> QED
  BY <1>1, <1>2

LEMMA CleanSegmentEffect ==
  ASSUME FilesTyped, Requests, Pages, Owned, NEW r \in Reqs, CleanSegment(r)
  PROVE  \E q : Moves(r, q) /\ q.pc = "clean" /\ q.st = req[r].st
<1> DEFINE m == req[r].n + 1
<1> DEFINE q == [req[r] EXCEPT !.n = m]
<1>1. req[r] \in Request /\ RequestOK(req[r]) /\ req[r].pc = "clean"
  BY HandledRequest DEF CleanSegment
<1>2. req' = [req EXCEPT ![r] = q] /\ page' = page
  BY DEF CleanSegment
<1>a. req[r].n \in Nat
  BY <1>1 DEF Request
<1>3. m \in Nat
  BY <1>a
<1> HIDE DEF m
<1>4. q \in Request /\ Kin(q, req[r]) /\ q.pc = "clean" /\ q.st = req[r].st /\ q.stream = req[r].stream
  BY <1>1, <1>3 DEF Request, Kin
<1> HIDE DEF q
<1>5. q \in Handled
  BY <1>1, <1>4 DEF Handled, RequestOK, Kin
<1> QED
  BY <1>2, <1>4, <1>5 DEF Moves

LEMMA CleanStateEffect ==
  ASSUME Requests, Pages, Owned, NEW r \in Reqs, CleanState(r)
  PROVE  /\ Requests' /\ Pages' /\ Owned' /\ Ends(r)
         /\ req[r].op \in {"complete", "abort"} /\ state' = None
         /\ promised' = IF req[r].op = "complete" THEN FileOf(req[r]) ELSE promised
         /\ \A t \in Sessions :
              \/ page'[t] = page[t]
              \/ /\ req[r].op = "complete" /\ t = req[r].session
                 /\ page[t].phase = "complete" /\ page'[t].phase = "done"
                 /\ page'[t].id = page[t].id /\ page'[t].file = page[t].file
<1> DEFINE s == req[r].session
<1> DEFINE d == [page[s] EXCEPT !.phase = "done", !.call = None]
<1>0. None \notin Reqs
  BY UploadAssumption
<1>1. req[r].op \in {"complete", "abort"} /\ req[r].op # None
  <2>1. req[r].pc \in PcOf(req[r].op) /\ req[r].op \in Ops \cup {None}
    BY DEF Requests, Handled, RequestOK, Request
  <2>2. req[r].op \in {"complete", "abort"}
    BY <2>1, Named DEF CleanState, PcOf, Ops
  <2> QED
    BY <2>2, Named
<1>2. s \in Sessions /\ PageOK(page[s]) /\ PageOf(r) = page[s] /\ page[s].phase # "new"
  BY <1>1, HandledRequest DEF PageOf
<1>3. /\ state' = None
      /\ promised' = IF req[r].op = "complete" THEN FileOf(req[r]) ELSE promised
  BY DEF CleanState, PageOf, FileOf
<1>4. CASE req[r].op = "abort"
  <2>1. Answer(r, page[s])
    BY <1>2, <1>4 DEF CleanState
  <2>2. Requests' /\ Pages' /\ Owned'
    BY <1>1, <1>4, <2>1, AnswerKeeps
  <2>3. Ends(r) /\ \A t \in Sessions : page'[t] = page[t]
    BY <1>1, <1>4, <2>1, AnswerEffect
  <2> QED
    BY <1>1, <1>3, <2>2, <2>3
<1>5. CASE req[r].op = "complete"
  <2>1. Answer(r, d)
    BY <1>2, <1>5 DEF CleanState
  <2>2. ASSUME page[s].call = r
        PROVE  /\ d \in Shown /\ Evolves(page[s], d) /\ d.call = None /\ d.waits = page[s].waits
               /\ d.id = page[s].id /\ d.file = page[s].file /\ d.phase = "done"
    <3>1. PageOK(d) /\ d.file = page[s].file /\ d.id = page[s].id /\ d.waits = page[s].waits
          /\ d.phase = "done" /\ d.call = None
      BY <1>0, <1>2, <2>2, DoneOK
    <3> HIDE DEF d
    <3> QED
      BY <3>1, Shapes DEF Evolves
  <2> HIDE DEF d
  <2>3. Requests' /\ Pages' /\ Owned'
    BY <1>1, <1>2, <1>5, <2>1, <2>2, AnswerKeeps
  <2>4. /\ Ends(r)
        /\ \A t \in Sessions :
             \/ page'[t] = page[t]
             \/ t = s /\ page'[t] = d /\ page[t].call = r /\ page[t].phase = "complete"
    BY <1>1, <1>5, <2>1, AnswerEffect
  <2> QED
    BY <1>1, <1>3, <1>5, <2>2, <2>3, <2>4
<1> QED
  BY <1>1, <1>4, <1>5

\* The answer to init, or to a chunk, when its record was saved.
LEMMA RenameEffect ==
  ASSUME FilesTyped, Requests, Pages, Owned, NEW r \in Reqs, Rename(r)
  PROVE  /\ Requests' /\ Pages' /\ Owned' /\ Ends(r) /\ Unlock(r)
         /\ req[r].op \in {"init", "chunk"} /\ req[r].st # None
         /\ \/ state' = state /\ tmp' = tmp /\ tmp = None
               /\ \A t \in Sessions : Lost(page[t], page'[t])
            \/ /\ tmp # None /\ state' = tmp /\ tmp' = None
               /\ \/ /\ req[r].op = "init"
                     /\ \A t \in Sessions :
                          \/ page'[t] = page[t]
                          \/ /\ t = req[r].session /\ page[t].phase = "init"
                             /\ page'[t].phase = "upload" /\ page'[t].file = page[t].file
                             /\ page'[t].id = req[r].st.id
                             /\ page'[t].todo = Indices(Size[page[t].file]) \ req[r].st.received
                  \/ /\ req[r].op = "chunk"
                     /\ \A t \in Sessions :
                          /\ page'[t].phase = page[t].phase /\ page'[t].id = page[t].id
                          /\ page'[t].file = page[t].file
                          /\ \/ page'[t].todo = page[t].todo
                             \/ t = req[r].session /\ page'[t].todo = page[t].todo \ {req[r].index}
<1> DEFINE s == req[r].session
<1>0. None \notin Reqs
  BY UploadAssumption
<1>1. req[r].op \in {"init", "chunk"} /\ req[r].op # None /\ req[r].st # None
  <2>1. req[r].pc \in PcOf(req[r].op) /\ req[r].op \in Ops \cup {None}
    BY DEF Requests, Handled, RequestOK, Request
  <2>2. req[r].op \in {"init", "chunk"}
    BY <2>1, Named DEF Rename, PcOf, Ops
  <2> QED
    BY <2>2, Named DEF Rename, Requests, Handled, RequestOK
<1>2. s \in Sessions /\ PageOK(page[s]) /\ PageOf(r) = page[s] /\ page[s].phase # "new"
  BY <1>1, HandledRequest DEF PageOf
<1>3. Unlock(r)
  BY DEF Rename
<1>4. CASE tmp = None
  <2>1. AnswerError(r) /\ state' = state /\ tmp' = tmp
    BY <1>4 DEF Rename
  <2> QED
    BY <1>1, <1>3, <1>4, <2>1, ErrorKeeps
<1>5. CASE tmp # None /\ req[r].op = "chunk"
  <2>1. Answer(r, ChunkStored(PageOf(r), req[r].index)) /\ state' = tmp /\ tmp' = None
    BY <1>5 DEF Rename
  <2> QED
    BY <1>1, <1>3, <1>5, <2>1, StoredKeeps
<1>6. CASE tmp # None /\ req[r].op = "init"
  <2> DEFINE p == Initialised(page[s], req[r].st)
  <2>1. Answer(r, p) /\ state' = tmp /\ tmp' = None
    BY <1>2, <1>6 DEF Rename
  <2>2. ASSUME page[s].call = r, page[s].phase = "init"
        PROVE  /\ p \in Shown /\ Evolves(page[s], p) /\ p.call = None /\ p.waits = page[s].waits
               /\ p.id = req[r].st.id /\ p.file = page[s].file /\ p.phase = "upload"
               /\ p.todo = Indices(Size[page[s].file]) \ req[r].st.received
    <3>1. req[r].st \in chunkUploadState
      BY <1>1 DEF Requests, Handled, Request
    <3>2. PageOK(p) /\ p.file = page[s].file /\ p.id = req[r].st.id /\ p.phase = "upload" /\ p.call = None
          /\ p.todo = Indices(Size[page[s].file]) \ req[r].st.received /\ p.waits = page[s].waits
      BY <1>2, <2>2, <3>1, InitialisedOK
    <3>3. page[s].id = 0
      BY <1>2, <2>2 DEF PageOK
    <3> HIDE DEF p
    <3> QED
      BY <3>2, <3>3, Shapes DEF Evolves
  <2> HIDE DEF p
  <2>3. page[s].call = r => page[s].phase = "init"
    <3>1. AwaitedOK(s)
      BY <1>2 DEF Pages
    <3>2. page[s].call = r => page[s].phase \in {"init", "complete"}
      BY <1>0, <1>2 DEF PageOK
    <3> QED
      BY <1>0, <1>6, <3>1, <3>2 DEF AwaitedOK
  <2>4. Requests' /\ Pages' /\ Owned'
    BY <1>1, <1>2, <1>6, <2>1, <2>2, <2>3, AnswerKeeps
  <2>5. /\ Ends(r)
        /\ \A t \in Sessions :
             \/ page'[t] = page[t]
             \/ t = s /\ page'[t] = p /\ page[t].call = r /\ page[t].phase = "init"
    BY <1>1, <1>6, <2>1, AnswerEffect
  <2> QED
    BY <1>1, <1>3, <1>6, <2>1, <2>2, <2>4, <2>5
<1> QED
  BY <1>1, <1>4, <1>5, <1>6

\* A complete that finds chunks missing sends its page back to them.
LEMMA ConflictEffect ==
  ASSUME FilesTyped, Requests, Pages, Owned, NEW r \in Reqs, req[r].op = "complete", state # None,
         Answer(r, Conflicted(PageOf(r), Indices(state.size) \ state.received))
  PROVE  /\ Requests' /\ Pages' /\ Owned' /\ Ends(r)
         /\ \A t \in Sessions :
              \/ page'[t] = page[t]
              \/ /\ t = req[r].session /\ page[t].phase = "complete"
                 /\ page'[t].phase = "upload" /\ page'[t].file = page[t].file
                 /\ page'[t].id = page[t].id
                 /\ page'[t].todo = Indices(state.size) \ state.received
<1> DEFINE s == req[r].session
<1> DEFINE M == Indices(state.size) \ state.received
<1> DEFINE p == Conflicted(page[s], M)
<1>0. None \notin Reqs /\ req[r].op # None
  BY UploadAssumption, Named
<1>1. s \in Sessions /\ PageOK(page[s]) /\ PageOf(r) = page[s] /\ page[s].phase # "new"
  BY <1>0, HandledRequest DEF PageOf
<1>2. M \in SUBSET Chunks
  BY FileChunks DEF FilesTyped, chunkUploadState
<1>3. Answer(r, p)
  BY <1>1
<1> HIDE DEF M
<1>4. ASSUME page[s].call = r, page[s].phase = "complete"
      PROVE  /\ p \in Shown /\ Evolves(page[s], p) /\ p.call = None /\ p.waits = page[s].waits
             /\ p.id = page[s].id /\ p.file = page[s].file /\ p.phase = "upload" /\ p.todo = M
  <2>1. PageOK(p) /\ p.file = page[s].file /\ p.id = page[s].id /\ p.phase = "upload" /\ p.call = None
        /\ p.todo = M /\ p.waits = page[s].waits
    BY <1>1, <1>2, <1>4, ConflictedOK
  <2> HIDE DEF p
  <2> QED
    BY <2>1, Shapes DEF Evolves
<1> HIDE DEF p
<1>5. page[s].call = r => page[s].phase = "complete"
  <2>1. AwaitedOK(s)
    BY <1>1 DEF Pages
  <2>2. page[s].call = r => page[s].phase \in {"init", "complete"}
    BY <1>0, <1>1 DEF PageOK
  <2> QED
    BY <1>0, <2>1, <2>2 DEF AwaitedOK
<1>6. Requests' /\ Pages' /\ Owned'
  BY <1>0, <1>1, <1>3, <1>4, <1>5, AnswerKeeps
<1>7. /\ Ends(r)
      /\ \A t \in Sessions :
           \/ page'[t] = page[t]
           \/ t = s /\ page'[t] = p /\ page[t].call = r /\ page[t].phase = "complete"
  BY <1>0, <1>3, AnswerEffect
<1> QED
  BY <1>4, <1>6, <1>7 DEF M

\* A request that was not there before.
Arrives(r, op, s, i) ==
  /\ req[r].op = None
  /\ req'[r].op = op /\ req'[r].session = s /\ req'[r].id = page[s].id /\ req'[r].index = i
  /\ req'[r].pc = "read" /\ req'[r].st = None
  /\ \A x \in Reqs \ {r} : req'[x] = req[x]

LEMMA SendEffect ==
  ASSUME Requests, Pages, NEW r \in Free, NEW op \in Ops, NEW s \in Sessions, NEW i \in Chunks,
         Send(r, op, s, i)
  PROVE  r \in Reqs /\ Arrives(r, op, s, i)
<1> DEFINE q == Sent(op, s, i)
<1>1. r \in Reqs /\ req[r].op = None
  BY Named DEF Free, Requests
<1>2. q.op = op /\ q.session = s /\ q.id = page[s].id /\ q.index = i /\ q.pc = "read" /\ q.st = None
  BY SentHandled
<1>3. req' = [req EXCEPT ![r] = q]
  BY DEF Send, Sent
<1> HIDE DEF q
<1>4. req'[r] = q /\ \A x \in Reqs \ {r} : req'[x] = req[x]
  BY <1>1, <1>3 DEF Requests
<1> QED
  BY <1>1, <1>2, <1>4 DEF Arrives

LEMMA StartEffect ==
  ASSUME Requests, Pages, Owned, NEW s \in Sessions, Start(s)
  PROVE  /\ Requests' /\ Pages' /\ Owned'
         /\ page[s].phase = "new" /\ page'[s].phase = "init" /\ page'[s].id = 0
         /\ \A t \in Sessions \ {s} : page'[t] = page[t]
         /\ \E r \in Reqs : Arrives(r, "init", s, 0)
<1>1. PICK f \in Files, r \in Free :
        /\ page' = [page EXCEPT ![s] = [NewPage EXCEPT !.phase = "init", !.file = f, !.call = r]]
        /\ Send(r, "init", s, 0)
  BY DEF Start
<1> DEFINE p == [NewPage EXCEPT !.phase = "init", !.file = f, !.call = r]
<1>2. r \in Reqs /\ 0 \in Chunks /\ "init" \in Ops
  BY FileChunks DEF Free, Ops
<1>3. PageOK(page[s]) /\ page[s].phase = "new"
  BY Shapes DEF Pages, Start
<1>4. page[s] = NewPage
  BY <1>3 DEF PageOK
<1>5. PageOK(p)
  BY <1>2, StartedOK
<1>6. p.id = page[s].id /\ p.phase = "init" /\ p.call = r /\ p.waits = page[s].waits /\ p.id = 0
  BY <1>4 DEF NewPage
<1>7. page[s].id = 0 /\ Evolves(page[s], p)
  BY <1>3, <1>4 DEF NewPage, Evolves
<1>8. page' = [page EXCEPT ![s] = p]
  BY <1>1
<1> HIDE DEF p
<1>9. p \in Shown
  BY <1>5, Shapes
<1>a. Expecting(p, s, r, "init", 0)
  BY <1>6 DEF Expecting
<1>10. Requests' /\ Pages' /\ Owned'
  BY <1>1, <1>2, <1>7, <1>8, <1>9, <1>a, SendKeeps
<1>11. Arrives(r, "init", s, 0)
  BY <1>1, <1>2, SendEffect
<1>12. page'[s] = p /\ \A t \in Sessions \ {s} : page'[t] = page[t]
  BY <1>8 DEF Pages
<1> QED
  BY <1>2, <1>3, <1>6, <1>10, <1>11, <1>12

LEMMA SendChunkEffect ==
  ASSUME Requests, Pages, Owned, NEW s \in Sessions, NEW i \in Chunks, SendChunk(s, i)
  PROVE  /\ Requests' /\ Pages' /\ Owned'
         /\ page[s].phase \in {"upload", "failed"} /\ page[s].id # 0
         /\ page'[s].phase = page[s].phase /\ page'[s].id = page[s].id
         /\ page'[s].file = page[s].file /\ page'[s].todo = page[s].todo
         /\ \A t \in Sessions \ {s} : page'[t] = page[t]
         /\ \E r \in Reqs : Arrives(r, "chunk", s, i)
<1>1. PICK r \in Free : page' = [page EXCEPT ![s].waits[i] = r] /\ Send(r, "chunk", s, i)
  BY DEF SendChunk
<1> DEFINE p == [page[s] EXCEPT !.waits[i] = r]
<1>2. r \in Reqs /\ "chunk" \in Ops
  BY DEF Free, Ops
<1>3. /\ PageOK(page[s]) /\ page[s].phase \in {"upload", "failed"} /\ i \in page[s].todo
      /\ page[s].tries[i] < MaxRetries
  BY Shapes DEF Pages, SendChunk
<1>4. page[s].id # 0 /\ page[s].phase # "new"
  BY <1>3 DEF PageOK
<1>5. /\ PageOK(p) /\ p.file = page[s].file /\ p.id = page[s].id /\ p.phase = page[s].phase
      /\ p.call = page[s].call /\ p.todo = page[s].todo
      /\ p.waits[i] = r /\ \A j \in Chunks \ {i} : p.waits[j] = page[s].waits[j]
  BY <1>2, <1>3, AskingOK
<1>6. page' = [page EXCEPT ![s] = p]
  BY <1>1
<1> HIDE DEF p
<1>7. p \in Shown /\ Evolves(page[s], p)
  BY <1>4, <1>5, Shapes DEF Evolves
<1>a. Expecting(p, s, r, "chunk", i)
  BY <1>3, <1>4, <1>5 DEF Expecting
<1>8. Requests' /\ Pages' /\ Owned'
  BY <1>1, <1>2, <1>6, <1>7, <1>a, SendKeeps
<1>9. Arrives(r, "chunk", s, i)
  BY <1>1, <1>2, SendEffect
<1>10. page'[s] = p /\ \A t \in Sessions \ {s} : page'[t] = page[t]
  BY <1>6 DEF Pages
<1> QED
  BY <1>2, <1>3, <1>4, <1>5, <1>8, <1>9, <1>10

LEMMA SendCompleteEffect ==
  ASSUME Requests, Pages, Owned, NEW s \in Sessions, SendComplete(s)
  PROVE  /\ Requests' /\ Pages' /\ Owned' /\ page[s].phase = "upload"
         /\ \/ req' = req /\ \A t \in Sessions : Lost(page[t], page'[t])
            \/ /\ page'[s].phase = "complete" /\ page'[s].id = page[s].id
               /\ page'[s].file = page[s].file
               /\ \A t \in Sessions \ {s} : page'[t] = page[t]
               /\ \E r \in Reqs : Arrives(r, "complete", s, 0)
<1>1. PageOK(page[s]) /\ page[s].phase = "upload" /\ page[s].todo = {}
  BY Shapes DEF Pages, SendComplete
<1>2. CASE page' = [page EXCEPT ![s] = Failed(@)] /\ UNCHANGED req
  <2> DEFINE p == Failed(page[s])
  <2>1. PageOK(p) /\ p.file = page[s].file /\ p.id = page[s].id /\ p.waits = page[s].waits
        /\ p.phase = "failed" /\ p.call = None
    BY <1>1, GaveUpOK
  <2>2. p.todo = page[s].todo
    BY <1>1 DEF Failed, PageOK, Page
  <2>3. page' = [page EXCEPT ![s] = p] /\ req' = req
    BY <1>2
  <2> HIDE DEF p
  <2>4. p \in Shown /\ Evolves(page[s], p)
    BY <2>1, Shapes DEF Evolves
  <2>5. Requests' /\ Pages' /\ Owned'
    BY <2>1, <2>3, <2>4, PageKeeps
  <2>6. \A t \in Sessions : Lost(page[t], page'[t])
    BY <1>1, <2>1, <2>2, <2>3 DEF Pages, Lost
  <2> QED
    BY <1>1, <2>3, <2>5, <2>6
<1>3. ASSUME page[s].round < 2, NEW r \in Free,
             page' = [page EXCEPT ![s].phase = "complete", ![s].call = r],
             Send(r, "complete", s, 0)
      PROVE  /\ Requests' /\ Pages' /\ Owned'
             /\ page'[s].phase = "complete" /\ page'[s].id = page[s].id
             /\ page'[s].file = page[s].file
             /\ \A t \in Sessions \ {s} : page'[t] = page[t]
             /\ \E x \in Reqs : Arrives(x, "complete", s, 0)
  <2> DEFINE p == [page[s] EXCEPT !.phase = "complete", !.call = r]
  <2>1. r \in Reqs /\ "complete" \in Ops /\ page[s].file \in Files /\ page[s].id # 0
    BY <1>1 DEF Free, Ops, PageOK
  <2>2. 0 \in Chunks
    BY <2>1, FileChunks
  <2>3. /\ PageOK(p) /\ p.file = page[s].file /\ p.id = page[s].id /\ p.phase = "complete"
        /\ p.call = r /\ p.waits = page[s].waits
    BY <1>1, <1>3, <2>1, CompletingOK
  <2>4. page' = [page EXCEPT ![s] = p]
    BY <1>3 DEF Pages, Shown, Page
  <2> HIDE DEF p
  <2>5. p \in Shown /\ Evolves(page[s], p)
    BY <2>3, Shapes DEF Evolves
  <2>a. Expecting(p, s, r, "complete", 0)
    BY <2>1, <2>3 DEF Expecting
  <2>6. Requests' /\ Pages' /\ Owned'
    BY <1>3, <2>1, <2>2, <2>4, <2>5, <2>a, SendKeeps
  <2>7. Arrives(r, "complete", s, 0)
    BY <1>3, <2>1, <2>2, SendEffect
  <2>8. page'[s] = p /\ \A t \in Sessions \ {s} : page'[t] = page[t]
    BY <2>4 DEF Pages
  <2> QED
    BY <2>1, <2>3, <2>6, <2>7, <2>8
<1> QED
  BY <1>1, <1>2, <1>3 DEF SendComplete

LEMMA SendAbortEffect ==
  ASSUME Requests, Pages, Owned, NEW s \in Sessions, SendAbort(s)
  PROVE  /\ Requests' /\ Pages' /\ Owned' /\ page' = page
         /\ page[s].id # 0 /\ page[s].phase # "new"
         /\ \E r \in Reqs : Arrives(r, "abort", s, 0)
<1>1. PICK r \in Free : Send(r, "abort", s, 0)
  BY DEF SendAbort
<1>2. PageOK(page[s]) /\ page[s].id # 0 /\ page[s].phase # "new" /\ page' = page
  BY Shapes DEF Pages, SendAbort
<1>3. page[s].file \in Files /\ r \in Reqs /\ "abort" \in Ops
  BY <1>2 DEF PageOK, Free, Ops
<1>4. 0 \in Chunks
  BY <1>3, FileChunks
<1>5. page[s] \in Shown /\ page' = [page EXCEPT ![s] = page[s]] /\ Evolves(page[s], page[s])
  BY <1>2, Shapes DEF Pages, Evolves
<1>a. Expecting(page[s], s, r, "abort", 0)
  BY <1>2 DEF Expecting
<1>6. Requests' /\ Pages' /\ Owned'
  BY <1>1, <1>3, <1>4, <1>5, <1>a, SendKeeps
<1>7. Arrives(r, "abort", s, 0)
  BY <1>1, <1>3, <1>4, SendEffect
<1> QED
  BY <1>2, <1>3, <1>6, <1>7

LEMMA LoseAnswerEffect ==
  ASSUME Requests, Pages, Owned, NEW s \in Sessions, LoseAnswer(s)
  PROVE  /\ Requests' /\ Pages' /\ Owned' /\ req' = req
         /\ \A t \in Sessions : Lost(page[t], page'[t])
<1>1. PageOK(page[s]) /\ req' = req
  BY Shapes DEF Pages, LoseAnswer
<1>2. PICK p : /\ page' = [page EXCEPT ![s] = p]
               /\ \/ page[s].call # None /\ p = Failed(page[s])
                  \/ \E i \in Chunks : page[s].waits[i] # None /\ p = ChunkFailed(page[s], i)
  BY DEF LoseAnswer
<1>3. CASE page[s].call # None /\ p = Failed(page[s])
  <2>1. page[s].phase \in {"init", "complete"}
    BY <1>1, <1>3 DEF PageOK
  <2>2. /\ p \in Shown /\ Evolves(page[s], p) /\ p.call = None /\ p.waits = page[s].waits
        /\ Lost(page[s], p)
    BY <1>1, <1>3, <2>1, FailedOK, Shapes DEF Evolves, Lost
  <2>3. Requests' /\ Pages' /\ Owned'
    BY <1>1, <1>2, <2>2, PageKeeps
  <2>4. \A t \in Sessions : Lost(page[t], page'[t])
    BY <1>2, <2>2 DEF Pages, Lost
  <2> QED
    BY <1>1, <2>3, <2>4
<1>4. ASSUME NEW i \in Chunks, page[s].waits[i] # None, p = ChunkFailed(page[s], i)
      PROVE  Requests' /\ Pages' /\ Owned' /\ \A t \in Sessions : Lost(page[t], page'[t])
  <2>1. page[s].phase \in {"upload", "failed"}
    BY <1>1, <1>4 DEF PageOK
  <2>2. page[s].call = None
    BY <1>1, <2>1 DEF PageOK
  <2>3. /\ PageOK(p) /\ p.file = page[s].file /\ p.id = page[s].id /\ p.call = page[s].call
        /\ p.phase \in {page[s].phase, "failed"} /\ p.todo = page[s].todo
        /\ p.waits[i] = None /\ \A j \in Chunks \ {i} : p.waits[j] = page[s].waits[j]
    BY <1>1, <1>4, ChunkFailedOK
  <2>4. p \in Shown /\ Evolves(page[s], p) /\ Lost(page[s], p)
    BY <2>1, <2>3, Shapes DEF Evolves, Lost
  <2>5. p.call = None /\ \A j \in Chunks : p.waits[j] \in {None, page[s].waits[j]}
    BY <2>2, <2>3
  <2>6. Requests' /\ Pages' /\ Owned'
    BY <1>1, <1>2, <2>4, <2>5, PageKeeps
  <2>7. \A t \in Sessions : Lost(page[t], page'[t])
    BY <1>2, <2>4 DEF Pages, Lost
  <2> QED
    BY <2>6, <2>7
<1> QED
  BY <1>1, <1>2, <1>3, <1>4

LEMMA CloseEffect ==
  ASSUME Requests, Pages, Owned, NEW s \in Sessions, Close(s)
  PROVE  /\ Requests' /\ Pages' /\ Owned' /\ req' = req
         /\ \A t \in Sessions : Lost(page[t], page'[t])
<1> DEFINE p == [page[s] EXCEPT !.phase = "closed", !.call = None, !.waits = [i \in Chunks |-> None]]
<1>1. /\ PageOK(page[s]) /\ req' = req
      /\ page[s].phase \in {"init", "upload", "complete", "failed"}
  BY Shapes DEF Pages, Close
<1>2. page' = [page EXCEPT ![s] = p]
  BY DEF Close, Pages, Shown, Page
<1>3. /\ PageOK(p) /\ p.file = page[s].file /\ p.id = page[s].id
      /\ p.phase = "closed" /\ p.call = None /\ \A i \in Chunks : p.waits[i] = None
  BY <1>1, ClosedOK
<1>4. p.todo = page[s].todo
  BY <1>1 DEF PageOK, Page
<1> HIDE DEF p
<1>5. p \in Shown /\ Evolves(page[s], p) /\ Lost(page[s], p)
  BY <1>1, <1>3, <1>4, Shapes DEF Evolves, Lost
<1>6. Requests' /\ Pages' /\ Owned'
  BY <1>1, <1>2, <1>3, <1>5, PageKeeps
<1>7. \A t \in Sessions : Lost(page[t], page'[t])
  BY <1>2, <1>5 DEF Pages, Lost
<1> QED
  BY <1>1, <1>6, <1>7
-----------------------------------------------------------------------------
(***************************************************************************)
(* The first layer: types, locks, and the ids of uploads.                  *)
(***************************************************************************)

\* Where nobody learns of an upload but from who knows it, and none is minted.
LEMMA LayoutKeeps ==
  ASSUME OneLayout, nextId' = nextId,
         state' \in {state, tmp, None},
         tmp' \in {tmp, None} \/ \E r \in Reqs : tmp' = req[r].st,
         \A x \in Reqs : \/ req'[x].st = None
                         \/ req'[x].st = req[x].st
                         \/ state # None /\ req'[x].st.id = state.id /\ req'[x].st.size = state.size,
         \A s \in Sessions :
           \/ page'[s].id = 0
           \/ page'[s].id = page[s].id /\ page'[s].file = page[s].file
           \/ \E r \in Reqs : /\ req[r].st # None /\ page'[s].id = req[r].st.id
                              /\ Size[page'[s].file] = req[r].st.size
  PROVE  OneLayout'
<1>1. ASSUME NEW i \in Ids, NEW z \in Sizes, Knows(i, z)'
      PROVE  Knows(i, z)
  <2>1. CASE state' # None /\ state'.id = i /\ state'.size = z
    BY <2>1 DEF Knows
  <2>2. CASE tmp' # None /\ tmp'.id = i /\ tmp'.size = z
    BY <2>2 DEF Knows
  <2>3. CASE \E r \in Reqs : req'[r].st # None /\ req'[r].st.id = i /\ req'[r].st.size = z
    BY <2>3 DEF Knows
  <2>4. CASE \E s \in Sessions : page'[s].id # 0 /\ page'[s].id = i /\ Size[page'[s].file] = z
    BY <2>4 DEF Knows
  <2> QED
    BY <1>1, <2>1, <2>2, <2>3, <2>4 DEF Knows
<1>2. \A i \in Ids, z \in Sizes : Knows(i, z)' => i <= nextId'
  BY <1>1 DEF OneLayout
<1>3. \A i \in Ids, y, z \in Sizes : Knows(i, y)' /\ Knows(i, z)' => y = z
  BY <1>1 DEF OneLayout
<1> QED
  BY <1>2, <1>3 DEF OneLayout

LEMMA Parts1 ==
  Inv1 => /\ FilesTyped /\ BoundsTyped /\ Requests /\ Pages /\ Owned /\ Locked /\ OneLayout
          /\ None \notin Reqs
BY UploadAssumption DEF Inv1

\* A request of a chunk stays within its locks.
Within(q, p) ==
  /\ q.pc \in Writing => p.pc \in Writing
  /\ q.pc \in Saving => p.pc \in Saving

LEMMA Moved1 ==
  ASSUME Inv1, NEW r \in Reqs, NEW q, Moves(r, q), FilesTyped', BoundsTyped',
         nextId' = nextId, segLock' = segLock, stateLock' = stateLock,
         state' \in {state, None}, tmp' \in {tmp, req[r].st},
         q.op = "init" /\ q.pc # "read" => q.st.size = Size[FileOf(req[r])],
         q.op = "chunk" /\ q.pc # "read" => q.index \in Indices(Size[FileOf(req[r])]),
         q.op = "chunk" => Within(q, req[r]),
         \/ q.st = req[r].st
         \/ state # None /\ q.st.id = state.id /\ q.st.size = state.size
  PROVE  Inv1'
<1>1. /\ req'[r] = q /\ page' = page /\ \A x \in Reqs \ {r} : req'[x] = req[x]
      /\ Kin(q, req[r])
  BY Parts1, MovesOne DEF Moves
<1>2. Requests' /\ Pages' /\ Owned'
  BY Parts1, MoveKeeps DEF Moves
<1>3. Locked'
  BY <1>1, Parts1 DEF Locked, Kin, Within
<1>4. \A x \in Reqs : \/ req'[x].st = req[x].st
                      \/ state # None /\ req'[x].st.id = state.id /\ req'[x].st.size = state.size
  BY <1>1
<1>5. OneLayout'
  BY <1>1, <1>4, Parts1, LayoutKeeps
<1> QED
  BY <1>2, <1>3, <1>5 DEF Inv1

\* Locks are kept, or those of one request released.
Releases(r) == (segLock' = segLock /\ stateLock' = stateLock) \/ Unlock(r)

LEMMA Ended1 ==
  ASSUME Inv1, NEW r \in Reqs, Requests', Pages', Owned', FilesTyped', BoundsTyped',
         nextId' = nextId, Releases(r),
         state' \in {state, tmp, None}, tmp' \in {tmp, None},
         req'[r] = Idle,
         \A x \in Reqs \ {r} : Kin(req'[x], req[x]) /\ req'[x].pc = req[x].pc /\ req'[x].st = req[x].st,
         \A s \in Sessions : \/ page'[s].id = page[s].id /\ page'[s].file = page[s].file
                             \/ /\ req[r].st # None /\ page'[s].id = req[r].st.id
                                /\ Size[page'[s].file] = req[r].st.size
  PROVE  Inv1'
<1>1. Locked'
  <2> SUFFICES ASSUME NEW x \in Reqs, req'[x].op = "chunk"
               PROVE  /\ req'[x].pc \in Writing => segLock'[req'[x].index] = x
                      /\ req'[x].pc \in Saving => stateLock' = x
    BY DEF Locked
  <2>1. x # r
    BY IdleHandled, Named
  <2>2. /\ req[x].op = "chunk" /\ req'[x].index = req[x].index /\ req'[x].pc = req[x].pc
        /\ req[x].index \in Chunks
    BY <2>1, Parts1, Named DEF Kin, Requests, Handled, RequestOK
  <2>3. /\ req[x].pc \in Writing => segLock[req[x].index] = x
        /\ req[x].pc \in Saving => stateLock = x
    BY <2>2, Parts1 DEF Locked
  <2> QED
    BY <2>1, <2>2, <2>3 DEF Releases, Unlock
<1>2. \A x \in Reqs : req'[x].st = None \/ req'[x].st = req[x].st
  BY IdleHandled
<1>3. OneLayout'
  BY <1>2, Parts1, LayoutKeeps
<1> QED
  BY <1>1, <1>3 DEF Inv1

\* The same for a request that ends and leaves all others as they were.
LEMMA Over1 ==
  ASSUME Inv1, NEW r \in Reqs, Requests', Pages', Owned', FilesTyped', BoundsTyped',
         nextId' = nextId, Releases(r),
         state' \in {state, tmp, None}, tmp' \in {tmp, None}, Ends(r),
         \A s \in Sessions : page'[s].id = page[s].id /\ page'[s].file = page[s].file
  PROVE  Inv1'
<1>1. req'[r] = Idle /\ \A x \in Reqs \ {r} :
        Kin(req'[x], req[x]) /\ req'[x].pc = req[x].pc /\ req'[x].st = req[x].st
  BY DEF Ends, Kin
<1> QED
  BY <1>1, Ended1

\* A request that was sent holds no lock and knows of no upload but its own.
LEMMA Arrived1 ==
  ASSUME Inv1, NEW r \in Reqs, NEW op, NEW s, NEW i, Arrives(r, op, s, i),
         Requests', Pages', Owned', FilesTyped', BoundsTyped',
         nextId' = nextId, UNCHANGED <<files, locks>>,
         \A t \in Sessions : \/ page'[t].id = 0
                             \/ page'[t].id = page[t].id /\ page'[t].file = page[t].file
  PROVE  Inv1'
<1>1. state' = state /\ tmp' = tmp /\ segLock' = segLock /\ stateLock' = stateLock
  BY DEF files, locks
<1>2. req'[r].pc = "read" /\ req'[r].st = None /\ \A x \in Reqs \ {r} : req'[x] = req[x]
  BY DEF Arrives
<1>3. Locked'
  BY <1>1, <1>2, Parts1 DEF Locked, Writing, Saving
<1>4. \A x \in Reqs : req'[x].st = None \/ req'[x].st = req[x].st
  BY <1>2
<1>5. OneLayout'
  BY <1>1, <1>4, Parts1, LayoutKeeps
<1> QED
  BY <1>3, <1>5 DEF Inv1

\* A page that changes by itself.
LEMMA Paged1 ==
  ASSUME Inv1, Requests', Pages', Owned', req' = req, FilesTyped', BoundsTyped',
         nextId' = nextId, UNCHANGED <<files, locks>>,
         \A t \in Sessions : page'[t].id = page[t].id /\ page'[t].file = page[t].file
  PROVE  Inv1'
<1>1. state' = state /\ tmp' = tmp /\ segLock' = segLock /\ stateLock' = stateLock
  BY DEF files, locks
<1>2. Locked'
  BY <1>1, Parts1 DEF Locked
<1>3. OneLayout'
  BY <1>1, Parts1, LayoutKeeps
<1> QED
  BY <1>2, <1>3 DEF Inv1

\* The record under a request's id has the layout of its file.
LEMMA SameLayout ==
  ASSUME Inv1, NEW r \in Reqs, req[r].op \in {"chunk", "complete", "abort"},
         state # None, state.id = req[r].id
  PROVE  state.size = Size[FileOf(req[r])] /\ FileOf(req[r]) \in Files
<1> DEFINE s == req[r].session
<1>1. req[r].op # None
  BY Named
<1>2. /\ s \in Sessions /\ page[s].file \in Files
      /\ page[s].id = req[r].id /\ req[r].id # 0
  BY <1>1, Parts1, HandledRequest DEF Owned, OwnedOK
<1>3. state.id \in Ids /\ state.size \in Sizes /\ Size[page[s].file] \in Sizes
  BY <1>2, Parts1, FileChunks DEF FilesTyped, chunkUploadState, Sizes
<1>4. Knows(state.id, state.size) /\ Knows(state.id, Size[page[s].file])
  BY <1>2 DEF Knows
<1>5. state.size = Size[page[s].file]
  BY <1>3, <1>4, Parts1 DEF OneLayout
<1> QED
  BY <1>2, <1>5 DEF FileOf

LEMMA FilesKept ==
  ASSUME FilesTyped, UNCHANGED <<files, locks, nextId, promised>>
  PROVE  FilesTyped'
BY DEF FilesTyped, files, locks

LEMMA BoundsKept == BoundsTyped /\ UNCHANGED bounds => BoundsTyped'
BY DEF BoundsTyped, bounds

LEMMA FaultBounded ==
  BoundsTyped /\ Fault /\ UNCHANGED <<crashes, aborts, closes>> => BoundsTyped'
BY UploadAssumption DEF BoundsTyped, Fault

\* What a request that is not over owns.
LEMMA OwnedFile ==
  ASSUME Inv1, NEW r \in Reqs, req[r].op = "chunk", req[r].pc # "read"
  PROVE  /\ req[r].index \in Indices(Size[FileOf(req[r])]) /\ FileOf(req[r]) \in Files
         /\ req[r].index \in Chunks /\ req[r].st # None
<1>1. req[r].op # None /\ req[r] \in Handled
  BY Named, Parts1 DEF Requests
<1>2. req[r].pc # "idle"
  BY <1>1, Named
<1>3. RequestOK(req[r]) /\ FileOf(req[r]) \in Files
  BY <1>1, Parts1, HandledRequest DEF FileOf
<1>4. req[r].index \in Chunks /\ req[r].st # None
  BY <1>1, <1>2, <1>3 DEF RequestOK
<1>5. req[r].index \in Indices(Size[FileOf(req[r])])
  BY Parts1 DEF Owned, OwnedOK, FileOf
<1> QED
  BY <1>3, <1>4, <1>5

LEMMA InitRead1 ==
  ASSUME Inv1, NEW r \in Reqs, InitRead(r)
  PROVE  Inv1'
<1>1. PICK q :
        /\ Moves(r, q) /\ q.op = "init" /\ q.pc = "tmp"
        /\ q.st.size = Size[FileOf(req[r])] /\ q.st \in chunkUploadState
        /\ \/ state # None /\ q.st = state /\ nextId' = nextId
           \/ q.st.id = nextId + 1 /\ q.st.received = {} /\ nextId' = nextId + 1
  BY Parts1, InitReadEffect
<1>2. UNCHANGED <<files, locks, promised, bounds>> /\ nextId \in Nat
  BY Parts1 DEF InitRead, FilesTyped, Ids
<1>3. FilesTyped' /\ BoundsTyped'
  BY <1>1, <1>2, Parts1, BoundsKept DEF FilesTyped, files, locks, Ids
<1>4. CASE nextId' = nextId /\ state # None /\ q.st = state
  BY <1>1, <1>2, <1>3, <1>4, Named, Moved1 DEF files, locks
<1>5. CASE q.st.id = nextId + 1 /\ nextId' = nextId + 1
  <2>1. /\ req'[r] = q /\ page' = page /\ \A x \in Reqs \ {r} : req'[x] = req[x]
        /\ Kin(q, req[r])
    BY <1>1, Parts1, MovesOne DEF Moves
  <2>2. Requests' /\ Pages' /\ Owned'
    BY <1>1, Parts1, Named, MoveKeeps DEF Moves
  <2>3. Locked'
    <3>1. req'[r].op = "init" /\ segLock' = segLock /\ stateLock' = stateLock
      BY <1>1, <1>2, <2>1 DEF locks
    <3> QED
      BY <2>1, <3>1, Parts1 DEF Locked
  <2>4. ASSUME NEW i \in Ids, NEW z \in Sizes, Knows(i, z)'
        PROVE  Knows(i, z) \/ (i = nextId + 1 /\ z = q.st.size)
    <3>1. state' = state /\ tmp' = tmp
      BY <1>2 DEF files
    <3> QED
      BY <1>5, <2>1, <2>4, <3>1 DEF Knows
  <2>5. \A i \in Ids, z \in Sizes : Knows(i, z)' => i <= nextId'
    BY <1>2, <1>5, <2>4, Parts1 DEF OneLayout, Ids
  <2>6. \A i \in Ids, y, z \in Sizes : Knows(i, y)' /\ Knows(i, z)' => y = z
    <3> SUFFICES ASSUME NEW i \in Ids, NEW y \in Sizes, NEW z \in Sizes, Knows(i, y)', Knows(i, z)'
                 PROVE  y = z
      OBVIOUS
    <3>1. CASE i = nextId + 1
      <4>1. ~Knows(i, y) /\ ~Knows(i, z)
        BY <1>2, <3>1, Parts1 DEF OneLayout, Ids
      <4> QED
        BY <2>4, <4>1
    <3>2. CASE i # nextId + 1
      BY <2>4, <3>2, Parts1 DEF OneLayout
    <3> QED
      BY <3>1, <3>2
  <2>7. OneLayout'
    BY <2>5, <2>6 DEF OneLayout
  <2> QED
    BY <1>3, <2>2, <2>3, <2>7 DEF Inv1
<1> QED
  BY <1>1, <1>4, <1>5

\* Errors that leave all files alone.
LEMMA Error1 ==
  ASSUME Inv1, NEW r \in Reqs, AnswerError(r), req[r].op # None, FilesTyped', BoundsTyped',
         nextId' = nextId, state' = state, tmp' = tmp, Releases(r)
  PROVE  Inv1'
<1>1. Requests' /\ Pages' /\ Owned' /\ Ends(r) /\ \A t \in Sessions : Lost(page[t], page'[t])
  BY Parts1, ErrorKeeps
<1>2. \A t \in Sessions : page'[t].id = page[t].id /\ page'[t].file = page[t].file
  BY <1>1 DEF Lost
<1> QED
  BY <1>1, <1>2, Over1

LEMMA ChunkRead1 ==
  ASSUME Inv1, NEW r \in Reqs, ChunkRead(r)
  PROVE  Inv1'
<1>1. UNCHANGED <<files, locks, nextId, promised, bounds>> /\ req[r].op = "chunk" /\ req[r].op # None
  BY Named DEF ChunkRead, At
<1>2. /\ FilesTyped' /\ BoundsTyped' /\ state' = state /\ tmp' = tmp /\ nextId' = nextId
      /\ segLock' = segLock /\ stateLock' = stateLock
  BY <1>1, Parts1, FilesKept, BoundsKept DEF files, locks
<1>3. CASE AnswerError(r)
  BY <1>1, <1>2, <1>3, Error1 DEF Releases
<1>4. CASE \E q : /\ Moves(r, q) /\ q.op = "chunk" /\ q.pc = "segment lock" /\ q.st = state
                  /\ state # None /\ state.id = req[r].id /\ req[r].index \in Indices(state.size)
  <2>1. PICK q : /\ Moves(r, q) /\ q.op = "chunk" /\ q.pc = "segment lock" /\ q.st = state
                 /\ state # None /\ state.id = req[r].id /\ req[r].index \in Indices(state.size)
    BY <1>4
  <2>2. state.size = Size[FileOf(req[r])]
    BY <1>1, <2>1, SameLayout
  <2>3. q.index = req[r].index /\ Within(q, req[r])
    BY <2>1 DEF Moves, Kin, Within, Writing, Saving
  <2> QED
    BY <1>2, <2>1, <2>2, <2>3, Moved1
<1> QED
  BY <1>3, <1>4, Parts1, ChunkReadEffect

\* A chunk on its way, where only its segment changes.
LEMMA Stepped1 ==
  ASSUME Inv1, NEW r \in Reqs, NEW q, Moves(r, q), q.op = "chunk", q.st = req[r].st, req[r].pc # "read",
         Within(q, req[r]), FilesTyped', UNCHANGED <<state, tmp, dst, locks, nextId, promised, bounds>>
  PROVE  Inv1'
<1>1. BoundsTyped' /\ state' = state /\ tmp' = tmp /\ nextId' = nextId /\ segLock' = segLock /\ stateLock' = stateLock
  BY Parts1, BoundsKept DEF locks
<1>2. req[r].op = "chunk" /\ q.index = req[r].index
  BY DEF Moves, Kin
<1>3. q.index \in Indices(Size[FileOf(req[r])])
  BY <1>2, OwnedFile
<1> QED
  BY <1>1, <1>3, Moved1

LEMMA ChunkOpen1 ==
  ASSUME Inv1, NEW r \in Reqs, ChunkOpen(r)
  PROVE  Inv1'
<1>1. /\ UNCHANGED <<state, tmp, dst, locks, nextId, promised, bounds>>
      /\ req[r].op = "chunk" /\ req[r].pc = "open"
      /\ seg' = [seg EXCEPT ![req[r].index] = [file |-> FileOf(req[r]), len |-> 0]]
  BY DEF ChunkOpen, At, FileOf, PageOf
<1>2. PICK q : Moves(r, q) /\ q.op = "chunk" /\ q.pc = "copy" /\ q.st = req[r].st
  BY Parts1, ChunkOpenEffect
<1>3. FilesTyped'
  <2>1. [file |-> FileOf(req[r]), len |-> 0] \in Content
    BY <1>1, OwnedFile, Contents
  <2>2. seg' \in [Chunks -> Content \cup {None}]
    BY <1>1, <2>1, Parts1 DEF FilesTyped
  <2> QED
    BY <1>1, <2>2, Parts1 DEF FilesTyped, locks
<1>4. Within(q, req[r])
  BY <1>1, <1>2 DEF Within, Writing, Saving
<1> QED
  BY <1>1, <1>2, <1>3, <1>4, Stepped1

LEMMA ChunkCopy1 ==
  ASSUME Inv1, NEW r \in Reqs, ChunkCopy(r)
  PROVE  Inv1'
<1>1. /\ UNCHANGED <<state, tmp, dst, locks, nextId, promised, bounds>>
      /\ req[r].op = "chunk" /\ req[r].pc = "copy"
      /\ seg' = [seg EXCEPT ![req[r].index] = WholeChunk(FileOf(req[r]), req[r].index)]
  BY DEF ChunkCopy, At, FileOf, PageOf
<1>2. PICK q : Moves(r, q) /\ q.op = "chunk" /\ q.pc = "state lock" /\ q.st = req[r].st
  BY Parts1, ChunkCopyEffect
<1>3. FilesTyped'
  <2>1. WholeChunk(FileOf(req[r]), req[r].index) \in Content
    BY <1>1, OwnedFile, Contents
  <2>2. seg' \in [Chunks -> Content \cup {None}]
    BY <1>1, <2>1, Parts1 DEF FilesTyped
  <2> QED
    BY <1>1, <2>2, Parts1 DEF FilesTyped, locks
<1>4. Within(q, req[r])
  BY <1>1, <1>2 DEF Within, Writing, Saving
<1> QED
  BY <1>1, <1>2, <1>3, <1>4, Stepped1

LEMMA ChunkLockSegment1 ==
  ASSUME Inv1, NEW r \in Reqs, ChunkLockSegment(r)
  PROVE  Inv1'
<1> DEFINE i == req[r].index
<1>1. /\ UNCHANGED <<files, stateLock, nextId, promised, bounds>>
      /\ req[r].op = "chunk" /\ req[r].pc = "segment lock"
  BY DEF ChunkLockSegment, At
<1>2. /\ BoundsTyped' /\ state' = state /\ tmp' = tmp /\ nextId' = nextId /\ stateLock' = stateLock
  BY <1>1, Parts1, BoundsKept DEF files
<1>3. CASE Answer(r, ChunkStored(PageOf(r), i)) /\ segLock' = segLock
  <2>1. /\ Requests' /\ Pages' /\ Owned' /\ Ends(r)
        /\ \A t \in Sessions : page'[t].id = page[t].id /\ page'[t].file = page[t].file
    BY <1>1, <1>3, Parts1, StoredKeeps
  <2>2. FilesTyped'
    BY <1>1, <1>3, Parts1, FilesKept DEF locks
  <2> QED
    BY <1>2, <1>3, <2>1, <2>2, Over1 DEF Releases
<1>4. CASE /\ segLock' = [segLock EXCEPT ![i] = r] /\ segLock[i] = None
           /\ \E q : Moves(r, q) /\ q.op = "chunk" /\ q.pc = "open" /\ q.st = req[r].st
  <2>1. PICK q : Moves(r, q) /\ q.op = "chunk" /\ q.pc = "open" /\ q.st = req[r].st
    BY <1>4
  <2>2. /\ req'[r] = q /\ page' = page /\ \A x \in Reqs \ {r} : req'[x] = req[x]
        /\ Kin(q, req[r])
    BY <2>1, Parts1, MovesOne DEF Moves
  <2>3. i \in Indices(Size[FileOf(req[r])]) /\ i \in Chunks
    BY <1>1, OwnedFile
  <2>4. Requests' /\ Pages' /\ Owned'
    BY <2>1, <2>2, <2>3, Parts1, MoveKeeps DEF Moves, Kin
  <2>5. FilesTyped'
    BY <1>1, <1>4, <2>3, Parts1 DEF FilesTyped, files
  <2>6. Locked'
    <3> SUFFICES ASSUME NEW x \in Reqs, req'[x].op = "chunk"
                 PROVE  /\ req'[x].pc \in Writing => segLock'[req'[x].index] = x
                        /\ req'[x].pc \in Saving => stateLock' = x
      BY DEF Locked
    <3>1. CASE x = r
      BY <1>4, <2>1, <2>2, <2>3, <3>1, Parts1 DEF Kin, Saving, FilesTyped
    <3>2. CASE x # r
      <4>1. req[x].index \in Chunks
        BY <2>2, <3>2, Parts1, Named DEF Requests, Handled, RequestOK
      <4>2. /\ req[x].pc \in Writing => segLock[req[x].index] = x
            /\ req[x].pc \in Saving => stateLock = x
        BY <2>2, <3>2, Parts1 DEF Locked
      <4> QED
        BY <1>2, <1>4, <2>2, <3>2, <4>1, <4>2, Parts1 DEF FilesTyped
    <3> QED
      BY <3>1, <3>2
  <2>7. \A x \in Reqs : req'[x].st = req[x].st
    BY <2>1, <2>2
  <2>8. OneLayout'
    BY <1>2, <2>2, <2>7, Parts1, LayoutKeeps
  <2> QED
    BY <1>2, <2>4, <2>5, <2>6, <2>8 DEF Inv1
<1> QED
  BY <1>3, <1>4, Parts1, ChunkLockSegmentEffect

LEMMA ChunkLockState1 ==
  ASSUME Inv1, NEW r \in Reqs, ChunkLockState(r)
  PROVE  Inv1'
<1>1. /\ UNCHANGED <<files, nextId, promised, bounds>> /\ stateLock = None
      /\ req[r].op = "chunk" /\ req[r].pc = "state lock" /\ req[r].op # None
  BY Named DEF ChunkLockState, At
<1>2. /\ BoundsTyped' /\ state' = state /\ tmp' = tmp /\ nextId' = nextId
  BY <1>1, Parts1, BoundsKept DEF files
<1>3. CASE AnswerError(r) /\ Unlock(r)
  <2>1. FilesTyped'
    BY <1>1, <1>3, Parts1 DEF FilesTyped, files, Unlock
  <2> QED
    BY <1>1, <1>2, <1>3, <2>1, Error1 DEF Releases
<1>4. CASE /\ state # None /\ stateLock' = r /\ segLock' = segLock
           /\ \E q : /\ Moves(r, q) /\ q.op = "chunk" /\ q.pc = "tmp"
                     /\ q.st = [state EXCEPT !.received = @ \cup {req[r].index}]
                     /\ q.st \in chunkUploadState /\ q.st.id = state.id /\ q.st.size = state.size
  <2>1. PICK q : /\ Moves(r, q) /\ q.op = "chunk" /\ q.pc = "tmp"
                 /\ q.st \in chunkUploadState /\ q.st.id = state.id /\ q.st.size = state.size
    BY <1>4
  <2>2. /\ req'[r] = q /\ page' = page /\ \A x \in Reqs \ {r} : req'[x] = req[x]
        /\ Kin(q, req[r])
    BY <2>1, Parts1, MovesOne DEF Moves
  <2>3. req[r].index \in Indices(Size[FileOf(req[r])])
    BY <1>1, OwnedFile
  <2>4. Requests' /\ Pages' /\ Owned'
    BY <2>1, <2>2, <2>3, Parts1, MoveKeeps DEF Moves, Kin
  <2>5. FilesTyped'
    BY <1>1, <1>4, Parts1 DEF FilesTyped, files
  <2>6. Locked'
    <3> SUFFICES ASSUME NEW x \in Reqs, req'[x].op = "chunk"
                 PROVE  /\ req'[x].pc \in Writing => segLock'[req'[x].index] = x
                        /\ req'[x].pc \in Saving => stateLock' = x
      BY DEF Locked
    <3>1. CASE x = r
      BY <1>1, <1>4, <2>2, <3>1, Parts1 DEF Kin, Writing, Locked
    <3>2. CASE x # r
      BY <1>1, <1>4, <2>2, <3>2, Parts1 DEF Locked
    <3> QED
      BY <3>1, <3>2
  <2>7. \A x \in Reqs : \/ req'[x].st = req[x].st
                        \/ state # None /\ req'[x].st.id = state.id /\ req'[x].st.size = state.size
    BY <1>4, <2>1, <2>2
  <2>8. OneLayout'
    BY <1>2, <2>2, <2>7, Parts1, LayoutKeeps
  <2> QED
    BY <1>2, <2>4, <2>5, <2>6, <2>8 DEF Inv1
<1> QED
  BY <1>3, <1>4, Parts1, ChunkLockStateEffect

LEMMA WriteTmp1 ==
  ASSUME Inv1, NEW r \in Reqs, WriteTmp(r)
  PROVE  Inv1'
<1>1. /\ UNCHANGED <<state, seg, dst, locks, page, nextId, promised, bounds>>
      /\ tmp' = req[r].st /\ req[r].pc = "tmp"
  BY DEF WriteTmp
<1>2. req[r].op \in {"init", "chunk"} /\ req[r].st # None
  BY Parts1, WriteTmpEffect
<1>3. PICK q : Moves(r, q) /\ q.pc = "rename" /\ q.st = req[r].st
  BY Parts1, WriteTmpEffect
<1>4. req[r].st \in chunkUploadState
  BY <1>2, Parts1 DEF Requests, Handled, Request
<1>5. FilesTyped' /\ BoundsTyped'
  BY <1>1, <1>4, Parts1, BoundsKept DEF FilesTyped, locks
<1>6. /\ q.op = req[r].op /\ q.index = req[r].index /\ Within(q, req[r])
      /\ nextId' = nextId /\ state' = state /\ segLock' = segLock /\ stateLock' = stateLock
  BY <1>1, <1>3 DEF Moves, Kin, Within, Writing, Saving, locks
<1>7. q.op = "init" => q.st.size = Size[FileOf(req[r])]
  BY <1>1, <1>3, <1>6, Parts1 DEF Owned, OwnedOK, FileOf
<1>8. q.op = "chunk" => q.index \in Indices(Size[FileOf(req[r])])
  BY <1>1, <1>6, OwnedFile
<1> QED
  BY <1>1, <1>3, <1>5, <1>6, <1>7, <1>8, Moved1

LEMMA Rename1 ==
  ASSUME Inv1, NEW r \in Reqs, Rename(r)
  PROVE  Inv1'
<1>1. /\ UNCHANGED <<seg, dst, nextId, promised, bounds>> /\ req[r].pc = "rename"
  BY DEF Rename
<1>2. /\ Requests' /\ Pages' /\ Owned' /\ Ends(r) /\ Unlock(r)
      /\ req[r].op \in {"init", "chunk"} /\ req[r].st # None
      /\ \/ state' = state /\ tmp' = tmp /\ tmp = None
         \/ tmp # None /\ state' = tmp /\ tmp' = None
  BY Parts1, RenameEffect
<1>3. FilesTyped' /\ BoundsTyped'
  BY <1>1, <1>2, Parts1, BoundsKept DEF FilesTyped, Unlock
<1>4. ASSUME NEW t \in Sessions
      PROVE  \/ page'[t].id = page[t].id /\ page'[t].file = page[t].file
             \/ /\ req[r].op = "init" /\ t = req[r].session
                /\ page'[t].id = req[r].st.id /\ page'[t].file = page[t].file
  BY Parts1, RenameEffect DEF Lost
<1>5. req[r].op = "init" => req[r].st.size = Size[page[req[r].session].file]
  BY <1>1, Parts1 DEF Owned, OwnedOK
<1>6. \A t \in Sessions : \/ page'[t].id = page[t].id /\ page'[t].file = page[t].file
                          \/ /\ req[r].st # None /\ page'[t].id = req[r].st.id
                             /\ Size[page'[t].file] = req[r].st.size
  BY <1>2, <1>4, <1>5
<1>7. req'[r] = Idle /\ \A x \in Reqs \ {r} :
        Kin(req'[x], req[x]) /\ req'[x].pc = req[x].pc /\ req'[x].st = req[x].st
  BY <1>2 DEF Ends, Kin
<1>8. state' \in {state, tmp, None} /\ tmp' \in {tmp, None} /\ Releases(r) /\ nextId' = nextId
  BY <1>1, <1>2 DEF Releases
<1> QED
  BY <1>2, <1>3, <1>6, <1>7, <1>8, Ended1

LEMMA CompleteRead1 ==
  ASSUME Inv1, NEW r \in Reqs, CompleteRead(r)
  PROVE  Inv1'
<1>1. UNCHANGED <<files, locks, nextId, promised, bounds>> /\ req[r].op = "complete" /\ req[r].op # None
  BY Named DEF CompleteRead, At
<1>2. /\ FilesTyped' /\ BoundsTyped' /\ state' = state /\ tmp' = tmp /\ nextId' = nextId
      /\ segLock' = segLock /\ stateLock' = stateLock
  BY <1>1, Parts1, FilesKept, BoundsKept DEF files, locks
<1>3. CASE AnswerError(r)
  BY <1>1, <1>2, <1>3, Error1 DEF Releases
<1>4. CASE /\ state # None
           /\ Answer(r, Conflicted(PageOf(r), Indices(state.size) \ state.received))
  <2>1. /\ Requests' /\ Pages' /\ Owned' /\ Ends(r)
        /\ \A t \in Sessions : page'[t].id = page[t].id /\ page'[t].file = page[t].file
    BY <1>1, <1>4, Parts1, ConflictEffect
  <2> QED
    BY <1>2, <2>1, Over1 DEF Releases
<1>5. CASE \E q : Moves(r, q) /\ q.op = "complete" /\ q.pc = "create" /\ q.st = state /\ state # None
  BY <1>2, <1>5, Moved1
<1> QED
  BY <1>3, <1>4, <1>5, Parts1, CompleteReadEffect

\* A complete, or the abort, that moves along; the destination or a segment may change.
LEMMA Worked1 ==
  ASSUME Inv1, NEW r \in Reqs, NEW q, Moves(r, q), req[r].op \in {"complete", "abort"},
         q.st = req[r].st \/ (state # None /\ q.st = state),
         FilesTyped', UNCHANGED <<state, tmp, locks, nextId, bounds>>
  PROVE  Inv1'
<1>1. BoundsTyped' /\ state' = state /\ tmp' = tmp /\ nextId' = nextId /\ segLock' = segLock /\ stateLock' = stateLock
  BY Parts1, BoundsKept DEF locks
<1>2. q.op \in {"complete", "abort"}
  BY DEF Moves, Kin
<1> QED
  BY <1>1, <1>2, Moved1

LEMMA Fails1 ==
  ASSUME Inv1, NEW r \in Reqs, req[r].op = "complete", AssembleFails(r),
         UNCHANGED <<state, tmp, seg, locks, nextId, promised, bounds>>
  PROVE  Inv1'
<1>1. /\ Requests' /\ Pages' /\ Owned' /\ req'[r] = Idle
      /\ \A x \in Reqs \ {r} : Kin(req'[x], req[x]) /\ req'[x].pc = req[x].pc /\ req'[x].st = req[x].st
  BY Parts1, FailKeeps
<1>2. FilesTyped' /\ BoundsTyped'
  BY Parts1, BoundsKept DEF FilesTyped, AssembleFails, locks
<1>3. \A t \in Sessions : page'[t].id = page[t].id /\ page'[t].file = page[t].file
  BY DEF AssembleFails, Failed, Pages, Shown, Page, Inv1
<1>4. nextId' = nextId /\ Releases(r) /\ state' = state /\ tmp' = tmp
  BY DEF Releases, locks
<1> QED
  BY <1>1, <1>2, <1>3, <1>4, Ended1

\* The segment an assembly is about to append.
LEMMA Appended ==
  ASSUME FilesTyped, Requests, NEW r \in Reqs, req[r].pc = "append"
  PROVE  req[r].n \in Chunks /\ seg[req[r].n] \in Content \cup {None}
<1>1. RequestOK(req[r]) /\ req[r] \in Request
  BY DEF Requests, Handled
<1>2. req[r].st # None /\ req[r].n \in Indices(req[r].st.size)
  BY <1>1 DEF RequestOK
<1>3. req[r].n \in Chunks
  BY <1>1, <1>2, FileChunks DEF Request, chunkUploadState
<1> QED
  BY <1>3 DEF FilesTyped

LEMMA Assemble1 ==
  ASSUME Inv1, Linked, NEW r \in Reqs,
         AssembleCreate(r) \/ AssembleAppend(r) \/ AssembleStat(r) \/ AssembleCheck(r)
  PROVE  Inv1'
<1>1. CASE AssembleCreate(r)
  <2>1. /\ UNCHANGED <<state, tmp, seg, locks, nextId, promised, bounds>> /\ dst' = Empty
        /\ req[r].op = "complete"
    BY <1>1 DEF AssembleCreate, At
  <2>2. FilesTyped'
    BY <2>1, Parts1 DEF FilesTyped, Empty, locks
  <2>3. PICK q : Moves(r, q) /\ q.st = req[r].st
    BY <1>1, Parts1, AssembleCreateEffect
  <2> QED
    BY <2>1, <2>2, <2>3, Worked1
<1>2. CASE AssembleAppend(r)
  <2>1. /\ UNCHANGED <<state, tmp, seg, locks, nextId, promised, bounds>>
        /\ req[r].op = "complete" /\ req[r].pc = "append"
    BY <1>2 DEF AssembleAppend, At
  <2>2. CASE AssembleFails(r)
    BY <2>1, <2>2, Fails1
  <2>3. CASE /\ seg[req[r].n] # None
             /\ dst' = IF req[r].linked THEN [dst EXCEPT ![req[r].n] = seg[req[r].n]] ELSE dst
             /\ \E q : Moves(r, q) /\ q.st = req[r].st
    <3>4. req[r].n \in Chunks /\ seg[req[r].n] \in Content
      BY <2>1, <2>3, Parts1, Appended
    <3>5. dst' \in [Chunks -> Content \cup {None}] \cup {None}
      <4>1. /\ dst \in [Chunks -> Content \cup {None}] \cup {None}
            /\ req[r].linked => dst \in [Chunks -> Content \cup {None}]
        BY Parts1 DEF FilesTyped, Linked
      <4> QED
        BY <2>3, <3>4, <4>1
    <3>6. FilesTyped'
      BY <2>1, <3>5, Parts1 DEF FilesTyped, locks
    <3> QED
      BY <2>1, <2>3, <3>6, Worked1
  <2> QED
    BY <1>2, <2>2, <2>3, Parts1, AssembleAppendEffect
<1>3. CASE AssembleStat(r)
  <2>1. /\ UNCHANGED <<files, locks, page, nextId, promised, bounds>> /\ req[r].op = "complete"
    BY <1>3 DEF AssembleStat, At
  <2>2. FilesTyped' /\ UNCHANGED <<state, tmp>>
    BY <2>1, Parts1, FilesKept DEF files
  <2>3. PICK q : Moves(r, q) /\ q.st = req[r].st
    BY <1>3, Parts1, AssembleStatEffect
  <2> QED
    BY <2>1, <2>2, <2>3, Worked1
<1>4. CASE AssembleCheck(r)
  <2>1. /\ UNCHANGED <<state, tmp, seg, locks, nextId, promised, bounds>> /\ req[r].op = "complete"
    BY <1>4 DEF AssembleCheck, At
  <2>2. CASE AssembleFails(r)
    BY <2>1, <2>2, Fails1
  <2>3. CASE dst' = dst /\ \E q : Moves(r, q) /\ q.st = req[r].st
    <3>1. FilesTyped'
      BY <2>1, <2>3, Parts1 DEF FilesTyped, locks
    <3> QED
      BY <2>1, <2>3, <3>1, Worked1
  <2> QED
    BY <1>4, <2>2, <2>3, Parts1, AssembleCheckEffect
<1> QED
  BY <1>1, <1>2, <1>3, <1>4

LEMMA CleanPoint ==
  ASSUME Requests, NEW r \in Reqs, req[r].pc = "clean"
  PROVE  req[r].op \in {"complete", "abort"} /\ req[r].op # None
<1>1. req[r].pc \in PcOf(req[r].op) /\ req[r].op \in Ops \cup {None}
  BY DEF Requests, Handled, RequestOK, Request
<1>2. req[r].op \in {"complete", "abort"}
  BY <1>1, Named DEF PcOf, Ops
<1> QED
  BY <1>2, Named

LEMMA Clean1 ==
  ASSUME Inv1, NEW r \in Reqs, AbortRead(r) \/ CleanSegment(r) \/ CleanState(r)
  PROVE  Inv1'
<1>1. CASE AbortRead(r)
  <2>1. UNCHANGED <<files, locks, nextId, promised, bounds>> /\ req[r].op = "abort" /\ req[r].op # None
    BY <1>1, Named DEF AbortRead, At
  <2>2. /\ FilesTyped' /\ BoundsTyped' /\ state' = state /\ tmp' = tmp /\ nextId' = nextId /\ Releases(r)
    BY <2>1, Parts1, FilesKept, BoundsKept DEF files, locks, Releases
  <2>3. CASE Answer(r, PageOf(r))
    <3>1. Requests' /\ Pages' /\ Owned'
      BY <2>1, <2>3, Parts1, AnswerKeeps
    <3>2. Ends(r) /\ \A t \in Sessions : page'[t] = page[t]
      BY <2>1, <2>3, Parts1, AnswerEffect
    <3> QED
      BY <2>2, <3>1, <3>2, Over1
  <2>4. CASE state # None /\ \E q : Moves(r, q) /\ q.st = state
    BY <2>1, <2>2, <2>4, Worked1
  <2> QED
    BY <1>1, <2>3, <2>4, Parts1, AbortReadEffect
<1>2. CASE CleanSegment(r)
  <2>1. /\ UNCHANGED <<state, tmp, dst, locks, page, nextId, promised, bounds>>
        /\ seg' = [seg EXCEPT ![req[r].n] = None] /\ req[r].pc = "clean"
    BY <1>2 DEF CleanSegment
  <2>2. FilesTyped'
    BY <2>1, Parts1 DEF FilesTyped, locks
  <2>3. PICK q : Moves(r, q) /\ q.st = req[r].st
    BY <1>2, Parts1, CleanSegmentEffect
  <2>4. req[r].op \in {"complete", "abort"}
    BY <2>1, Parts1, CleanPoint
  <2> QED
    BY <2>1, <2>2, <2>3, <2>4, Worked1
<1>3. CASE CleanState(r)
  <2>1. /\ UNCHANGED <<tmp, seg, dst, locks, nextId, bounds>> /\ req[r].pc = "clean"
    BY <1>3 DEF CleanState
  <2>2. /\ Requests' /\ Pages' /\ Owned' /\ Ends(r)
        /\ state' = None
        /\ promised' = IF req[r].op = "complete" THEN FileOf(req[r]) ELSE promised
        /\ \A t \in Sessions : page'[t].id = page[t].id /\ page'[t].file = page[t].file
    BY <1>3, Parts1, CleanStateEffect
  <2>3. FileOf(req[r]) \in Files
    BY <2>1, Parts1, CleanPoint, HandledRequest DEF FileOf
  <2>4. FilesTyped' /\ BoundsTyped'
    BY <2>1, <2>2, <2>3, Parts1, BoundsKept DEF FilesTyped, locks
  <2>5. nextId' = nextId /\ tmp' = tmp /\ Releases(r)
    BY <2>1 DEF Releases, locks
  <2> QED
    BY <2>2, <2>4, <2>5, Over1
<1> QED
  BY <1>1, <1>2, <1>3

LEMMA InitRefused1 ==
  ASSUME Inv1, NEW r \in Reqs, InitRefused(r)
  PROVE  Inv1'
<1>1. /\ UNCHANGED <<files, locks, nextId, promised, crashes, aborts, closes>> /\ AnswerError(r)
      /\ Fault /\ req[r].op # None
  BY Named DEF InitRefused, At
<1>2. /\ FilesTyped' /\ BoundsTyped' /\ state' = state /\ tmp' = tmp /\ nextId' = nextId /\ Releases(r)
  BY <1>1, Parts1, FilesKept, FaultBounded DEF files, locks, Releases
<1> QED
  BY <1>1, <1>2, Error1

LEMMA ChunkGarbled1 ==
  ASSUME Inv1, NEW r \in Reqs, ChunkGarbled(r)
  PROVE  Inv1'
<1>1. /\ UNCHANGED <<state, tmp, dst, nextId, promised, crashes, aborts, closes>> /\ AnswerError(r)
      /\ Fault /\ Unlock(r) /\ seg' = [seg EXCEPT ![req[r].index] = None] /\ req[r].op # None
  BY Named DEF ChunkGarbled, At
<1>2. FilesTyped' /\ BoundsTyped'
  BY <1>1, Parts1, FaultBounded DEF FilesTyped, Unlock
<1> QED
  BY <1>1, <1>2, Error1 DEF Releases

LEMMA Serve1 ==
  ASSUME Inv1, Linked, NEW r \in Reqs, Serve(r) \/ InitRefused(r) \/ ChunkGarbled(r)
  PROVE  Inv1'
BY InitRead1, ChunkRead1, ChunkLockSegment1, ChunkOpen1, ChunkCopy1, ChunkLockState1, WriteTmp1,
   Rename1, CompleteRead1, Assemble1, Clean1, InitRefused1, ChunkGarbled1 DEF Serve

LEMMA Browse1 ==
  ASSUME Inv1, NEW s \in Sessions, Start(s) \/ Upload(s) \/ SendAbort(s) \/ LoseAnswer(s) \/ Close(s)
  PROVE  Inv1'
<1>1. CASE Start(s)
  <2>1. UNCHANGED <<files, locks, nextId, promised, bounds>>
    BY <1>1 DEF Start
  <2>2. FilesTyped' /\ BoundsTyped' /\ nextId' = nextId
    BY <2>1, Parts1, FilesKept, BoundsKept
  <2>3. PICK r \in Reqs : Arrives(r, "init", s, 0)
    BY <1>1, Parts1, StartEffect
  <2>a. /\ Requests' /\ Pages' /\ Owned'
        /\ page'[s].id = 0 /\ \A t \in Sessions \ {s} : page'[t] = page[t]
    BY <1>1, Parts1, StartEffect
  <2>4. \A t \in Sessions : \/ page'[t].id = 0
                            \/ page'[t].id = page[t].id /\ page'[t].file = page[t].file
    BY <2>a
  <2> QED
    BY <2>1, <2>2, <2>3, <2>4, <2>a, Arrived1
<1>2. ASSUME NEW i \in Chunks, SendChunk(s, i)
      PROVE  Inv1'
  <2>1. UNCHANGED <<files, locks, nextId, promised, bounds>>
    BY <1>2 DEF SendChunk
  <2>2. FilesTyped' /\ BoundsTyped' /\ nextId' = nextId
    BY <2>1, Parts1, FilesKept, BoundsKept
  <2>3. PICK r \in Reqs : Arrives(r, "chunk", s, i)
    BY <1>2, Parts1, SendChunkEffect
  <2>4. /\ Requests' /\ Pages' /\ Owned'
        /\ \A t \in Sessions : page'[t].id = page[t].id /\ page'[t].file = page[t].file
    BY <1>2, Parts1, SendChunkEffect
  <2> QED
    BY <2>1, <2>2, <2>3, <2>4, Arrived1
<1>3. CASE SendComplete(s)
  <2>1. UNCHANGED <<files, locks, nextId, promised, bounds>>
    BY <1>3 DEF SendComplete
  <2>2. FilesTyped' /\ BoundsTyped' /\ nextId' = nextId
    BY <2>1, Parts1, FilesKept, BoundsKept
  <2>3. Requests' /\ Pages' /\ Owned'
    BY <1>3, Parts1, SendCompleteEffect
  <2>4. CASE req' = req /\ \A t \in Sessions : Lost(page[t], page'[t])
    <3>1. \A t \in Sessions : page'[t].id = page[t].id /\ page'[t].file = page[t].file
      BY <2>4 DEF Lost
    <3> QED
      BY <2>1, <2>2, <2>3, <2>4, <3>1, Paged1
  <2>5. ASSUME NEW r \in Reqs, Arrives(r, "complete", s, 0),
               \A t \in Sessions : page'[t].id = page[t].id /\ page'[t].file = page[t].file
        PROVE  Inv1'
    BY <2>1, <2>2, <2>3, <2>5, Arrived1
  <2> QED
    BY <1>3, <2>4, <2>5, Parts1, SendCompleteEffect
<1>4. CASE SendAbort(s)
  <2>1. UNCHANGED <<files, locks, nextId, promised, faults, crashes, closes>>
    BY <1>4 DEF SendAbort
  <2>2. FilesTyped' /\ nextId' = nextId
    BY <2>1, Parts1, FilesKept
  <2>3. BoundsTyped'
    BY <1>4, <2>1, Parts1, UploadAssumption DEF BoundsTyped, SendAbort
  <2>4. PICK r \in Reqs : Arrives(r, "abort", s, 0)
    BY <1>4, Parts1, SendAbortEffect
  <2>5. Requests' /\ Pages' /\ Owned' /\ page' = page
    BY <1>4, Parts1, SendAbortEffect
  <2> QED
    BY <2>1, <2>2, <2>3, <2>4, <2>5, Arrived1
<1>5. CASE LoseAnswer(s)
  <2>1. UNCHANGED <<files, locks, nextId, promised, crashes, aborts, closes>> /\ Fault
    BY <1>5 DEF LoseAnswer
  <2>2. FilesTyped' /\ BoundsTyped' /\ nextId' = nextId
    BY <2>1, Parts1, FilesKept, FaultBounded
  <2>3. Requests' /\ Pages' /\ Owned' /\ req' = req /\ \A t \in Sessions : Lost(page[t], page'[t])
    BY <1>5, Parts1, LoseAnswerEffect
  <2>4. \A t \in Sessions : page'[t].id = page[t].id /\ page'[t].file = page[t].file
    BY <2>3 DEF Lost
  <2> QED
    BY <2>1, <2>2, <2>3, <2>4, Paged1
<1>6. CASE Close(s)
  <2>1. UNCHANGED <<files, locks, nextId, promised, faults, crashes, aborts>>
    BY <1>6 DEF Close
  <2>2. FilesTyped' /\ nextId' = nextId
    BY <2>1, Parts1, FilesKept
  <2>3. BoundsTyped'
    BY <1>6, <2>1, Parts1, UploadAssumption DEF BoundsTyped, Close
  <2>4. Requests' /\ Pages' /\ Owned' /\ req' = req /\ \A t \in Sessions : Lost(page[t], page'[t])
    BY <1>6, Parts1, CloseEffect
  <2>5. \A t \in Sessions : page'[t].id = page[t].id /\ page'[t].file = page[t].file
    BY <2>4 DEF Lost
  <2> QED
    BY <2>1, <2>2, <2>3, <2>4, <2>5, Paged1
<1> QED
  BY <1>1, <1>2, <1>3, <1>4, <1>5, <1>6 DEF Upload

LEMMA Crash1 ==
  ASSUME Inv1, Crash
  PROVE  Inv1'
<1>1. /\ UNCHANGED <<files, nextId, faults, aborts, closes>>
      /\ crashes < MaxCrashes /\ crashes' = crashes + 1
      /\ segLock' = [i \in Chunks |-> None] /\ stateLock' = None
      /\ promised' \in {promised, None}
  BY DEF Crash
<1>2. /\ Requests' /\ Pages' /\ Owned' /\ \A r \in Reqs : req'[r] = Idle
      /\ \A s \in Sessions : page'[s] = Crashed(page[s])
  BY Parts1, CrashKeeps
<1>3. \A s \in Sessions : page'[s].id = page[s].id /\ page'[s].file = page[s].file
  <2>1. \A s \in Sessions : PageOK(page[s])
    BY Parts1, Shapes DEF Pages
  <2> QED
    BY <1>2, <2>1, CrashedOK
<1>4. FilesTyped' /\ BoundsTyped'
  BY <1>1, Parts1, UploadAssumption DEF FilesTyped, BoundsTyped, files
<1>5. Locked'
  BY <1>2, IdleHandled, Named DEF Locked
<1>6. \A x \in Reqs : req'[x].st = None
  BY <1>2, IdleHandled
<1>7. OneLayout'
  BY <1>1, <1>3, <1>6, Parts1, LayoutKeeps DEF files
<1> QED
  BY <1>2, <1>4, <1>5, <1>7 DEF Inv1

LEMMA Next1 == Inv1 /\ Linked /\ [Next]_vars => Inv1'
<1> SUFFICES ASSUME Inv1, Linked, [Next]_vars
             PROVE  Inv1'
  OBVIOUS
<1>1. CASE UNCHANGED vars
  <2>1. /\ UNCHANGED <<files, locks, nextId, promised, bounds>> /\ req' = req /\ page' = page
    BY <1>1 DEF vars
  <2>2. FilesTyped' /\ BoundsTyped' /\ nextId' = nextId
    BY <2>1, Parts1, FilesKept, BoundsKept
  <2>3. Requests' /\ Pages' /\ Owned'
    BY <2>1, Parts1 DEF Requests, Pages, Owned, AwaitedOK, OwnedOK
  <2> QED
    BY <2>1, <2>2, <2>3, Paged1
<1>2. CASE Over
  BY <1>1, <1>2 DEF Over
<1> QED
  BY <1>1, <1>2, Serve1, Browse1, Crash1 DEF Next

LEMMA LinkedNext == Inv1 /\ Linked /\ [Next]_vars => Linked'
<1> SUFFICES ASSUME Inv1, Linked, [Next]_vars
             PROVE  Linked'
  OBVIOUS
<1> DEFINE Same == dst' = dst /\ \A x \in Reqs : req'[x].linked => req[x].linked
<1>a. Idle.linked = FALSE
  BY DEF Idle
<1>b. Same => Linked'
  BY DEF Linked
<1>0. Idle.linked = FALSE /\ (Same => Linked')
  BY <1>a, <1>b
<1>1. \A x \in Reqs : req[x] \in Request
  BY Parts1 DEF Requests, Handled
<1>2. req = [x \in Reqs |-> req[x]]
  BY Parts1 DEF Requests
<1>3. ASSUME NEW r \in Reqs, NEW p, Answer(r, p)
      PROVE  \A x \in Reqs : req'[x].linked => req[x].linked
  BY <1>0, <1>2, <1>3 DEF Answer
<1>4. ASSUME NEW r \in Reqs, AnswerError(r)
      PROVE  \A x \in Reqs : req'[x].linked => req[x].linked
  BY <1>3, <1>4 DEF AnswerError
<1>5. ASSUME NEW r \in Reqs, NEW op, NEW s, NEW i, Send(r, op, s, i)
      PROVE  \A x \in Reqs : req'[x].linked => req[x].linked
  <2>1. [Idle EXCEPT !.op = op, !.session = s, !.id = page[s].id, !.index = i, !.pc = "read"].linked = FALSE
    BY DEF Idle
  <2> QED
    BY <1>2, <1>5, <2>1 DEF Send
<1>6. ASSUME NEW r \in Reqs, NEW t, Goto(r, t)
      PROVE  \A x \in Reqs : req'[x].linked => req[x].linked
  BY <1>1, <1>2, <1>6 DEF Goto, Request
<1>7. ASSUME NEW r \in Reqs, AssembleFails(r)
      PROVE  Linked'
  BY <1>0, <1>1, <1>7 DEF AssembleFails, Linked, Request
<1>8. ASSUME NEW r \in Reqs, Serve(r) \/ InitRefused(r) \/ ChunkGarbled(r)
      PROVE  Linked'
  <2>1. CASE InitRead(r)
    BY <1>0, <1>1, <1>2, <2>1 DEF InitRead, files, Request
  <2>2. CASE ChunkRead(r)
    <3>1. CASE req' = [req EXCEPT ![r].st = state, ![r].pc = "segment lock"]
      BY <1>0, <1>1, <1>2, <2>2, <3>1 DEF ChunkRead, files, Request
    <3> QED
      BY <1>0, <1>4, <2>2, <3>1 DEF ChunkRead, files
  <2>3. CASE ChunkLockSegment(r)
    BY <1>0, <1>3, <1>6, <2>3 DEF ChunkLockSegment, files
  <2>4. CASE ChunkOpen(r) \/ ChunkCopy(r) \/ WriteTmp(r)
    BY <1>0, <1>6, <2>4 DEF ChunkOpen, ChunkCopy, WriteTmp
  <2>5. CASE ChunkLockState(r)
    <3>1. CASE req' = [req EXCEPT ![r].st = [state EXCEPT !.received = @ \cup {req[r].index}],
                                 ![r].pc = "tmp"]
      BY <1>0, <1>1, <1>2, <2>5, <3>1 DEF ChunkLockState, files, Request
    <3> QED
      BY <1>0, <1>4, <2>5, <3>1 DEF ChunkLockState, files
  <2>6. CASE Rename(r)
    BY <1>0, <1>3, <1>4, <2>6 DEF Rename
  <2>7. CASE CompleteRead(r)
    <3>1. CASE req' = [req EXCEPT ![r].st = state, ![r].pc = "create"]
      BY <1>0, <1>1, <1>2, <2>7, <3>1 DEF CompleteRead, files, Request
    <3>2. CASE AnswerError(r) \/ \E p : Answer(r, p)
      BY <1>0, <1>3, <1>4, <2>7, <3>2 DEF CompleteRead, files
    <3> QED
      BY <2>7, <3>1, <3>2 DEF CompleteRead
  <2>8. CASE AssembleCreate(r)
    <3>1. dst' \in [Chunks -> Content \cup {None}]
      BY <2>8 DEF AssembleCreate, Empty
    <3> QED
      BY <3>1 DEF Linked
  <2>9. CASE AssembleAppend(r)
    <3>1. CASE AssembleFails(r)
      BY <1>7, <3>1
    <3>2. CASE /\ dst' = IF req[r].linked THEN [dst EXCEPT ![req[r].n] = seg[req[r].n]] ELSE dst
               /\ req' = [req EXCEPT ![r].stream[req[r].n] = seg[req[r].n], ![r].pc = "stat"]
      <4>1. \A x \in Reqs : req'[x].linked => req[x].linked
        BY <1>1, <1>2, <3>2 DEF Request
      <4>2. req[r].n \in Chunks /\ seg[req[r].n] \in Content \cup {None}
        BY <2>9, Parts1, Appended DEF AssembleAppend, At
      <4>3. dst \in [Chunks -> Content \cup {None}] =>
              [dst EXCEPT ![req[r].n] = seg[req[r].n]] \in [Chunks -> Content \cup {None}]
        BY <4>2
      <4> QED
        BY <3>2, <4>1, <4>3 DEF Linked
    <3> QED
      BY <2>9, <3>1, <3>2 DEF AssembleAppend
  <2>10. CASE AssembleStat(r)
    BY <1>0, <1>1, <1>2, <2>10 DEF AssembleStat, files, Request
  <2>11. CASE AssembleCheck(r)
    BY <1>0, <1>6, <1>7, <2>11 DEF AssembleCheck
  <2>12. CASE AbortRead(r)
    <3>1. CASE req' = [req EXCEPT ![r].st = state, ![r].pc = "clean"]
      BY <1>0, <1>1, <1>2, <2>12, <3>1 DEF AbortRead, files, Request
    <3> QED
      BY <1>0, <1>3, <2>12, <3>1 DEF AbortRead, files
  <2>13. CASE CleanSegment(r)
    BY <1>0, <1>1, <1>2, <2>13 DEF CleanSegment, Request
  <2>14. CASE CleanState(r)
    BY <1>0, <1>3, <2>14 DEF CleanState
  <2>15. CASE InitRefused(r) \/ ChunkGarbled(r)
    BY <1>0, <1>4, <2>15 DEF InitRefused, ChunkGarbled, files
  <2> QED
    BY <1>8, <2>1, <2>2, <2>3, <2>4, <2>5, <2>6, <2>7, <2>8, <2>9, <2>10, <2>11, <2>12, <2>13, <2>14, <2>15 DEF Serve
<1>9. ASSUME NEW s \in Sessions, Start(s) \/ Upload(s) \/ SendAbort(s) \/ LoseAnswer(s) \/ Close(s)
      PROVE  Linked'
  <2>1. CASE Start(s)
    BY <1>0, <1>5, <2>1 DEF Start, Free, files
  <2>2. CASE SendComplete(s)
    BY <1>0, <1>5, <2>2 DEF SendComplete, Free, files
  <2>3. CASE \E i \in Chunks : SendChunk(s, i)
    BY <1>0, <1>5, <2>3 DEF SendChunk, Free, files
  <2>4. CASE SendAbort(s)
    BY <1>0, <1>5, <2>4 DEF SendAbort, Free, files
  <2>5. CASE LoseAnswer(s) \/ Close(s)
    BY <1>0, <2>5 DEF LoseAnswer, Close, files
  <2> QED
    BY <1>9, <2>1, <2>2, <2>3, <2>4, <2>5 DEF Upload
<1>10. CASE Crash
  BY <1>0, <1>10 DEF Crash, files
<1>11. CASE UNCHANGED vars \/ Over
  BY <1>0, <1>11 DEF Over, vars, files
<1> QED
  BY <1>8, <1>9, <1>10, <1>11 DEF Next

LEMMA Init1 == Init => Inv1
<1> SUFFICES ASSUME Init
             PROVE  Inv1
  OBVIOUS
<1>1. None \notin Reqs
  BY UploadAssumption
<1>2. FilesTyped /\ BoundsTyped
  BY UploadAssumption DEF Init, FilesTyped, BoundsTyped, Empty, Ids
<1>3. Requests /\ \A r \in Reqs : req[r] = Idle
  BY IdleHandled DEF Init, Requests
<1>4. Pages
  <2>1. NewPage \in Shown /\ NewPage.call = None /\ \A i \in Chunks : NewPage.waits[i] = None
    BY NewPageOK, Shapes DEF NewPage
  <2> QED
    BY <2>1 DEF Init, Pages, AwaitedOK
<1>5. Owned /\ Locked
  BY <1>3, IdleHandled, Named DEF Owned, OwnedOK, Locked
<1>6. OneLayout
  <2>1. ASSUME NEW i \in Ids, NEW z \in Sizes
        PROVE  ~Knows(i, z)
    BY <1>3, IdleHandled DEF Init, Knows, NewPage
  <2> QED
    BY <2>1 DEF OneLayout
<1> QED
  BY <1>2, <1>3, <1>4, <1>5, <1>6 DEF Inv1

\* Every variable keeps its type, whatever else is uploaded at the same time.
THEOREM TypeCorrect == Spec => []TypeOK
<1>1. Inv1 => TypeOK
  BY Parts1 DEF FilesTyped, BoundsTyped, Requests, Handled, Pages, Shown, TypeOK
<1>2. Init => Linked
  BY DEF Init, Linked, Idle
<1> QED
  BY <1>1, <1>2, Init1, Next1, LinkedNext, PTL DEF Spec
-----------------------------------------------------------------------------
\* What a request that is not r is at and for.
Unmoved(r) ==
  \A x \in Reqs \ {r} : /\ req'[x].op = req[x].op /\ req'[x].pc = req[x].pc
                        /\ req'[x].index = req[x].index

LEMMA OthersUnmoved ==
  ASSUME Inv1, NEW r \in Reqs, Serve(r) \/ InitRefused(r) \/ ChunkGarbled(r)
  PROVE  Unmoved(r)
<1>1. req = [x \in Reqs |-> req[x]] /\ \A x \in Reqs : req[x] \in Request
  BY Parts1 DEF Requests, Handled
<1>2. ASSUME NEW q, req' = [req EXCEPT ![r] = q]
      PROVE  Unmoved(r)
  BY <1>1, <1>2 DEF Unmoved
<1>3. ASSUME NEW p, Answer(r, p)
      PROVE  Unmoved(r)
  BY <1>2, <1>3 DEF Answer
<1>4. AnswerError(r) => Unmoved(r)
  BY <1>3 DEF AnswerError
<1>5. ASSUME NEW t, Goto(r, t)
      PROVE  Unmoved(r)
  BY <1>2, <1>5 DEF Goto
<1>6. ASSUME AssembleFails(r)
      PROVE  Unmoved(r)
  <2>1. ASSUME NEW x \in Reqs \ {r}
        PROVE  req'[x] = [req[x] EXCEPT !.linked = FALSE]
    BY <1>6 DEF AssembleFails
  <2>2. \A x \in Reqs : req[x] \in Request
    BY <1>1
  <2> QED
    BY <2>1, <2>2 DEF Unmoved, Request
<1>7. ASSUME NEW q, Moves(r, q)
      PROVE  Unmoved(r)
  BY <1>2, <1>7 DEF Moves
<1>8. CASE InitRead(r) \/ ChunkOpen(r) \/ ChunkCopy(r) \/ WriteTmp(r) \/ AssembleCreate(r)
           \/ AssembleStat(r) \/ CleanSegment(r)
  <2>1. \E q : Moves(r, q)
    BY <1>8, Parts1, InitReadEffect, ChunkOpenEffect, ChunkCopyEffect, WriteTmpEffect,
       AssembleCreateEffect, AssembleStatEffect, CleanSegmentEffect
  <2> QED
    BY <1>7, <2>1
<1>9. CASE ChunkRead(r) \/ ChunkLockState(r) \/ InitRefused(r) \/ ChunkGarbled(r)
  <2>1. AnswerError(r) \/ \E q : Moves(r, q)
    BY <1>9, Parts1, ChunkReadEffect, ChunkLockStateEffect DEF InitRefused, ChunkGarbled
  <2> QED
    BY <1>4, <1>7, <2>1
<1>10. CASE ChunkLockSegment(r)
  BY <1>3, <1>5, <1>10 DEF ChunkLockSegment
<1>11. CASE Rename(r) \/ CleanState(r)
  <2>1. Ends(r)
    BY <1>11, Parts1, RenameEffect, CleanStateEffect
  <2> QED
    BY <2>1 DEF Ends, Unmoved
<1>12. CASE CompleteRead(r) \/ AbortRead(r)
  <2>1. AnswerError(r) \/ (\E p : Answer(r, p)) \/ \E q : Moves(r, q)
    <3>1. CASE CompleteRead(r)
      BY <3>1, Parts1, CompleteReadEffect
    <3>2. CASE AbortRead(r)
      BY <3>2, Parts1, AbortReadEffect
    <3> QED
      BY <1>12, <3>1, <3>2
  <2> QED
    BY <1>3, <1>4, <1>7, <2>1
<1>13. CASE AssembleAppend(r) \/ AssembleCheck(r)
  <2>1. AssembleFails(r) \/ \E q : Moves(r, q)
    <3>1. CASE AssembleAppend(r)
      BY <3>1, Parts1, AssembleAppendEffect
    <3>2. CASE AssembleCheck(r)
      BY <3>2, Parts1, AssembleCheckEffect
    <3> QED
      BY <1>13, <3>1, <3>2
  <2> QED
    BY <1>6, <1>7, <2>1
<1> QED
  BY <1>8, <1>9, <1>10, <1>11, <1>12, <1>13 DEF Serve

\* The state of one segment that SegmentsWhole speaks of.
WholeOK(i) ==
  \/ seg[i] = None
  \/ seg[i].len = chunkByteLength(Size[seg[i].file], i)
  \/ segLock[i] # None /\ At(segLock[i], "chunk", "copy") /\ req[segLock[i]].index = i

LEMMA WholeStays ==
  ASSUME Inv1, NEW i \in Chunks, WholeOK(i), seg'[i] = seg[i],
         \A x \in Reqs : segLock[i] = x /\ At(x, "chunk", "copy") =>
           /\ segLock'[i] = x /\ At(x, "chunk", "copy")' /\ req'[x].index = req[x].index
  PROVE  WholeOK(i)'
<1>1. segLock[i] \in Reqs \cup {None} /\ None \notin Reqs
  BY Parts1 DEF FilesTyped
<1> QED
  BY <1>1 DEF WholeOK

LEMMA ServeWhole ==
  ASSUME Inv1, NEW r \in Reqs, Serve(r) \/ InitRefused(r) \/ ChunkGarbled(r), NEW i \in Chunks, WholeOK(i)
  PROVE  WholeOK(i)'
<1>1. Unmoved(r)
  BY OthersUnmoved
<1>2. seg \in [Chunks -> Content \cup {None}] /\ segLock \in [Chunks -> Reqs \cup {None}]
  BY Parts1 DEF FilesTyped
<1>3. ASSUME seg'[i] = seg[i], req[r].pc # "copy", Releases(r) \/ segLock'[i] = segLock[i] \/ segLock[i] = None
      PROVE  WholeOK(i)'
  <2>1. None \notin Reqs
    BY Parts1
  <2>2. ASSUME NEW x \in Reqs, segLock[i] = x, At(x, "chunk", "copy")
        PROVE  /\ segLock'[i] = x /\ At(x, "chunk", "copy")' /\ req'[x].index = req[x].index
    <3>1. x # r
      BY <1>3, <2>2 DEF At
    <3>2. segLock'[i] = x
      BY <1>3, <2>1, <2>2, <3>1 DEF Releases, Unlock
    <3> QED
      BY <1>1, <2>2, <3>1, <3>2 DEF Unmoved, At
  <2> QED
    BY <1>3, <2>2, WholeStays
<1>4. CASE ChunkOpen(r)
  <2>1. /\ At(r, "chunk", "open") /\ seg' = [seg EXCEPT ![req[r].index] = [file |-> PageOf(r).file, len |-> 0]]
        /\ segLock' = segLock
    BY <1>4 DEF ChunkOpen, locks
  <2>2. CASE i # req[r].index
    <3>1. seg'[i] = seg[i]
      BY <1>2, <2>1, <2>2
    <3> QED
      BY <1>3, <2>1, <3>1 DEF At
  <2>3. CASE i = req[r].index
    <3>1. segLock'[i] = r /\ None \notin Reqs
      BY <2>1, <2>3, Parts1 DEF Locked, At, Writing
    <3>2. PICK q : Moves(r, q) /\ q.op = "chunk" /\ q.pc = "copy"
      BY <1>4, Parts1, ChunkOpenEffect
    <3>3. req'[r].op = "chunk" /\ req'[r].pc = "copy" /\ req'[r].index = i
      BY <2>3, <3>2, Parts1, MovesOne DEF Moves, Kin
    <3> QED
      BY <3>1, <3>3 DEF WholeOK, At
  <2> QED
    BY <2>2, <2>3
<1>5. CASE ChunkCopy(r) \/ ChunkGarbled(r)
  <2>1. /\ req[r].op = "chunk" /\ req[r].pc = "copy" /\ (segLock' = segLock \/ Unlock(r))
        /\ \/ seg' = [seg EXCEPT ![req[r].index] = None]
           \/ seg' = [seg EXCEPT ![req[r].index] = WholeChunk(PageOf(r).file, req[r].index)]
    BY <1>5 DEF ChunkCopy, ChunkGarbled, At, locks
  <2>2. CASE i = req[r].index
    <3>1. seg'[i] = None \/ seg'[i] = WholeChunk(PageOf(r).file, i)
      BY <1>2, <2>1, <2>2
    <3> QED
      BY <3>1 DEF WholeOK, WholeChunk
  <2>3. CASE i # req[r].index
    <3>1. seg'[i] = seg[i]
      BY <1>2, <2>1, <2>3
    <3>2. segLock[i] # r \/ ~WholeOK(i) \/ seg[i] = None \/ seg[i].len = chunkByteLength(Size[seg[i].file], i)
      BY <2>3 DEF WholeOK
    <3>3. CASE segLock[i] = r
      BY <3>1, <3>2, <3>3 DEF WholeOK
    <3>4. CASE segLock[i] # r
      <4>1. ASSUME NEW x \in Reqs, segLock[i] = x, At(x, "chunk", "copy")
            PROVE  /\ segLock'[i] = x /\ At(x, "chunk", "copy")' /\ req'[x].index = req[x].index
        BY <1>1, <2>1, <3>4, <4>1 DEF Unlock, Unmoved, At
      <4> QED
        BY <3>1, <4>1, WholeStays
    <3> QED
      BY <3>3, <3>4
  <2> QED
    BY <2>2, <2>3
<1>6. CASE CleanSegment(r)
  <2>1. /\ seg' = [seg EXCEPT ![req[r].n] = None] /\ segLock' = segLock /\ req[r].pc # "copy"
    BY <1>6 DEF CleanSegment, locks
  <2>2. CASE seg'[i] = None
    BY <2>2 DEF WholeOK
  <2>3. CASE seg'[i] = seg[i]
    BY <1>3, <2>1, <2>3
  <2> QED
    BY <1>2, <2>1, <2>2, <2>3
<1>7. CASE ChunkLockSegment(r)
  <2>1. seg' = seg /\ req[r].pc # "copy" /\ segLock[req[r].index] = None
        /\ (segLock' = segLock \/ segLock' = [segLock EXCEPT ![req[r].index] = r])
    BY <1>7 DEF ChunkLockSegment, At, files
  <2>2. segLock'[i] = segLock[i] \/ segLock[i] = None
    BY <1>2, <2>1
  <2> QED
    BY <1>3, <2>1, <2>2
<1>8. CASE ChunkLockState(r) \/ Rename(r)
  <2>1. seg' = seg /\ req[r].pc # "copy" /\ (segLock' = segLock \/ Unlock(r))
    BY <1>8 DEF ChunkLockState, Rename, At, files
  <2>2. Unlock(r) \/ segLock'[i] = segLock[i]
    BY <2>1
  <2> QED
    BY <1>3, <2>1, <2>2 DEF Releases
<1>9. CASE \/ InitRead(r) \/ ChunkRead(r) \/ WriteTmp(r) \/ CompleteRead(r) \/ AssembleCreate(r)
           \/ AssembleAppend(r) \/ AssembleStat(r) \/ AssembleCheck(r) \/ AbortRead(r)
           \/ CleanState(r) \/ InitRefused(r)
  <2>1. seg' = seg /\ req[r].pc # "copy" /\ segLock' = segLock
    BY <1>9 DEF InitRead, ChunkRead, WriteTmp, CompleteRead, AssembleCreate, AssembleAppend, AssembleStat,
                AssembleCheck, AbortRead, CleanState, InitRefused, At, files, locks
  <2> QED
    BY <1>3, <2>1
<1> QED
  BY <1>4, <1>5, <1>6, <1>7, <1>8, <1>9 DEF Serve

\* Whatever else is uploaded meanwhile: as long as the process lives, a segment is complete
\* unless the holder of its lock is copying into it.
THEOREM NoTornSegment == Spec => []SegmentsWhole
<1>1. SegmentsWhole <=> (crashes = 0 => \A i \in Chunks : WholeOK(i))
  BY DEF SegmentsWhole, WholeOK
<1>2. Init => Linked /\ SegmentsWhole
  BY DEF Init, Linked, Idle, SegmentsWhole, Empty
<1>3. Inv1 /\ SegmentsWhole /\ [Next]_vars => SegmentsWhole'
  <2> SUFFICES ASSUME Inv1, SegmentsWhole, [Next]_vars, crashes' = 0, NEW i \in Chunks
               PROVE  WholeOK(i)'
    BY DEF SegmentsWhole, WholeOK
  <2>1. crashes \in Nat
    BY Parts1, UploadAssumption DEF BoundsTyped
  <2>2. CASE Crash
    <3>1. crashes' = crashes + 1
      BY <2>2 DEF Crash
    <3> QED
      BY <2>1, <3>1
  <2>3. ASSUME NEW r \in Reqs, Serve(r) \/ InitRefused(r) \/ ChunkGarbled(r)
        PROVE  WholeOK(i)'
    <3>1. crashes' = crashes
      BY <2>3 DEF Serve, InitRead, ChunkRead, ChunkLockSegment, ChunkOpen, ChunkCopy, ChunkLockState,
         WriteTmp, Rename, CompleteRead, AssembleCreate, AssembleAppend, AssembleStat, AssembleCheck,
         AbortRead, CleanSegment, CleanState, InitRefused, ChunkGarbled, bounds
    <3> QED
      BY <1>1, <2>3, <3>1, ServeWhole
  <2>4. ASSUME NEW s \in Sessions, Start(s) \/ Upload(s) \/ SendAbort(s) \/ LoseAnswer(s) \/ Close(s)
        PROVE  WholeOK(i)'
    <3>1. crashes' = crashes /\ seg' = seg /\ segLock' = segLock
      BY <2>4 DEF Start, Upload, SendComplete, SendChunk, SendAbort, LoseAnswer, Close, files, locks, bounds
    <3>2. \A x \in Reqs : req'[x] = req[x] \/ req[x].op = None
      <4>1. CASE Start(s)
        BY <4>1, Parts1, StartEffect DEF Arrives
      <4>2. ASSUME NEW j \in Chunks, SendChunk(s, j)
            PROVE  \A x \in Reqs : req'[x] = req[x] \/ req[x].op = None
        BY <4>2, Parts1, SendChunkEffect DEF Arrives
      <4>3. CASE SendComplete(s)
        BY <4>3, Parts1, SendCompleteEffect DEF Arrives
      <4>4. CASE SendAbort(s)
        BY <4>4, Parts1, SendAbortEffect DEF Arrives
      <4>5. CASE LoseAnswer(s) \/ Close(s)
        BY <4>5, Parts1, LoseAnswerEffect, CloseEffect
      <4> QED
        BY <2>4, <4>1, <4>2, <4>3, <4>4, <4>5 DEF Upload
    <3>3. \A x \in Reqs : At(x, "chunk", "copy") => At(x, "chunk", "copy")' /\ req'[x].index = req[x].index
      BY <3>2, Named DEF At
    <3> QED
      BY <1>1, <3>1, <3>3, WholeStays
  <2>5. CASE UNCHANGED vars \/ Over
    <3>1. req' = req /\ seg' = seg /\ segLock' = segLock /\ crashes' = crashes
      BY <2>5 DEF Over, vars, files, locks, bounds
    <3> QED
      BY <1>1, <3>1, WholeStays DEF At
  <2> QED
    BY <2>2, <2>3, <2>4, <2>5 DEF Next
<1> QED
  BY <1>2, <1>3, Init1, Next1, LinkedNext, PTL DEF Spec
-----------------------------------------------------------------------------
(***************************************************************************)
(* The second layer: pages that take turns.                                *)
(***************************************************************************)

\* A page that is new stays new, and one that is out of the way stays out of it.
Calm(p, c) ==
  /\ c.phase = "new" <=> p.phase = "new"
  /\ Past(p) => Past(c)

\* A page that an init or a complete works for is left alone, fails or closes.
Undisturbed(p, c) ==
  /\ c.id = p.id
  /\ c.phase = p.phase \/ (p.phase \in {"init", "upload", "complete", "failed"} /\ c.phase \in {"failed", "closed"})

LEMMA TurnsKeep ==
  ASSUME Solo, Requests, \A s \in Sessions : Calm(page[s], page'[s]),
         \A x \in Reqs : req'[x].op = None \/ Kin(req'[x], req[x]),
         \A x \in Reqs : req'[x].op \in {"init", "complete"} =>
           Undisturbed(page[req[x].session], page'[req[x].session])
  PROVE  Solo'
<1>1. Turns'
  BY DEF Turns, Calm, Solo
<1>2. ASSUME NEW r \in Reqs
      PROVE  SoloOK(r)'
  <2>1. CASE req'[r].op = None
    BY <2>1, Named DEF SoloOK
  <2>2. CASE req'[r].op # None
    <3>1. /\ req'[r].op = req[r].op /\ req'[r].session = req[r].session /\ req[r].op # None
          /\ req[r].session \in Sessions
      BY <2>2 DEF Kin, Requests, Handled, RequestOK
    <3>2. SoloOK(r)
      BY DEF Solo
    <3>3. req'[r].op \in {"init", "chunk", "complete"} =>
            \A t \in Sessions : t > req'[r].session => page'[t].phase = "new"
      BY <3>1, <3>2 DEF SoloOK, Calm
    <3>4. req'[r].op \in {"init", "abort"} => \A q \in Reqs \ {r} : req'[q].op = None
      BY <3>1, <3>2 DEF SoloOK, Kin
    <3>5. req'[r].op = "init" =>
            /\ page'[req'[r].session].phase \in {"init", "failed", "closed"}
            /\ page'[req'[r].session].id = 0
      BY <3>1, <3>2 DEF SoloOK, Undisturbed
    <3>6. req'[r].op = "complete" =>
            /\ page'[req'[r].session].phase \in {"complete", "failed", "closed"}
            /\ \A q \in Reqs \ {r} : req'[q].op # "complete"
      <4>1. ASSUME req'[r].op = "complete", NEW q \in Reqs \ {r}
            PROVE  req'[q].op # "complete"
        BY <3>1, <3>2, <4>1, Named DEF SoloOK, Kin
      <4> QED
        BY <3>1, <3>2, <4>1 DEF SoloOK, Undisturbed
    <3>7. req'[r].op = "abort" => \A s \in Sessions : page'[s].phase = "new" \/ Past(page'[s])
      BY <3>1, <3>2 DEF SoloOK, Calm
    <3> QED
      BY <3>3, <3>4, <3>5, <3>6, <3>7 DEF SoloOK
  <2> QED
    BY <2>1, <2>2
<1> QED
  BY <1>1, <1>2 DEF Solo

LEMMA LostCalm ==
  ASSUME NEW p, NEW c, Lost(p, c) \/ c = p \/ (c.phase = p.phase /\ c.id = p.id)
  PROVE  Calm(p, c) /\ Undisturbed(p, c)
BY DEF Lost, Calm, Undisturbed, Past

\* A step where no page advances and no request is sent.
LEMMA LostSolo ==
  ASSUME Solo, Requests,
         \A s \in Sessions : \/ Lost(page[s], page'[s]) \/ page'[s] = page[s]
                             \/ page'[s].phase = page[s].phase /\ page'[s].id = page[s].id,
         \A x \in Reqs : req'[x].op = None \/ Kin(req'[x], req[x])
  PROVE  Solo'
<1>1. \A s \in Sessions : Calm(page[s], page'[s]) /\ Undisturbed(page[s], page'[s])
  BY LostCalm
<1>2. \A x \in Reqs : req'[x].op \in {"init", "complete"} => req[x].session \in Sessions
  BY Named DEF Kin, Requests, Handled, RequestOK
<1> QED
  BY <1>1, <1>2, TurnsKeep

LEMMA EndsKin ==
  ASSUME NEW r \in Reqs, Ends(r)
  PROVE  \A x \in Reqs : req'[x].op = None \/ Kin(req'[x], req[x])
BY IdleHandled DEF Ends, Kin

LEMMA MovedSolo ==
  ASSUME Solo, Requests, NEW r \in Reqs, NEW q, Moves(r, q)
  PROVE  Solo'
<1>1. req'[r] = q /\ page' = page /\ \A x \in Reqs \ {r} : req'[x] = req[x]
  BY MovesOne
<1>2. \A x \in Reqs : Kin(req'[x], req[x])
  BY <1>1 DEF Moves, Kin
<1> QED
  BY <1>1, <1>2, LostSolo

LEMMA ErrorSolo ==
  ASSUME Solo, Requests, Pages, Owned, NEW r \in Reqs, AnswerError(r), req[r].op # None
  PROVE  Solo'
BY ErrorKeeps, EndsKin, LostSolo

\* The page of an answered request advances, when no init and no other complete is there.
LEMMA AdvancedSolo ==
  ASSUME Solo, Requests, Pages, NEW r \in Reqs, Ends(r), req[r].op \in {"init", "complete"},
         \A t \in Sessions :
           \/ page'[t] = page[t]
           \/ page[t].phase \in {"init", "complete"} /\ page'[t].phase \in {"upload", "done"}
  PROVE  Solo'
<1>1. \A x \in Reqs : req'[x].op = None \/ Kin(req'[x], req[x])
  BY EndsKin
<1>2. \A s \in Sessions : Calm(page[s], page'[s])
  BY DEF Calm, Past
<1>3. \A x \in Reqs : req'[x].op \notin {"init", "complete"}
  <2> SUFFICES ASSUME NEW x \in Reqs, req'[x].op \in {"init", "complete"}
               PROVE  FALSE
    OBVIOUS
  <2>1. x # r /\ req'[x] = req[x] /\ req[x].op \in {"init", "complete"}
    BY IdleHandled, Named DEF Ends
  <2>2. SoloOK(r) /\ SoloOK(x)
    BY DEF Solo
  <2>3. req[x].op = "init" => req[r].op = None
    BY <2>1, <2>2 DEF SoloOK
  <2>4. req[r].op = "init" => req[x].op = None
    BY <2>1, <2>2 DEF SoloOK
  <2>5. req[r].op = "complete" => req[x].op # "complete"
    BY <2>1, <2>2 DEF SoloOK
  <2> QED
    BY <2>1, <2>3, <2>4, <2>5, Named
<1> QED
  BY <1>1, <1>2, <1>3, TurnsKeep

LEMMA FailsLost ==
  ASSUME Requests, Pages, Owned, NEW r \in Reqs, AssembleFails(r), req[r].op = "complete"
  PROVE  \A s \in Sessions : page'[s] = page[s] \/ Lost(page[s], page'[s])
<1>1. page \in [Sessions -> Page] /\ req[r].session \in Sessions
  BY Named DEF Pages, Shown, Requests, Handled, RequestOK
<1>2. page[req[r].session].call = r => page[req[r].session].phase \in {"init", "complete"}
  BY <1>1, UploadAssumption DEF Pages, Shown, PageOK
<1>3. page'[req[r].session] = page[req[r].session] \/
        (page[req[r].session].call = r /\ page'[req[r].session] = Failed(page[req[r].session]))
  BY <1>1 DEF AssembleFails
<1>4. \A s \in Sessions \ {req[r].session} : page'[s] = page[s]
  BY <1>1 DEF AssembleFails
<1>5. page[req[r].session].call = r => Lost(page[req[r].session], Failed(page[req[r].session]))
  <2>1. page[req[r].session] \in Page
    BY <1>1
  <2> QED
    BY <1>2, <2>1 DEF Lost, Failed, Page
<1> QED
  BY <1>3, <1>4, <1>5

LEMMA FailsSolo ==
  ASSUME Solo, Requests, Pages, Owned, NEW r \in Reqs, AssembleFails(r), req[r].op = "complete"
  PROVE  Solo'
<1>1. \A x \in Reqs : req'[x].op = None \/ Kin(req'[x], req[x])
  BY FailKeeps, IdleHandled
<1>2. \A s \in Sessions : page'[s] = page[s] \/ Lost(page[s], page'[s])
  BY FailsLost
<1> QED
  BY <1>1, <1>2, LostSolo

LEMMA ServeSolo ==
  ASSUME Inv1, Solo, NEW r \in Reqs, Serve(r) \/ InitRefused(r) \/ ChunkGarbled(r)
  PROVE  Solo'
<1>1. CASE InitRead(r)
  BY <1>1, Parts1, InitReadEffect, MovedSolo
<1>2. CASE ChunkRead(r)
  <2>1. req[r].op # None
    BY <1>2, Named DEF ChunkRead, At
  <2> QED
    BY <1>2, <2>1, Parts1, ChunkReadEffect, MovedSolo, ErrorSolo
<1>3. CASE ChunkLockSegment(r)
  <2>1. req[r].op = "chunk"
    BY <1>3 DEF ChunkLockSegment, At
  <2>2. CASE Answer(r, ChunkStored(PageOf(r), req[r].index))
    BY <2>1, <2>2, Parts1, StoredKeeps, EndsKin, LostSolo
  <2> QED
    BY <1>3, <2>2, Parts1, ChunkLockSegmentEffect, MovedSolo
<1>4. CASE ChunkOpen(r) \/ ChunkCopy(r) \/ WriteTmp(r)
  BY <1>4, Parts1, ChunkOpenEffect, ChunkCopyEffect, WriteTmpEffect, MovedSolo
<1>5. CASE ChunkLockState(r)
  <2>1. req[r].op # None
    BY <1>5, Named DEF ChunkLockState, At
  <2> QED
    BY <1>5, <2>1, Parts1, ChunkLockStateEffect, MovedSolo, ErrorSolo
<1>6. CASE Rename(r)
  <2>1. Ends(r) /\ req[r].op \in {"init", "chunk"}
    BY <1>6, Parts1, RenameEffect
  <2>2. CASE \A t \in Sessions : Lost(page[t], page'[t])
    BY <2>1, <2>2, Parts1, EndsKin, LostSolo
  <2>3. CASE /\ req[r].op = "init"
             /\ \A t \in Sessions : page'[t] = page[t] \/ (page[t].phase = "init" /\ page'[t].phase = "upload")
    BY <2>1, <2>3, Parts1, AdvancedSolo
  <2>4. CASE \A t \in Sessions : page'[t].phase = page[t].phase /\ page'[t].id = page[t].id
    BY <2>1, <2>4, Parts1, EndsKin, LostSolo
  <2> QED
    BY <1>6, <2>2, <2>3, <2>4, Parts1, RenameEffect
<1>7. CASE CompleteRead(r)
  <2>1. req[r].op = "complete" /\ req[r].op # None
    BY <1>7, Named DEF CompleteRead, At
  <2>2. CASE state # None /\ Answer(r, Conflicted(PageOf(r), Indices(state.size) \ state.received))
    BY <2>1, <2>2, Parts1, ConflictEffect, AdvancedSolo
  <2> QED
    BY <1>7, <2>1, <2>2, Parts1, CompleteReadEffect, MovedSolo, ErrorSolo
<1>8. CASE AssembleCreate(r) \/ AssembleStat(r)
  <2>1. \E q : Moves(r, q)
    BY <1>8, Parts1, AssembleCreateEffect, AssembleStatEffect
  <2> QED
    BY <2>1, Parts1, MovedSolo
<1>9. CASE AssembleAppend(r)
  <2>1. req[r].op = "complete"
    BY <1>9 DEF AssembleAppend, At
  <2> QED
    BY <1>9, <2>1, Parts1, AssembleAppendEffect, MovedSolo, FailsSolo
<1>10. CASE AssembleCheck(r)
  <2>1. req[r].op = "complete"
    BY <1>10 DEF AssembleCheck, At
  <2> QED
    BY <1>10, <2>1, Parts1, AssembleCheckEffect, MovedSolo, FailsSolo
<1>11. CASE AbortRead(r)
  <2>1. req[r].op = "abort" /\ req[r].op # None
    BY <1>11, Named DEF AbortRead, At
  <2>2. CASE Answer(r, PageOf(r))
    <3>1. Ends(r) /\ \A t \in Sessions : page'[t] = page[t]
      BY <2>1, <2>2, Parts1, AnswerEffect
    <3> QED
      BY <3>1, Parts1, EndsKin, LostSolo
  <2> QED
    BY <1>11, <2>2, Parts1, AbortReadEffect, MovedSolo
<1>12. CASE CleanSegment(r)
  BY <1>12, Parts1, CleanSegmentEffect, MovedSolo
<1>13. CASE CleanState(r)
  <2>1. /\ Ends(r) /\ req[r].op \in {"complete", "abort"}
        /\ \A t \in Sessions :
             \/ page'[t] = page[t]
             \/ req[r].op = "complete" /\ page[t].phase = "complete" /\ page'[t].phase = "done"
    BY <1>13, Parts1, CleanStateEffect
  <2>2. CASE req[r].op = "complete"
    BY <2>1, <2>2, Parts1, AdvancedSolo
  <2>3. CASE \A t \in Sessions : page'[t] = page[t]
    BY <2>1, <2>3, Parts1, EndsKin, LostSolo
  <2> QED
    BY <2>1, <2>2, <2>3
<1>14. CASE InitRefused(r) \/ ChunkGarbled(r)
  <2>1. AnswerError(r) /\ req[r].op # None
    BY <1>14, Named DEF InitRefused, ChunkGarbled, At
  <2> QED
    BY <2>1, Parts1, ErrorSolo
<1> QED
  BY <1>1, <1>2, <1>3, <1>4, <1>5, <1>6, <1>7, <1>8, <1>9, <1>10, <1>11, <1>12, <1>13, <1>14 DEF Serve

\* A page that goes on keeps inits, aborts and completes of others away.
LEMMA Alone ==
  ASSUME Solo, Requests, Owned, NEW s \in Sessions, page[s].phase \in {"upload", "failed"},
         page[s].id # 0, NEW x \in Reqs, req[x].op # None
  PROVE  /\ req[x].op \in {"chunk", "complete"}
         /\ req[x].op = "complete" => page[s].phase = "failed"
<1>a. /\ req[x].session \in Sessions /\ page[req[x].session].phase # "new"
      /\ req[x].op \in Ops
  BY DEF Requests, Handled, Request, RequestOK, Owned, OwnedOK
<1>1. /\ req[x].session \in Sessions /\ page[req[x].session].phase # "new"
      /\ req[x].op \in Ops /\ req[x].session \in Int /\ s \in Int
  <2>1. Sessions \subseteq Int
    BY UploadAssumption
  <2> QED
    BY <1>a, <2>1
<1>2. SoloOK(x) /\ Turns
  BY DEF Solo
<1>3. req[x].op # "abort"
  BY <1>2 DEF SoloOK, Past
<1>4. ASSUME req[x].op \in {"init", "complete"}
      PROVE  req[x].session = s
  <2>1. ~(req[x].session < s)
    BY <1>1, <1>2, <1>4 DEF SoloOK
  <2>2. ~(s < req[x].session)
    BY <1>1, <1>2 DEF Turns, Past
  <2> QED
    BY <1>1, <2>1, <2>2
<1> QED
  BY <1>1, <1>2, <1>3, <1>4 DEF SoloOK, Ops

LEMMA BrowseSolo ==
  ASSUME Overlap = "nothing", Inv1, Solo, NEW s \in Sessions,
         Start(s) \/ Upload(s) \/ SendAbort(s) \/ LoseAnswer(s) \/ Close(s)
  PROVE  Solo'
<1>0. Sessions \subseteq Int /\ Turns
  BY UploadAssumption DEF Solo
<1>1. CASE Start(s)
  <2>1. /\ \A x \in Reqs : req[x].op = None
        /\ \A t \in Sessions : t < s => Past(page[t])
    <3>1. Free = Reqs
      BY <1>1 DEF Start
    <3>2. \A x \in Reqs : req[x].op = None
      BY <3>1, Parts1, Named DEF Free, Requests
    <3>3. \A t \in Sessions : t < s => page[t].phase \in {"done", "closed"}
      BY <1>1 DEF Start
    <3> QED
      BY <3>2, <3>3 DEF Past
  <2>2. /\ page[s].phase = "new" /\ page'[s].phase = "init" /\ page'[s].id = 0
        /\ \A t \in Sessions \ {s} : page'[t] = page[t]
    BY <1>1, Parts1, StartEffect
  <2>3. PICK r \in Reqs : Arrives(r, "init", s, 0)
    BY <1>1, Parts1, StartEffect
  <2>4. \A t \in Sessions : t > s => page[t].phase = "new"
    BY <1>0, <2>2 DEF Turns, Past
  <2>5. Turns'
    BY <1>0, <2>1, <2>2, <2>4 DEF Turns, Past
  <2>6. SoloOK(r)'
    BY <1>0, <2>1, <2>2, <2>3, <2>4 DEF SoloOK, Arrives
  <2>7. \A x \in Reqs \ {r} : SoloOK(x)'
    BY <2>1, <2>3, Named DEF SoloOK, Arrives
  <2> QED
    BY <2>5, <2>6, <2>7 DEF Solo
<1>2. ASSUME NEW i \in Chunks, SendChunk(s, i)
      PROVE  Solo'
  <2>1. /\ page[s].phase \in {"upload", "failed"} /\ page[s].id # 0
        /\ page'[s].phase = page[s].phase /\ page'[s].id = page[s].id
        /\ \A t \in Sessions \ {s} : page'[t] = page[t]
    BY <1>2, Parts1, SendChunkEffect
  <2>2. PICK r \in Reqs : Arrives(r, "chunk", s, i)
    BY <1>2, Parts1, SendChunkEffect
  <2>3. \A t \in Sessions : t > s => page[t].phase = "new"
    BY <1>0, <2>1 DEF Turns, Past
  <2>4. \A t \in Sessions : page'[t].phase = page[t].phase /\ page'[t].id = page[t].id
    BY <2>1
  <2>5. Turns'
    BY <1>0, <2>4 DEF Turns, Past
  <2>6. SoloOK(r)'
    BY <1>0, <2>2, <2>3, <2>4 DEF SoloOK, Arrives
  <2>7. ASSUME NEW x \in Reqs \ {r}
        PROVE  SoloOK(x)'
    <3>1. req'[x] = req[x] /\ SoloOK(x) /\ req'[r].op = "chunk"
      BY <2>2 DEF Arrives, Solo
    <3>2. req[x].op = None \/ req[x].op \in {"chunk", "complete"}
      BY <2>1, Parts1, Alone DEF Solo
    <3>3. req[x].op # None => req[x].session \in Sessions
      BY Parts1 DEF Requests, Handled, RequestOK
    <3>4. CASE req[x].op = None
      BY <3>1, <3>4, Named DEF SoloOK
    <3>5. CASE req[x].op \in {"chunk", "complete"}
      <4>1. req[x].session \in Sessions
        BY <3>3, <3>5, Named
      <4>2. \A q \in Reqs \ {x} : req[x].op = "complete" => req'[q].op # "complete"
        BY <2>2, <3>1, <3>5 DEF SoloOK, Arrives
      <4> QED
        BY <2>4, <3>1, <3>5, <4>1, <4>2 DEF SoloOK
    <3> QED
      BY <3>2, <3>4, <3>5
  <2> QED
    BY <2>5, <2>6, <2>7 DEF Solo
<1>3. CASE SendComplete(s)
  <2>1. page[s].phase = "upload" /\ page[s].id # 0
    BY <1>3, Parts1, SendCompleteEffect DEF Pages, Shown, PageOK
  <2>2. CASE req' = req /\ \A t \in Sessions : Lost(page[t], page'[t])
    BY <2>2, Parts1, LostSolo DEF Kin
  <2>3. ASSUME NEW r \in Reqs, Arrives(r, "complete", s, 0), page'[s].phase = "complete",
               \A t \in Sessions \ {s} : page'[t] = page[t]
        PROVE  Solo'
    <3>1. \A t \in Sessions : t > s => page[t].phase = "new"
      BY <1>0, <2>1 DEF Turns, Past
    <3>2. Turns'
      BY <1>0, <2>1, <2>3 DEF Turns, Past
    <3>3. \A x \in Reqs \ {r} : req'[x] = req[x] /\ (req[x].op = None \/ req[x].op = "chunk")
      <4>1. \A x \in Reqs : req[x].op = None \/ req[x].op = "chunk"
        BY <2>1, Parts1, Alone DEF Solo
      <4> QED
        BY <2>3, <4>1 DEF Arrives
    <3>4. SoloOK(r)'
      <4>1. req'[r].op = "complete" /\ req'[r].session = s
        BY <2>3 DEF Arrives
      <4>2. \A q \in Reqs \ {r} : req'[q].op # "complete"
        BY <3>3, Named
      <4>3. \A t \in Sessions : t > s => page'[t].phase = "new"
        BY <1>0, <2>3, <3>1
      <4> QED
        BY <2>3, <4>1, <4>2, <4>3 DEF SoloOK
    <3>5. ASSUME NEW x \in Reqs \ {r}
          PROVE  SoloOK(x)'
      <4>1. SoloOK(x)
        BY DEF Solo
      <4>2. req[x].op # None => req[x].session \in Sessions
        BY Parts1 DEF Requests, Handled, RequestOK
      <4>3. \A t \in Sessions : page[t].phase = "new" => page'[t].phase = "new"
        BY <2>1, <2>3
      <4> QED
        BY <3>3, <4>1, <4>2, <4>3, Named DEF SoloOK
    <3> QED
      BY <3>2, <3>4, <3>5 DEF Solo
  <2> QED
    BY <1>3, <2>2, <2>3, Parts1, SendCompleteEffect
<1>4. CASE SendAbort(s)
  <2>1. Free = Reqs /\ \A t \in Sessions : page[t].phase = "new" \/ Past(page[t])
    BY <1>4 DEF SendAbort, Past
  <2>2. \A x \in Reqs : req[x].op = None
    BY <2>1, Parts1, Named DEF Free, Requests
  <2>3. PICK r \in Reqs : page' = page /\ Arrives(r, "abort", s, 0)
    BY <1>4, Parts1, SendAbortEffect
  <2>4. Turns'
    BY <1>0, <2>3 DEF Turns
  <2>5. \A x \in Reqs \ {r} : req'[x].op = None
    BY <2>2, <2>3 DEF Arrives
  <2>6. \A x \in Reqs \ {r} : SoloOK(x)'
    BY <2>5, Named DEF SoloOK
  <2>7. SoloOK(r)'
    BY <2>1, <2>3, <2>5 DEF SoloOK, Arrives
  <2> QED
    BY <2>4, <2>6, <2>7 DEF Solo
<1>5. CASE LoseAnswer(s) \/ Close(s)
  <2>1. req' = req /\ \A t \in Sessions : Lost(page[t], page'[t])
    BY <1>5, Parts1, LoseAnswerEffect, CloseEffect
  <2> QED
    BY <2>1, Parts1, LostSolo DEF Kin
<1> QED
  BY <1>1, <1>2, <1>3, <1>4, <1>5 DEF Upload, Solo

LEMMA CrashSolo ==
  ASSUME Inv1, Solo, Crash
  PROVE  Solo'
<1>1. \A r \in Reqs : req'[r].op = None
  BY Parts1, CrashKeeps, IdleHandled
<1>2. \A s \in Sessions : Calm(page[s], page'[s])
  <2>1. \A s \in Sessions : PageOK(page[s]) /\ page'[s] = Crashed(page[s])
    BY Parts1, Shapes, CrashKeeps DEF Pages
  <2> QED
    BY <2>1, CrashedOK DEF Calm, Past, PageOK, Page
<1> QED
  BY <1>1, <1>2, Parts1, Named, TurnsKeep

LEMMA Next2 == Overlap = "nothing" /\ Inv2 /\ [Next]_vars => Inv2'
<1> SUFFICES ASSUME Overlap = "nothing", Inv2, [Next]_vars
             PROVE  Inv2'
  OBVIOUS
<1>1. Inv1' /\ Linked'
  BY Next1, LinkedNext DEF Inv2
<1>2. Inv1 /\ Solo
  BY DEF Inv2
<1>3. CASE UNCHANGED vars
  <2>1. req' = req /\ page' = page
    BY <1>3 DEF vars
  <2>2. Solo'
    BY <1>2, <2>1, Parts1, LostSolo DEF Kin
  <2> QED
    BY <1>1, <2>2 DEF Inv2
<1>4. CASE Over
  BY <1>3, <1>4 DEF Over
<1>5. ASSUME NEW r \in Reqs, Serve(r) \/ InitRefused(r) \/ ChunkGarbled(r)
      PROVE  Solo'
  BY <1>2, <1>5, ServeSolo
<1>6. ASSUME NEW s \in Sessions, Start(s) \/ Upload(s) \/ SendAbort(s) \/ LoseAnswer(s) \/ Close(s)
      PROVE  Solo'
  BY <1>2, <1>6, BrowseSolo
<1>7. CASE Crash
  BY <1>1, <1>2, <1>7, CrashSolo DEF Inv2
<1> QED
  BY <1>1, <1>3, <1>4, <1>5, <1>6, <1>7 DEF Next, Inv2

LEMMA Init2 == Init => Inv2
<1> SUFFICES ASSUME Init
             PROVE  Inv2
  OBVIOUS
<1>1. Linked /\ \A r \in Reqs : req[r].op = None
  BY IdleHandled DEF Init, Linked, Idle
<1>2. Turns
  BY DEF Init, Turns, NewPage
<1> QED
  BY <1>1, <1>2, Init1, Named DEF Inv2, Solo, SoloOK
-----------------------------------------------------------------------------
(***************************************************************************)
(* The third layer: the record, the segments it lists, and the requests    *)
(* that change either.                                                     *)
(***************************************************************************)

WorkOK(r) == InitOK(req[r]) /\ ChunkOK(req[r]) /\ CompleteOK(req[r])

AcknowledgedOK(s) ==
  page[s].phase = "upload" =>
    /\ state # None /\ state.id = page[s].id
    /\ Indices(Size[page[s].file]) \ page[s].todo \subseteq state.received

LEMMA StoredParts ==
  /\ Working <=> \A r \in Reqs : WorkOK(r)
  /\ AcknowledgedIsRecorded <=> \A s \in Sessions : AcknowledgedOK(s)
BY DEF Working, WorkOK, AcknowledgedIsRecorded, AcknowledgedOK

\* A request that stays where it is.
Same(q, p) == Kin(q, p) /\ q.pc = p.pc /\ q.st = p.st

\* A request at its first point, or none, has done nothing yet.
LEMMA NoWork ==
  ASSUME NEW x \in Reqs, req[x].op = None \/ req[x].pc = "read"
  PROVE  WorkOK(x)
BY Named DEF WorkOK, InitOK, ChunkOK, CompleteOK, Saving

LEMMA NoWorkNext ==
  ASSUME NEW x \in Reqs, req'[x].op = None \/ req'[x].pc = "read"
  PROVE  WorkOK(x)'
BY Named DEF WorkOK, InitOK, ChunkOK, CompleteOK, Saving

\* What a request with an upload has read has an id, and its page a file.
LEMMA WorkerTyped ==
  ASSUME Requests, Owned, NEW x \in Reqs, req[x].op # None
  PROVE  /\ req[x].session \in Sessions /\ page[req[x].session].phase # "new"
         /\ req[x].index \in Chunks
         /\ req[x].pc # "read" => req[x].st \in chunkUploadState /\ req[x].st.id # 0 /\ req[x].st # None
<1>1. RequestOK(req[x]) /\ req[x] \in Request /\ OwnedOK(x)
  BY DEF Requests, Handled, Owned
<1>2. req[x].pc # "idle"
  BY Named DEF Requests
<1>3. req[x].pc # "read" => req[x].st \in chunkUploadState
  BY <1>1, <1>2 DEF RequestOK, Request
<1>4. req[x].st \in chunkUploadState => req[x].st.id # 0 /\ req[x].st # None
  BY NoneAssumption DEF chunkUploadState
<1> QED
  BY <1>1, <1>3, <1>4 DEF RequestOK, OwnedOK

\* The work of a request goes on when the files are as they were.
LEMMA WorkKeeps ==
  ASSUME Requests, Owned, NEW x \in Reqs, WorkOK(x), Same(req'[x], req[x]),
         state' = state, tmp' = tmp, seg' = seg,
         \A s \in Sessions : /\ page[s].phase # "new" => page'[s].file = page[s].file
                             /\ page'[s].id \in {page[s].id, 0}
  PROVE  WorkOK(x)'
<1>1. CASE req[x].op = None \/ req[x].pc = "read"
  BY <1>1, NoWorkNext DEF Same, Kin
<1>2. CASE req[x].op # None /\ req[x].pc # "read"
  <2>1. /\ req'[x].op = req[x].op /\ req'[x].session = req[x].session /\ req'[x].id = req[x].id
        /\ req'[x].index = req[x].index /\ req'[x].pc = req[x].pc /\ req'[x].st = req[x].st
    BY DEF Same, Kin
  <2>2. page'[req[x].session].file = page[req[x].session].file /\ req[x].st.id # 0
    BY <1>2, WorkerTyped
  <2>3. InitOK(req[x])'
    BY <2>1, <2>2 DEF WorkOK, InitOK
  <2>4. ChunkOK(req[x])'
    BY <2>1, <2>2 DEF WorkOK, ChunkOK, FileOf
  <2>5. CompleteOK(req[x])'
    BY <2>1 DEF WorkOK, CompleteOK
  <2> QED
    BY <2>3, <2>4, <2>5 DEF WorkOK
<1> QED
  BY <1>1, <1>2

\* A step that leaves the record and the segments alone.
LEMMA StoredStays ==
  ASSUME Requests, Owned, Stored, state' = state, tmp' = tmp, seg' = seg,
         \A x \in Reqs : \/ Same(req'[x], req[x])
                         \/ req'[x].op = None \/ req'[x].pc = "read"
                         \/ WorkOK(x)',
         "clean" \notin CrashPoints => \A x \in Reqs : req[x].pc = "clean" => req'[x].pc = "clean",
         \A s \in Sessions : /\ page[s].phase # "new" => page'[s].file = page[s].file
                             /\ page'[s].id \in {page[s].id, 0},
         \A s \in Sessions :
           \/ page'[s].phase = "upload" =>
                /\ page[s].phase = "upload" /\ page'[s].id = page[s].id
                /\ page'[s].todo = page[s].todo
           \/ AcknowledgedOK(s)'
  PROVE  Stored'
<1>1. \A x \in Reqs : WorkOK(x)'
  BY WorkKeeps, NoWorkNext, StoredParts DEF Stored
<1>2. Kept'
  BY DEF Stored, Kept, ReceivedIsStored
<1>3. ASSUME NEW s \in Sessions
      PROVE  AcknowledgedOK(s)'
  <2>1. AcknowledgedOK(s)
    BY StoredParts DEF Stored
  <2>2. page[s].phase = "upload" => page'[s].file = page[s].file
    OBVIOUS
  <2> QED
    BY <2>1, <2>2 DEF AcknowledgedOK
<1> QED
  BY <1>1, <1>2, <1>3 DEF Stored, Working, WorkOK, AcknowledgedIsRecorded, AcknowledgedOK

LEMMA MovedStored ==
  ASSUME Requests, Owned, Stored, state' = state, tmp' = tmp, seg' = seg,
         NEW r \in Reqs, NEW q, Moves(r, q), req[r].pc = "clean" => q.pc = "clean", WorkOK(r)'
  PROVE  Stored'
<1>1. req'[r] = q /\ page' = page /\ \A x \in Reqs \ {r} : req'[x] = req[x]
  BY MovesOne
<1>2. \A x \in Reqs : Same(req'[x], req[x]) \/ WorkOK(x)'
  BY <1>1 DEF Same, Kin
<1>3. \A x \in Reqs : req[x].pc = "clean" => req'[x].pc = "clean"
  BY <1>1
<1> QED
  BY <1>1, <1>2, <1>3, StoredStays

\* A request ends whose page got no better, or as AcknowledgedOK says.
LEMMA EndedStored ==
  ASSUME Requests, Owned, Stored, state' = state, tmp' = tmp, seg' = seg,
         NEW r \in Reqs, Ends(r), req[r].pc # "clean",
         \A s \in Sessions :
           /\ page'[s].id = page[s].id /\ page'[s].file = page[s].file
           /\ Lost(page[s], page'[s]) \/ page'[s] = page[s] \/ AcknowledgedOK(s)'
  PROVE  Stored'
<1>1. \A x \in Reqs : Same(req'[x], req[x]) \/ req'[x].op = None
  BY IdleHandled DEF Ends, Same, Kin
<1>2. \A x \in Reqs : req[x].pc = "clean" => req'[x].pc = "clean"
  BY DEF Ends
<1>3. \A s \in Sessions :
           \/ page'[s].phase = "upload" =>
                /\ page[s].phase = "upload" /\ page'[s].id = page[s].id
                /\ page'[s].todo = page[s].todo
           \/ AcknowledgedOK(s)'
  BY DEF Lost
<1> QED
  BY <1>1, <1>2, <1>3, StoredStays

LEMMA ErrorStored ==
  ASSUME Requests, Pages, Owned, Stored, state' = state, tmp' = tmp, seg' = seg,
         NEW r \in Reqs, AnswerError(r), req[r].op # None, req[r].pc # "clean"
  PROVE  Stored'
<1>1. Ends(r) /\ \A s \in Sessions : Lost(page[s], page'[s])
  BY ErrorKeeps
<1>2. \A s \in Sessions : page'[s].id = page[s].id /\ page'[s].file = page[s].file
  BY <1>1 DEF Lost
<1> QED
  BY <1>1, <1>2, EndedStored

LEMMA FailsStored ==
  ASSUME Requests, Pages, Owned, Stored, state' = state, tmp' = tmp, seg' = seg,
         NEW r \in Reqs, AssembleFails(r), req[r].op = "complete", req[r].pc # "clean"
  PROVE  Stored'
<1>1. \A s \in Sessions : page'[s] = page[s] \/ Lost(page[s], page'[s])
  BY FailsLost
<1>2. \A x \in Reqs : Same(req'[x], req[x]) \/ req'[x].op = None
  BY FailKeeps, IdleHandled DEF Same
<1>3. \A x \in Reqs : req[x].pc = "clean" => req'[x].pc = "clean"
  BY FailKeeps
<1>4. \A s \in Sessions : /\ page'[s].file = page[s].file /\ page'[s].id = page[s].id
                          /\ page'[s].phase = "upload" =>
                               page[s].phase = "upload" /\ page'[s].todo = page[s].todo
  BY <1>1 DEF Lost
<1> QED
  BY <1>2, <1>3, <1>4, StoredStays

\* A step of the pages that sends at most one request.
LEMMA SentStored ==
  ASSUME Requests, Owned, Stored, UNCHANGED files,
         \A x \in Reqs : req'[x] = req[x] \/ (req[x].op = None /\ req'[x].pc = "read"),
         \A s \in Sessions :
           \/ page'[s] = page[s] \/ Lost(page[s], page'[s])
           \/ page'[s].id = 0 /\ page[s].phase = "new" /\ page'[s].phase # "upload"
           \/ /\ page'[s].id = page[s].id /\ page'[s].file = page[s].file
              /\ page'[s].phase = "upload" =>
                   page[s].phase = "upload" /\ page'[s].todo = page[s].todo
  PROVE  Stored'
<1>1. state' = state /\ tmp' = tmp /\ seg' = seg
  BY DEF files
<1>2. \A x \in Reqs : Same(req'[x], req[x]) \/ req'[x].pc = "read"
  BY DEF Same, Kin
<1>3. \A x \in Reqs : req[x].pc = "clean" => req'[x].pc = "clean"
  <2>1. \A x \in Reqs : req[x].op = None => req[x].pc = "idle"
    BY Named DEF Requests
  <2> QED
    BY <2>1
<1>4. \A s \in Sessions : /\ page[s].phase # "new" => page'[s].file = page[s].file
                          /\ page'[s].id \in {page[s].id, 0}
                          /\ page'[s].phase = "upload" =>
                               /\ page[s].phase = "upload" /\ page'[s].id = page[s].id
                               /\ page'[s].todo = page[s].todo
  BY DEF Lost
<1> QED
  BY <1>1, <1>2, <1>3, <1>4, StoredStays

LEMMA Parts2 ==
  Inv2 => /\ Inv1 /\ FilesTyped /\ Requests /\ Pages /\ Owned /\ Locked /\ OneLayout /\ Solo
          /\ None \notin Reqs
BY Parts1 DEF Inv2

\* No two requests write a chunk, and no two save the record.
LEMMA OneWriter ==
  ASSUME Inv2, NEW r \in Reqs, req[r].op = "chunk", NEW x \in Reqs \ {r}, req[x].op = "chunk"
  PROVE  /\ req[r].pc \in Writing /\ req[x].pc \in Writing => req[x].index # req[r].index
         /\ ~(req[r].pc \in Saving /\ req[x].pc \in Saving)
BY Parts2 DEF Locked

\* While an assembly or a clean-up relies on the record, nobody writes a chunk.
LEMMA NobodyWrites ==
  ASSUME Inv2, Stored, NEW r \in Reqs, req[r].op = "complete", req[r].pc # "read",
         NEW x \in Reqs, req[x].op = "chunk", req[x].pc \in Writing
  PROVE  FALSE
<1>1. WorkOK(r) /\ WorkOK(x)
  BY StoredParts DEF Stored
<1>2. req[r].st # None
  BY Parts2, WorkerTyped, Named
<1>3. state = req[r].st /\ Indices(state.size) \subseteq state.received
  BY <1>1 DEF WorkOK, CompleteOK
<1>4. req[x].pc # "read" /\ req[x].op # None
  BY Named DEF Writing
<1>5. state.id = req[x].id /\ req[x].index \notin state.received
  BY <1>1, <1>2, <1>3, <1>4 DEF WorkOK, ChunkOK
<1>6. req[x].index \in Indices(state.size)
  BY <1>2, <1>3, <1>4, <1>5, Parts2, SameLayout, OwnedFile
<1> QED
  BY <1>3, <1>5, <1>6

LEMMA InitReadStored ==
  ASSUME Inv2, Stored, NEW r \in Reqs, InitRead(r)
  PROVE  Stored'
<1>1. PICK q : /\ Moves(r, q) /\ q.op = "init" /\ q.pc = "tmp"
               /\ q.st \in chunkUploadState
               /\ \/ state # None /\ q.st = state
                  \/ q.st.id = nextId + 1 /\ q.st.received = {}
  BY Parts2, InitReadEffect
<1>2. state' = state /\ tmp' = tmp /\ seg' = seg /\ req[r].pc = "read"
  BY DEF InitRead, At, files
<1>3. req'[r] = q /\ page' = page
  BY <1>1, Parts2, MovesOne
<1>4. nextId \in Nat /\ \A s \in Sessions : page[s].id \in Nat /\ (page[s].id # 0 => page[s].id <= nextId)
  <2>1. nextId \in Nat /\ \A s \in Sessions : PageOK(page[s]) /\ page[s] \in Page
    BY Parts2, Shapes DEF FilesTyped, Ids, Pages, PageOK
  <2>2. \A s \in Sessions : page[s].id \in Nat
    BY <2>1 DEF Page, Ids
  <2>3. ASSUME NEW s \in Sessions, page[s].id # 0
        PROVE  page[s].id <= nextId
    <3>1. page[s].file \in Files
      BY <2>1, <2>3 DEF PageOK, NewPage
    <3>2. Size[page[s].file] \in Sizes /\ Knows(page[s].id, Size[page[s].file])
      BY <2>3, <3>1 DEF Sizes, Knows
    <3> QED
      BY <2>2, <3>2, Parts2 DEF OneLayout, Ids
  <2> QED
    BY <2>1, <2>2, <2>3
<1>5. InitOK(q)'
  <2>1. q.st.id = nextId + 1 => \A s \in Sessions : page[s].id # q.st.id
    BY <1>4
  <2> QED
    BY <1>1, <1>2, <1>3, <2>1 DEF InitOK
<1>6. WorkOK(r)'
  BY <1>1, <1>3, <1>5 DEF WorkOK, ChunkOK, CompleteOK, InitOK
<1> QED
  BY <1>1, <1>2, <1>6, Parts2, MovedStored

LEMMA ChunkReadStored ==
  ASSUME Inv2, Stored, NEW r \in Reqs, ChunkRead(r)
  PROVE  Stored'
<1>1. state' = state /\ tmp' = tmp /\ seg' = seg /\ req[r].pc = "read" /\ req[r].op # None
  BY Named DEF ChunkRead, At, files
<1>2. CASE AnswerError(r)
  BY <1>1, <1>2, Parts2, ErrorStored
<1>3. ASSUME NEW q, Moves(r, q), q.op = "chunk", q.pc = "segment lock", state.id = req[r].id
      PROVE  Stored'
  <2>1. req'[r] = q /\ q.id = req[r].id
    BY <1>3, Parts2, MovesOne DEF Moves, Kin
  <2>2. WorkOK(r)'
    BY <1>1, <1>3, <2>1 DEF WorkOK, ChunkOK, CompleteOK, InitOK, Writing, Saving
  <2> QED
    BY <1>1, <1>3, <2>2, Parts2, MovedStored
<1> QED
  BY <1>2, <1>3, Parts2, ChunkReadEffect

\* The answer that a chunk is stored is true when the record lists it.
LEMMA StoredAnswer ==
  ASSUME Inv2, Stored, NEW r \in Reqs, req[r].op = "chunk", req[r].pc # "read", state # None,
         Answer(r, ChunkStored(PageOf(r), req[r].index)),
         state' # None, state'.id = state.id, state.received \cup {req[r].index} \subseteq state'.received
  PROVE  /\ Ends(r)
         /\ \A s \in Sessions : /\ page'[s].id = page[s].id /\ page'[s].file = page[s].file
                                /\ AcknowledgedOK(s)'
<1>1. /\ Ends(r)
      /\ \A t \in Sessions :
           /\ page'[t].phase = page[t].phase /\ page'[t].id = page[t].id
           /\ page'[t].file = page[t].file
           /\ \/ page'[t].todo = page[t].todo
              \/ t = req[r].session /\ page'[t].todo = page[t].todo \ {req[r].index}
  BY Parts2, StoredKeeps
<1>2. \A s \in Sessions : AcknowledgedOK(s)
  BY StoredParts DEF Stored
<1>3. ASSUME NEW s \in Sessions
      PROVE  AcknowledgedOK(s)'
  BY <1>1, <1>2 DEF AcknowledgedOK
<1> QED
  BY <1>1, <1>3

LEMMA ChunkLockSegmentStored ==
  ASSUME Inv2, Stored, NEW r \in Reqs, ChunkLockSegment(r)
  PROVE  Stored'
<1>1. /\ state' = state /\ tmp' = tmp /\ seg' = seg
      /\ req[r].op = "chunk" /\ req[r].pc = "segment lock" /\ req[r].op # None
  BY Named DEF ChunkLockSegment, At, files
<1>2. CASE /\ state # None /\ req[r].index \in state.received
           /\ Answer(r, ChunkStored(PageOf(r), req[r].index))
  <2>1. /\ Ends(r)
        /\ \A s \in Sessions : /\ page'[s].id = page[s].id /\ page'[s].file = page[s].file
                               /\ AcknowledgedOK(s)'
    BY <1>1, <1>2, StoredAnswer
  <2> QED
    BY <1>1, <2>1, Parts2, EndedStored
<1>3. ASSUME state = None \/ req[r].index \notin state.received,
             NEW q, Moves(r, q), q.op = "chunk", q.pc = "open"
      PROVE  Stored'
  <2>1. req'[r] = q /\ q.id = req[r].id /\ q.index = req[r].index
    BY <1>3, Parts2, MovesOne DEF Moves, Kin
  <2>2. state # None => state.id = req[r].id
    BY <1>1, StoredParts DEF Stored, WorkOK, ChunkOK
  <2>3. WorkOK(r)'
    BY <1>1, <1>3, <2>1, <2>2 DEF WorkOK, ChunkOK, CompleteOK, InitOK, Writing, Saving
  <2> QED
    BY <1>1, <1>3, <2>3, Parts2, MovedStored
<1> QED
  BY <1>2, <1>3, Parts2, ChunkLockSegmentEffect

\* Others do not mind that the writer of a segment changes it.
LEMMA OthersWork ==
  ASSUME Inv2, Stored, NEW r \in Reqs, req[r].op = "chunk", req[r].pc \in Writing,
         NEW x \in Reqs \ {r}, req'[x] = req[x], state' = state, tmp' = tmp,
         \A i \in Chunks \ {req[r].index} : seg'[i] = seg[i],
         \A s \in Sessions : page'[s].id = page[s].id /\ page'[s].file = page[s].file
  PROVE  WorkOK(x)'
<1>1. WorkOK(x)
  BY StoredParts DEF Stored
<1>2. CASE req[x].op = None
  BY <1>2, NoWorkNext
<1>3. CASE req[x].op # None
  <2>1. req[x].session \in Sessions /\ req[x].index \in Chunks
    BY <1>3, Parts2, WorkerTyped
  <2>2. InitOK(req[x])'
    BY <1>1 DEF WorkOK, InitOK
  <2>3. CompleteOK(req[x])'
    BY <1>1 DEF WorkOK, CompleteOK
  <2>4. ChunkOK(req[x])'
    <3>1. req[x].op = "chunk" /\ req[x].pc \in Writing => seg'[req[x].index] = seg[req[x].index]
      BY <2>1, OneWriter
    <3>2. page'[req[x].session].file = page[req[x].session].file
      BY <2>1
    <3>3. {"state lock"} \cup Saving \subseteq Writing
      BY DEF Writing, Saving
    <3> QED
      BY <1>1, <3>1, <3>2, <3>3 DEF WorkOK, ChunkOK, FileOf
  <2> QED
    BY <2>2, <2>3, <2>4 DEF WorkOK
<1> QED
  BY <1>2, <1>3

\* A segment that is being written is not listed.
LEMMA WrittenStored ==
  ASSUME Inv2, Stored, NEW r \in Reqs, req[r].op = "chunk", req[r].pc \in Writing,
         \A x \in Reqs \ {r} : req'[x] = req[x], state' = state, tmp' = tmp,
         \A i \in Chunks \ {req[r].index} : seg'[i] = seg[i],
         \A s \in Sessions : /\ page'[s].id = page[s].id /\ page'[s].file = page[s].file
                             /\ page'[s].phase = "upload" =>
                                  page[s].phase = "upload" /\ page'[s].todo = page[s].todo,
         WorkOK(r)'
  PROVE  Stored'
<1>1. \A x \in Reqs : WorkOK(x)'
  BY OthersWork
<1>2. \A s \in Sessions : AcknowledgedOK(s)'
  <2>1. \A s \in Sessions : AcknowledgedOK(s)
    BY StoredParts DEF Stored
  <2> QED
    BY <2>1 DEF AcknowledgedOK
<1>3. Kept'
  <2>1. WorkOK(r)
    BY StoredParts DEF Stored
  <2>2. req[r].pc # "read" /\ req[r].pc # "clean"
    BY DEF Writing
  <2>3. state = None \/ req[r].index \notin state.received
    BY <2>1, <2>2 DEF WorkOK, ChunkOK
  <2>4. state # None => state.received \subseteq Chunks
    BY Parts2 DEF FilesTyped, chunkUploadState
  <2>5. (\A x \in Reqs : req'[x].pc # "clean") => \A x \in Reqs : req[x].pc # "clean"
    BY <2>2
  <2> QED
    BY <2>3, <2>4, <2>5 DEF Stored, Kept, ReceivedIsStored
<1> QED
  BY <1>1, <1>2, <1>3 DEF Stored, Working, WorkOK, AcknowledgedIsRecorded, AcknowledgedOK

LEMMA ChunkWriteStored ==
  ASSUME Inv2, Stored, NEW r \in Reqs, ChunkOpen(r) \/ ChunkCopy(r)
  PROVE  Stored'
<1>1. /\ state' = state /\ tmp' = tmp
      /\ req[r].op = "chunk" /\ req[r].pc \in Writing /\ req[r].pc # "read" /\ req[r].op # None
  BY Named DEF ChunkOpen, ChunkCopy, At, Writing
<1>2. req[r].index \in Chunks /\ seg \in [Chunks -> Content \cup {None}]
  BY <1>1, Parts2, WorkerTyped DEF FilesTyped
<1>3. \A i \in Chunks \ {req[r].index} : seg'[i] = seg[i]
  BY <1>2 DEF ChunkOpen, ChunkCopy
<1>4. PICK q : /\ Moves(r, q) /\ q.op = "chunk"
               /\ q.pc = IF ChunkCopy(r) THEN "state lock" ELSE "copy"
  <2>1. CASE ChunkCopy(r)
    BY <2>1, Parts2, ChunkCopyEffect
  <2>2. CASE ChunkOpen(r) /\ ~ChunkCopy(r)
    BY <2>2, Parts2, ChunkOpenEffect
  <2> QED
    BY <2>1, <2>2
<1>5. /\ req'[r] = q /\ page' = page /\ \A x \in Reqs \ {r} : req'[x] = req[x]
      /\ q.id = req[r].id /\ q.index = req[r].index /\ q.session = req[r].session
  BY <1>4, Parts2, MovesOne DEF Moves, Kin
<1>6. WorkOK(r)'
  <2>1. WorkOK(r)
    BY StoredParts DEF Stored
  <2>2. /\ state # None => state.id = q.id
        /\ state = None \/ q.index \notin state.received
    BY <1>1, <1>5, <2>1 DEF WorkOK, ChunkOK
  <2>3. ChunkCopy(r) => seg'[q.index] = WholeChunk(FileOf(q), q.index)
    BY <1>2, <1>5 DEF ChunkCopy, FileOf, PageOf
  <2>4. ChunkOK(q)'
    BY <1>1, <1>4, <1>5, <2>2, <2>3 DEF ChunkOK, FileOf, Saving
  <2> QED
    BY <1>4, <1>5, <2>4 DEF WorkOK, InitOK, ChunkOK, CompleteOK, FileOf
<1> QED
  BY <1>1, <1>3, <1>5, <1>6, WrittenStored

LEMMA ChunkGarbledStored ==
  ASSUME Inv2, Stored, NEW r \in Reqs, ChunkGarbled(r)
  PROVE  Stored'
<1>1. /\ state' = state /\ tmp' = tmp /\ AnswerError(r)
      /\ req[r].op = "chunk" /\ req[r].pc \in Writing /\ req[r].op # None
      /\ seg' = [seg EXCEPT ![req[r].index] = None]
  BY Named DEF ChunkGarbled, At, Writing
<1>2. \A i \in Chunks \ {req[r].index} : seg'[i] = seg[i]
  BY <1>1, Parts2 DEF FilesTyped
<1>3. Ends(r) /\ \A s \in Sessions : Lost(page[s], page'[s])
  BY <1>1, Parts2, ErrorKeeps
<1>4. \A s \in Sessions : /\ page'[s].id = page[s].id /\ page'[s].file = page[s].file
                          /\ page'[s].phase = "upload" =>
                               page[s].phase = "upload" /\ page'[s].todo = page[s].todo
  BY <1>3 DEF Lost
<1>5. WorkOK(r)'
  BY <1>3, IdleHandled, NoWorkNext DEF Ends
<1> QED
  BY <1>1, <1>2, <1>3, <1>4, <1>5, WrittenStored DEF Ends

LEMMA ChunkLockStateStored ==
  ASSUME Inv2, Stored, NEW r \in Reqs, ChunkLockState(r)
  PROVE  Stored'
<1>1. /\ state' = state /\ tmp' = tmp /\ seg' = seg
      /\ req[r].op = "chunk" /\ req[r].pc = "state lock" /\ req[r].op # None
  BY Named DEF ChunkLockState, At, files
<1>2. CASE AnswerError(r)
  BY <1>1, <1>2, Parts2, ErrorStored
<1>3. ASSUME state # None, NEW q, Moves(r, q), q.op = "chunk", q.pc = "tmp",
             q.st = [state EXCEPT !.received = @ \cup {req[r].index}]
      PROVE  Stored'
  <2>1. /\ req'[r] = q /\ page' = page
        /\ q.id = req[r].id /\ q.index = req[r].index /\ q.session = req[r].session
    BY <1>3, Parts2, MovesOne DEF Moves, Kin
  <2>2. WorkOK(r)
    BY StoredParts DEF Stored
  <2>3. /\ state.id = q.id /\ q.index \notin state.received
        /\ seg[q.index] = WholeChunk(FileOf(q), q.index)
    BY <1>1, <1>3, <2>1, <2>2 DEF WorkOK, ChunkOK, Writing, FileOf
  <2>4. ChunkOK(q)'
    BY <1>1, <1>3, <2>1, <2>3 DEF ChunkOK, FileOf
  <2>5. WorkOK(r)'
    BY <1>3, <2>1, <2>4 DEF WorkOK, InitOK, ChunkOK, CompleteOK, FileOf
  <2> QED
    BY <1>1, <1>3, <2>5, Parts2, MovedStored
<1> QED
  BY <1>2, <1>3, Parts2, ChunkLockStateEffect

LEMMA WriteTmpStored ==
  ASSUME Inv2, Stored, NEW r \in Reqs, WriteTmp(r)
  PROVE  Stored'
<1>1. state' = state /\ seg' = seg /\ tmp' = req[r].st /\ req[r].pc = "tmp"
  BY DEF WriteTmp
<1>2. PICK q : Moves(r, q) /\ q.pc = "rename" /\ q.st = req[r].st
  BY Parts2, WriteTmpEffect
<1>3. /\ req'[r] = q /\ page' = page /\ \A x \in Reqs \ {r} : req'[x] = req[x]
      /\ q.id = req[r].id /\ q.index = req[r].index /\ q.session = req[r].session
      /\ q.op = req[r].op /\ req[r].op \in {"init", "chunk"}
  BY <1>2, Parts2, MovesOne, WriteTmpEffect DEF Moves, Kin
<1>4. WorkOK(r) /\ SoloOK(r)
  BY Parts2, StoredParts DEF Stored, Solo
<1>5. WorkOK(r)'
  <2>1. InitOK(q)'
    BY <1>1, <1>2, <1>3, <1>4 DEF WorkOK, InitOK, Saving
  <2>2. ChunkOK(q)'
    BY <1>1, <1>2, <1>3, <1>4 DEF WorkOK, ChunkOK, Writing, Saving, FileOf
  <2> QED
    BY <1>3, <2>1, <2>2 DEF WorkOK, InitOK, ChunkOK, CompleteOK, FileOf
<1>6. ASSUME NEW x \in Reqs \ {r}
      PROVE  WorkOK(x)'
  <2>1. WorkOK(x) /\ SoloOK(x) /\ req'[x] = req[x]
    BY <1>3, Parts2, StoredParts DEF Stored, Solo
  <2>2. req[x].op = "init" => FALSE
    BY <1>3, <2>1, Named DEF SoloOK
  <2>3. req[x].op = "chunk" => req[x].pc \notin Saving
    <3>1. req[r].op = "init" => req[x].op = None
      BY <1>4 DEF SoloOK
    <3> QED
      BY <1>1, <1>3, <3>1, OneWriter, Named DEF Saving
  <2>4. ChunkOK(req[x])'
    BY <1>1, <1>3, <2>1, <2>3 DEF WorkOK, ChunkOK, FileOf, Saving
  <2>5. CompleteOK(req[x])' /\ InitOK(req[x])'
    BY <1>1, <2>1, <2>2 DEF WorkOK, CompleteOK, InitOK
  <2> QED
    BY <2>4, <2>5 DEF WorkOK
<1>7. Kept'
  <2>1. (\A x \in Reqs : req'[x].pc # "clean") => \A x \in Reqs : req[x].pc # "clean"
    BY <1>1, <1>3
  <2> QED
    BY <1>1, <2>1 DEF Stored, Kept, ReceivedIsStored
<1>8. AcknowledgedIsRecorded'
  BY <1>1, <1>3 DEF Stored, AcknowledgedIsRecorded
<1> QED
  BY <1>5, <1>6, <1>7, <1>8 DEF Stored, Working, WorkOK

\* An init saves the record that is there, or a new one while no page uploads.
LEMMA InitSaved ==
  ASSUME Inv2, Stored, NEW r \in Reqs, req[r].op = "init", req[r].pc = "rename",
         Ends(r), req[r].st # None, state' = req[r].st, seg' = seg,
         \A t \in Sessions :
           \/ page'[t] = page[t]
           \/ /\ t = req[r].session /\ page'[t].phase = "upload" /\ page'[t].file = page[t].file
              /\ page'[t].id = req[r].st.id
              /\ page'[t].todo = Indices(Size[page[t].file]) \ req[r].st.received
  PROVE  Stored'
<1>1. /\ InitOK(req[r]) /\ SoloOK(r) /\ Turns
      /\ req[r].session \in Sessions /\ page[req[r].session].phase # "new"
  BY Parts2, StoredParts, WorkerTyped, Named DEF Stored, Solo, WorkOK
<1>2. \A x \in Reqs : req'[x].op = None
  BY <1>1, IdleHandled DEF Ends, SoloOK
<1>3. \A x \in Reqs : WorkOK(x)'
  BY <1>2, NoWorkNext
<1>4. state' = state \/ state'.received = {}
  BY <1>1 DEF InitOK, Saving
<1>5. Kept'
  <2>1. CASE state' = state
    <3>1. \A x \in Reqs : req[x].pc # "clean"
      <4>1. \A x \in Reqs \ {r} : req[x].op = None /\ req[x].pc = "idle"
        BY <1>1, Parts2, Named DEF SoloOK, Requests
      <4> QED
        BY <4>1
    <3> QED
      BY <2>1, <3>1 DEF Stored, Kept, ReceivedIsStored
  <2>2. CASE state'.received = {}
    BY <2>2 DEF Kept, ReceivedIsStored
  <2> QED
    BY <1>4, <2>1, <2>2
<1>6. ASSUME NEW s \in Sessions
      PROVE  AcknowledgedOK(s)'
  <2>1. page[s].phase # "upload"
    <3>1. Sessions \subseteq Int
      BY UploadAssumption
    <3>2. CASE s < req[r].session
      BY <1>1, <3>1, <3>2 DEF Turns, Past
    <3>3. CASE s > req[r].session
      BY <1>1, <3>1, <3>3 DEF SoloOK
    <3>4. CASE s = req[r].session
      BY <1>1, <3>4 DEF SoloOK
    <3> QED
      BY <1>1, <3>1, <3>2, <3>3, <3>4
  <2>2. CASE page'[s] = page[s]
    BY <2>1, <2>2 DEF AcknowledgedOK
  <2>3. CASE /\ page'[s].file = page[s].file /\ page'[s].id = req[r].st.id
             /\ page'[s].todo = Indices(Size[page[s].file]) \ req[r].st.received
    BY <2>3 DEF AcknowledgedOK
  <2> QED
    BY <2>2, <2>3
<1> QED
  BY <1>3, <1>5, <1>6 DEF Stored, Working, WorkOK, AcknowledgedIsRecorded, AcknowledgedOK

\* A chunk is added to the record, where its segment is complete.
LEMMA ChunkSaved ==
  ASSUME Inv2, Stored, NEW r \in Reqs, req[r].op = "chunk", req[r].pc = "rename",
         Answer(r, ChunkStored(PageOf(r), req[r].index)), state' = tmp, seg' = seg
  PROVE  Stored'
<1>1. ChunkOK(req[r]) /\ SoloOK(r) /\ req[r].pc \in Writing /\ req[r].pc \in Saving /\ req[r].op # None
  BY Parts2, StoredParts, Named DEF Stored, Solo, WorkOK, Writing, Saving
<1>2. /\ state # None /\ state.id = req[r].id /\ req[r].index \notin state.received
      /\ tmp = [state EXCEPT !.received = @ \cup {req[r].index}]
      /\ seg[req[r].index] = WholeChunk(FileOf(req[r]), req[r].index)
  BY <1>1 DEF ChunkOK
<1>3. /\ state \in chunkUploadState /\ state' \in chunkUploadState /\ state' # None
      /\ state'.id = state.id /\ state'.size = state.size
      /\ state'.received = state.received \cup {req[r].index}
  <2>1. state \in chunkUploadState /\ req[r].index \in Chunks
    BY <1>1, <1>2, Parts2, WorkerTyped DEF FilesTyped
  <2>2. state' \in chunkUploadState
    BY <1>2, <2>1 DEF chunkUploadState
  <2> QED
    BY <1>2, <2>1, <2>2, NoneAssumption DEF chunkUploadState
<1>4. /\ state.size = Size[FileOf(req[r])] /\ FileOf(req[r]) \in Files
      /\ req[r].index \in Indices(state.size)
  BY <1>1, <1>2, Parts2, SameLayout, OwnedFile DEF Saving
<1>5. /\ Ends(r)
      /\ \A s \in Sessions : /\ page'[s].id = page[s].id /\ page'[s].file = page[s].file
                             /\ AcknowledgedOK(s)'
  BY <1>1, <1>2, <1>3, StoredAnswer DEF Saving
<1>6. ASSUME NEW x \in Reqs \ {r}
      PROVE  WorkOK(x)'
  <2>1. WorkOK(x) /\ SoloOK(x) /\ req'[x] = req[x]
    BY <1>5, Parts2, StoredParts DEF Stored, Solo, Ends
  <2>2. req[x].op # "init"
    BY <1>1, <2>1 DEF SoloOK
  <2>3. req[x].op = "complete" => req[x].pc = "read"
    BY <1>1, NobodyWrites
  <2>4. req[x].op = "chunk" =>
          req[x].pc \notin Saving /\ (req[x].pc \in Writing => req[x].index # req[r].index)
    BY <1>1, OneWriter
  <2>5. req[x].op = "chunk" => page'[req[x].session].file = page[req[x].session].file
    BY <1>5, Parts2, WorkerTyped, Named
  <2>6. ChunkOK(req[x])'
    <3> SUFFICES ASSUME req[x].op = "chunk", req[x].pc # "read"
                 PROVE  /\ state'.id = req[x].id
                        /\ req[x].pc \in Writing => req[x].index \notin state'.received
                        /\ req[x].pc = "state lock" =>
                             seg[req[x].index] = WholeChunk(page[req[x].session].file, req[x].index)
      BY <1>3, <2>1, <2>4, <2>5 DEF ChunkOK, FileOf, Saving
    <3> QED
      BY <1>2, <1>3, <2>1, <2>4 DEF WorkOK, ChunkOK, FileOf
  <2>7. CompleteOK(req[x])' /\ InitOK(req[x])'
    BY <2>1, <2>2, <2>3 DEF CompleteOK, InitOK
  <2> QED
    BY <2>6, <2>7 DEF WorkOK
<1>7. WorkOK(r)'
  BY <1>5, IdleHandled, NoWorkNext DEF Ends
<1>8. Kept'
  <2>1. (\A x \in Reqs : req'[x].pc # "clean") => \A x \in Reqs : req[x].pc # "clean"
    BY <1>5 DEF Ends
  <2>2. \E f \in Files : Size[f] = state.size /\ seg[req[r].index] = WholeChunk(f, req[r].index)
    BY <1>2, <1>4
  <2> QED
    BY <1>2, <1>3, <2>1, <2>2 DEF Stored, Kept, ReceivedIsStored
<1> QED
  BY <1>5, <1>6, <1>7, <1>8 DEF Stored, Working, WorkOK, AcknowledgedIsRecorded, AcknowledgedOK

LEMMA RenameStored ==
  ASSUME Inv2, Stored, NEW r \in Reqs, Rename(r)
  PROVE  Stored'
<1>1. seg' = seg /\ req[r].pc = "rename"
  BY DEF Rename
<1>2. Ends(r) /\ req[r].op \in {"init", "chunk"} /\ req[r].st # None /\ req[r].op # None
  BY Named, Parts2, RenameEffect
<1>3. req[r].pc # "clean"
  BY <1>1
<1>4. CASE tmp = None /\ AnswerError(r) /\ UNCHANGED <<state, tmp>>
  BY <1>1, <1>2, <1>3, <1>4, Parts2, ErrorStored
<1>5. CASE /\ tmp # None /\ state' = tmp
           /\ Answer(r, IF req[r].op = "init" THEN Initialised(PageOf(r), req[r].st)
                                              ELSE ChunkStored(PageOf(r), req[r].index))
  <2>1. CASE req[r].op = "init"
    <3>1. InitOK(req[r])
      BY StoredParts DEF Stored, WorkOK
    <3>2. state' = req[r].st
      BY <1>1, <1>5, <2>1, <3>1 DEF InitOK, Saving
    <3>3. \A t \in Sessions :
            \/ page'[t] = page[t]
            \/ /\ t = req[r].session /\ page'[t] = Initialised(page[t], req[r].st)
      BY <1>2, <1>5, <2>1, Parts2, AnswerEffect DEF PageOf
    <3>4. \A t \in Sessions : page[t] \in Page
      BY Parts2 DEF Pages, Shown
    <3>5. \A t \in Sessions : LET c == Initialised(page[t], req[r].st) IN
            /\ c.phase = "upload" /\ c.file = page[t].file /\ c.id = req[r].st.id
            /\ c.todo = Indices(Size[page[t].file]) \ req[r].st.received
      BY <3>4 DEF Initialised, Page
    <3> QED
      BY <1>1, <1>2, <2>1, <3>2, <3>3, <3>5, InitSaved
  <2>2. CASE req[r].op = "chunk"
    BY <1>1, <1>5, <2>2, ChunkSaved
  <2> QED
    BY <1>2, <2>1, <2>2
<1> QED
  BY <1>4, <1>5 DEF Rename

LEMMA CompleteReadStored ==
  ASSUME Inv2, Stored, NEW r \in Reqs, CompleteRead(r)
  PROVE  Stored'
<1>1. /\ state' = state /\ tmp' = tmp /\ seg' = seg
      /\ req[r].op = "complete" /\ req[r].pc = "read" /\ req[r].op # None
  BY Named DEF CompleteRead, At, files
<1>2. CASE AnswerError(r)
  BY <1>1, <1>2, Parts2, ErrorStored
<1>3. CASE /\ state # None /\ state.id = req[r].id
           /\ Answer(r, Conflicted(PageOf(r), Indices(state.size) \ state.received))
  <2>1. /\ Ends(r)
        /\ \A t \in Sessions :
             \/ page'[t] = page[t]
             \/ /\ t = req[r].session
                /\ page'[t].phase = "upload" /\ page'[t].file = page[t].file
                /\ page'[t].id = page[t].id
                /\ page'[t].todo = Indices(state.size) \ state.received
    BY <1>1, <1>3, Parts2, ConflictEffect
  <2>2. state.size = Size[FileOf(req[r])]
    BY <1>1, <1>3, Parts2, SameLayout
  <2>3. page[req[r].session].id = req[r].id
    BY <1>1, Parts2 DEF Owned, OwnedOK
  <2>4. \A t \in Sessions : page'[t] = page[t] \/ AcknowledgedOK(t)'
    BY <1>1, <1>3, <2>1, <2>2, <2>3 DEF AcknowledgedOK, FileOf
  <2> QED
    BY <1>1, <2>1, <2>4, Parts2, EndedStored
<1>4. ASSUME state # None, state.id = req[r].id, Indices(state.size) \subseteq state.received,
             NEW q, Moves(r, q), q.op = "complete", q.pc = "create", q.st = state
      PROVE  Stored'
  <2>1. req'[r] = q /\ q.id = req[r].id
    BY <1>4, Parts2, MovesOne DEF Moves, Kin
  <2>2. WorkOK(r)'
    BY <1>1, <1>4, <2>1 DEF WorkOK, ChunkOK, CompleteOK, InitOK
  <2> QED
    BY <1>1, <1>4, <2>2, Parts2, MovedStored
<1> QED
  BY <1>2, <1>3, <1>4, Parts2, CompleteReadEffect

\* An assembly changes only the destination.
LEMMA AssemblyStored ==
  ASSUME Inv2, Stored, NEW r \in Reqs, req[r].op = "complete", req[r].pc # "read",
         state' = state, tmp' = tmp, seg' = seg,
         NEW q, Moves(r, q), q.op = "complete", q.st = req[r].st, req[r].pc = "clean" => q.pc = "clean"
  PROVE  Stored'
<1>1. req'[r] = q /\ q.id = req[r].id
  BY Parts2, MovesOne DEF Moves, Kin
<1>2. WorkOK(r)
  BY StoredParts DEF Stored
<1>3. WorkOK(r)'
  BY <1>1, <1>2 DEF WorkOK, ChunkOK, CompleteOK, InitOK
<1> QED
  BY <1>3, Parts2, MovedStored

LEMMA AssembleStored ==
  ASSUME Inv2, Stored, NEW r \in Reqs,
         AssembleCreate(r) \/ AssembleAppend(r) \/ AssembleStat(r) \/ AssembleCheck(r)
  PROVE  Stored'
<1>1. /\ state' = state /\ tmp' = tmp /\ seg' = seg
      /\ req[r].op = "complete" /\ req[r].pc # "read" /\ req[r].pc # "clean"
  BY DEF AssembleCreate, AssembleAppend, AssembleStat, AssembleCheck, At, files
<1>2. AssembleFails(r) \/ \E q : Moves(r, q) /\ q.op = "complete" /\ q.st = req[r].st
  <2>1. CASE AssembleCreate(r)
    BY <2>1, Parts2, AssembleCreateEffect
  <2>2. CASE AssembleAppend(r)
    BY <2>2, Parts2, AssembleAppendEffect
  <2>3. CASE AssembleStat(r)
    BY <2>3, Parts2, AssembleStatEffect
  <2>4. CASE AssembleCheck(r)
    BY <2>4, Parts2, AssembleCheckEffect
  <2> QED
    BY <2>1, <2>2, <2>3, <2>4
<1> QED
  BY <1>1, <1>2, Parts2, AssemblyStored, FailsStored

LEMMA AbortReadStored ==
  ASSUME Inv2, Stored, NEW r \in Reqs, AbortRead(r)
  PROVE  Stored'
<1>1. /\ state' = state /\ tmp' = tmp /\ seg' = seg
      /\ req[r].op = "abort" /\ req[r].pc = "read" /\ req[r].op # None
  BY Named DEF AbortRead, At, files
<1>2. CASE Answer(r, PageOf(r))
  <2>1. Ends(r) /\ \A t \in Sessions : page'[t] = page[t]
    BY <1>1, <1>2, Parts2, AnswerEffect
  <2> QED
    BY <1>1, <2>1, Parts2, EndedStored
<1>3. ASSUME NEW q, Moves(r, q), q.op = "abort"
      PROVE  Stored'
  <2>1. req'[r] = q
    BY <1>3, Parts2, MovesOne
  <2>2. WorkOK(r)'
    BY <1>3, <2>1 DEF WorkOK, ChunkOK, CompleteOK, InitOK
  <2> QED
    BY <1>1, <1>3, <2>2, Parts2, MovedStored
<1> QED
  BY <1>2, <1>3, Parts2, AbortReadEffect

\* Nobody relies on the segments, or the record, that a clean-up removes.
LEMMA CleanAlone ==
  ASSUME Inv2, Stored, NEW r \in Reqs, req[r].pc = "clean", NEW x \in Reqs \ {r}
  PROVE  /\ req[x].op = None \/ req[x].op = "chunk"
         /\ req[x].op = "chunk" => req[x].pc \notin Writing
<1>1. req[r].op \in {"complete", "abort"} /\ SoloOK(r) /\ SoloOK(x) /\ req[r].op # None
  BY Parts2, CleanPoint DEF Solo
<1>2. req[x].op \in Ops \cup {None}
  BY Named, Parts2 DEF Requests
<1>3. req[x].op \notin {"init", "abort", "complete"}
  BY <1>1, Named DEF SoloOK
<1>4. req[r].op = "abort" => req[x].op = None
  BY <1>1 DEF SoloOK
<1>5. req[x].op = "chunk" => req[x].pc \notin Writing
  BY <1>1, <1>4, NobodyWrites, Named
<1> QED
  BY <1>2, <1>3, <1>5 DEF Ops

LEMMA CleanSegmentStored ==
  ASSUME Inv2, Stored, NEW r \in Reqs, CleanSegment(r)
  PROVE  Stored'
<1>1. state' = state /\ tmp' = tmp /\ req[r].pc = "clean"
  BY DEF CleanSegment
<1>2. PICK q : Moves(r, q) /\ q.pc = "clean" /\ q.st = req[r].st
  BY Parts2, CleanSegmentEffect
<1>3. /\ req'[r] = q /\ page' = page /\ \A x \in Reqs \ {r} : req'[x] = req[x]
      /\ q.op = req[r].op /\ q.id = req[r].id
  BY <1>2, Parts2, MovesOne DEF Moves, Kin
<1>4. WorkOK(r)'
  <2>1. WorkOK(r) /\ req[r].op \in {"complete", "abort"}
    BY <1>1, Parts2, StoredParts, CleanPoint DEF Stored
  <2> QED
    BY <1>1, <1>2, <1>3, <2>1 DEF WorkOK, InitOK, ChunkOK, CompleteOK
<1>5. ASSUME NEW x \in Reqs \ {r}
      PROVE  WorkOK(x)'
  <2>1. WorkOK(x) /\ req'[x] = req[x]
    BY <1>3, StoredParts DEF Stored
  <2>2. CASE req[x].op = None
    BY <2>1, <2>2, NoWorkNext
  <2>3. CASE req[x].op = "chunk" /\ req[x].pc \notin Writing
    BY <1>1, <2>1, <2>3 DEF WorkOK, InitOK, ChunkOK, CompleteOK, Writing, Saving
  <2> QED
    BY <1>1, <2>2, <2>3, CleanAlone
<1>6. Kept'
  BY <1>2, <1>3 DEF Kept, ReceivedIsStored
<1>7. AcknowledgedIsRecorded'
  BY <1>1, <1>3 DEF Stored, AcknowledgedIsRecorded
<1> QED
  BY <1>4, <1>5, <1>6, <1>7 DEF Stored, Working, WorkOK

LEMMA CleanStateStored ==
  ASSUME Inv2, Stored, NEW r \in Reqs, CleanState(r)
  PROVE  Stored'
<1>1. tmp' = tmp /\ seg' = seg /\ req[r].pc = "clean"
  BY DEF CleanState
<1>2. /\ Ends(r) /\ req[r].op \in {"complete", "abort"} /\ state' = None
      /\ \A t \in Sessions : page'[t] = page[t] \/ page'[t].phase = "done"
  BY Parts2, CleanStateEffect
<1>3. ASSUME NEW x \in Reqs
      PROVE  WorkOK(x)'
  <2>1. CASE x = r \/ req[x].op = None
    BY <1>2, <2>1, IdleHandled, NoWorkNext DEF Ends
  <2>2. CASE x # r /\ req[x].op = "chunk" /\ req[x].pc \notin Writing
    <3>1. req'[x] = req[x]
      BY <1>2, <2>2 DEF Ends
    <3> QED
      BY <1>2, <2>2, <3>1 DEF WorkOK, InitOK, ChunkOK, CompleteOK, Writing, Saving
  <2> QED
    BY <1>1, <2>1, <2>2, CleanAlone
<1>4. Kept'
  BY <1>2 DEF Kept, ReceivedIsStored
<1>5. ASSUME NEW s \in Sessions
      PROVE  page'[s].phase # "upload"
  <2>1. SoloOK(r) /\ Turns /\ Sessions \subseteq Int
    BY Parts2, UploadAssumption DEF Solo
  <2>2. req[r].session \in Sessions /\ page[req[r].session].phase # "new"
    BY <1>2, Parts2, WorkerTyped, Named
  <2>3. page[s].phase # "upload"
    <3>1. CASE req[r].op = "abort"
      BY <2>1, <3>1 DEF SoloOK, Past
    <3>2. CASE req[r].op = "complete" /\ s = req[r].session
      BY <2>1, <3>2 DEF SoloOK
    <3>3. CASE req[r].op = "complete" /\ s > req[r].session
      BY <2>1, <3>3 DEF SoloOK
    <3>4. CASE s < req[r].session
      BY <2>1, <2>2, <3>4 DEF Turns, Past
    <3> QED
      BY <1>2, <2>1, <2>2, <3>1, <3>2, <3>3, <3>4
  <2> QED
    BY <1>2, <2>3
<1>6. AcknowledgedIsRecorded'
  BY <1>5 DEF AcknowledgedIsRecorded
<1> QED
  BY <1>3, <1>4, <1>6 DEF Stored, Working, WorkOK

LEMMA ServeStored ==
  ASSUME Inv2, Stored, NEW r \in Reqs, Serve(r) \/ InitRefused(r) \/ ChunkGarbled(r)
  PROVE  Stored'
<1>1. CASE InitRefused(r)
  <2>1. /\ state' = state /\ tmp' = tmp /\ seg' = seg /\ AnswerError(r)
        /\ req[r].op # None /\ req[r].pc # "clean"
    BY <1>1, Named DEF InitRefused, At, files
  <2> QED
    BY <2>1, Parts2, ErrorStored
<1> QED
  BY <1>1, InitReadStored, ChunkReadStored, ChunkLockSegmentStored, ChunkWriteStored, ChunkGarbledStored,
     ChunkLockStateStored, WriteTmpStored, RenameStored, CompleteReadStored, AssembleStored,
     AbortReadStored, CleanSegmentStored, CleanStateStored DEF Serve

LEMMA BrowseStored ==
  ASSUME Inv2, Stored, NEW s \in Sessions,
         Start(s) \/ Upload(s) \/ SendAbort(s) \/ LoseAnswer(s) \/ Close(s)
  PROVE  Stored'
<1>1. CASE Start(s)
  <2>1. UNCHANGED files
    BY <1>1 DEF Start
  <2>2. PICK r \in Reqs : Arrives(r, "init", s, 0)
    BY <1>1, Parts2, StartEffect
  <2>3. /\ page[s].phase = "new" /\ page'[s].phase = "init" /\ page'[s].id = 0
        /\ \A t \in Sessions \ {s} : page'[t] = page[t]
    BY <1>1, Parts2, StartEffect
  <2>4. \A x \in Reqs : req'[x] = req[x] \/ (req[x].op = None /\ req'[x].pc = "read")
    BY <2>2 DEF Arrives
  <2> QED
    BY <2>1, <2>3, <2>4, Parts2, SentStored
<1>2. ASSUME NEW i \in Chunks, SendChunk(s, i)
      PROVE  Stored'
  <2>1. UNCHANGED files
    BY <1>2 DEF SendChunk
  <2>2. PICK r \in Reqs : Arrives(r, "chunk", s, i)
    BY <1>2, Parts2, SendChunkEffect
  <2>3. /\ page'[s].phase = page[s].phase /\ page'[s].id = page[s].id
        /\ page'[s].file = page[s].file /\ page'[s].todo = page[s].todo
        /\ \A t \in Sessions \ {s} : page'[t] = page[t]
    BY <1>2, Parts2, SendChunkEffect
  <2>4. \A x \in Reqs : req'[x] = req[x] \/ (req[x].op = None /\ req'[x].pc = "read")
    BY <2>2 DEF Arrives
  <2> QED
    BY <2>1, <2>3, <2>4, Parts2, SentStored
<1>3. CASE SendComplete(s)
  <2>1. UNCHANGED files
    BY <1>3 DEF SendComplete
  <2>2. CASE req' = req /\ \A t \in Sessions : Lost(page[t], page'[t])
    BY <2>1, <2>2, Parts2, SentStored
  <2>3. ASSUME NEW r \in Reqs, Arrives(r, "complete", s, 0), page'[s].phase = "complete",
               page'[s].id = page[s].id, page'[s].file = page[s].file,
               \A t \in Sessions \ {s} : page'[t] = page[t]
        PROVE  Stored'
    <3>1. \A x \in Reqs : req'[x] = req[x] \/ (req[x].op = None /\ req'[x].pc = "read")
      BY <2>3 DEF Arrives
    <3> QED
      BY <2>1, <2>3, <3>1, Parts2, SentStored
  <2> QED
    BY <1>3, <2>2, <2>3, Parts2, SendCompleteEffect
<1>4. CASE SendAbort(s)
  <2>1. UNCHANGED files
    BY <1>4 DEF SendAbort
  <2>2. PICK r \in Reqs : page' = page /\ Arrives(r, "abort", s, 0)
    BY <1>4, Parts2, SendAbortEffect
  <2>3. \A x \in Reqs : req'[x] = req[x] \/ (req[x].op = None /\ req'[x].pc = "read")
    BY <2>2 DEF Arrives
  <2> QED
    BY <2>1, <2>2, <2>3, Parts2, SentStored
<1>5. CASE LoseAnswer(s) \/ Close(s)
  <2>1. UNCHANGED files
    BY <1>5 DEF LoseAnswer, Close
  <2>2. req' = req /\ \A t \in Sessions : Lost(page[t], page'[t])
    BY <1>5, Parts2, LoseAnswerEffect, CloseEffect
  <2> QED
    BY <2>1, <2>2, Parts2, SentStored
<1> QED
  BY <1>1, <1>2, <1>3, <1>4, <1>5 DEF Upload

LEMMA CrashStored ==
  ASSUME Inv2, Stored, Crash
  PROVE  Stored'
<1>1. state' = state /\ tmp' = tmp /\ seg' = seg
  BY DEF Crash, files
<1>2. \A x \in Reqs : req'[x].op = None
  BY Parts2, CrashKeeps, IdleHandled
<1>3. "clean" \notin CrashPoints => \A x \in Reqs : req[x].pc # "clean"
  BY DEF Crash
<1>4. \A s \in Sessions :
        /\ page'[s].id = page[s].id /\ page'[s].file = page[s].file
        /\ page'[s].phase = "upload" => page[s].phase = "upload" /\ page'[s].todo = page[s].todo
  <2>1. \A s \in Sessions : PageOK(page[s]) /\ page'[s] = Crashed(page[s])
    BY Parts2, Shapes, CrashKeeps DEF Pages
  <2> QED
    BY <2>1, CrashedOK
<1> QED
  BY <1>1, <1>2, <1>3, <1>4, Parts2, StoredStays

LEMMA Next3 ==
  ASSUME Overlap = "nothing", Inv2, Stored, [Next]_vars
  PROVE  Stored'
<1>1. CASE UNCHANGED vars
  <2>1. UNCHANGED files /\ req' = req /\ page' = page
    BY <1>1 DEF vars
  <2> QED
    BY <2>1, Parts2, SentStored
<1>2. CASE Over
  BY <1>1, <1>2 DEF Over
<1>3. ASSUME NEW r \in Reqs, Serve(r) \/ InitRefused(r) \/ ChunkGarbled(r)
      PROVE  Stored'
  BY <1>3, ServeStored
<1>4. ASSUME NEW s \in Sessions, Start(s) \/ Upload(s) \/ SendAbort(s) \/ LoseAnswer(s) \/ Close(s)
      PROVE  Stored'
  BY <1>4, BrowseStored
<1>5. CASE Crash
  BY <1>5, CrashStored
<1> QED
  BY <1>1, <1>2, <1>3, <1>4, <1>5 DEF Next

LEMMA Init3 == Init => Stored
<1> SUFFICES ASSUME Init
             PROVE  Stored
  OBVIOUS
<1>1. \A x \in Reqs : req[x].op = None
  BY IdleHandled DEF Init
<1>2. Kept
  BY DEF Init, Kept, ReceivedIsStored
<1>3. AcknowledgedIsRecorded
  BY DEF Init, AcknowledgedIsRecorded, NewPage
<1> QED
  BY <1>1, <1>2, <1>3, NoWork, StoredParts DEF Stored

\* Uploads that follow one another, and a process that does not die while it cleans up: what the
\* record lists is on disk, complete and of a file of the recorded size.
THEOREM ListedIsStored ==
  ASSUME Overlap = "nothing", "clean" \notin CrashPoints
  PROVE  Spec => []ReceivedIsStored
<1>1. Init => Inv2 /\ Stored
  BY Init2, Init3
<1>2. Inv2 /\ Stored /\ [Next]_vars => Inv2' /\ Stored'
  BY Next2, Next3
<1>3. Stored => ReceivedIsStored
  BY DEF Stored, Kept
<1> QED
  BY <1>1, <1>2, <1>3, PTL DEF Spec

\* Uploads that follow one another, wherever the process dies: no page is told of a chunk that the
\* record of its upload does not keep until complete is called.
THEOREM ToldIsRecorded ==
  ASSUME Overlap = "nothing"
  PROVE  Spec => []AcknowledgedIsRecorded
<1>1. Init => Inv2 /\ Stored
  BY Init2, Init3
<1>2. Inv2 /\ Stored /\ [Next]_vars => Inv2' /\ Stored'
  BY Next2, Next3
<1>3. Stored => AcknowledgedIsRecorded
  BY DEF Stored
<1> QED
  BY <1>1, <1>2, <1>3, PTL DEF Spec
-----------------------------------------------------------------------------
(***************************************************************************)
(* The fourth layer: an assembly, and the destination.                     *)
(***************************************************************************)

\* The size tells the files apart, so a resumed record is always one of the same file.
Distinct == \A f, g \in Files : Size[f] = Size[g] => f = g

\* Not yet at the destination.
Before == {"read", "create"}

\* A step that has nothing to do with an assembly under way, or the destination.
LEMMA FollowedStays ==
  ASSUME Requests, Owned, Followed, dst' = dst, promised' = promised,
         \A s \in Sessions : page[s].phase # "new" => page'[s].file = page[s].file,
         \A x \in Reqs :
           \/ req'[x] = req[x]
           \/ /\ req[x].op = "complete" => req[x].pc \in Before
              /\ req'[x].op = "complete" => req'[x].pc \in Before
  PROVE  Followed'
<1>1. Stays'
  BY DEF Followed, Stays, Before
<1>2. ASSUME NEW x \in Reqs
      PROVE  AssemblyOK(req[x])'
  <2>1. CASE req'[x].op = "complete" => req'[x].pc \in Before
    BY <2>1 DEF AssemblyOK, Before
  <2>2. CASE req'[x] = req[x] /\ req[x].op = "complete"
    <3>1. page'[req[x].session].file = page[req[x].session].file
      BY <2>2, WorkerTyped, Named
    <3> QED
      BY <2>2, <3>1 DEF Followed, AssemblyOK, FileOf
  <2> QED
    BY <2>1, <2>2
<1> QED
  BY <1>1, <1>2 DEF Followed

LEMMA OtherMoves ==
  ASSUME Requests, Owned, Followed, dst' = dst, promised' = promised,
         NEW r \in Reqs, req[r].op # "complete", NEW q, Moves(r, q)
  PROVE  Followed'
<1>1. req'[r] = q /\ page' = page /\ (\A x \in Reqs \ {r} : req'[x] = req[x]) /\ q.op = req[r].op
  BY MovesOne DEF Moves, Kin
<1> QED
  BY <1>1, FollowedStays

LEMMA OtherEnds ==
  ASSUME Requests, Owned, Followed, dst' = dst, promised' = promised,
         NEW r \in Reqs, req[r].op = "complete" => req[r].pc \in Before, Ends(r),
         \A s \in Sessions : page'[s].file = page[s].file
  PROVE  Followed'
<1>1. req'[r].op # "complete" /\ \A x \in Reqs \ {r} : req'[x] = req[x]
  BY IdleHandled, Named DEF Ends
<1> QED
  BY <1>1, FollowedStays

LEMMA OtherErrors ==
  ASSUME Requests, Pages, Owned, Followed, dst' = dst, promised' = promised,
         NEW r \in Reqs, req[r].op = "complete" => req[r].pc \in Before, AnswerError(r), req[r].op # None
  PROVE  Followed'
<1>1. Ends(r) /\ \A s \in Sessions : page'[s].file = page[s].file
  BY ErrorKeeps DEF Lost
<1> QED
  BY <1>1, OtherEnds

\* The one assembly that is under way goes on.
LEMMA Assembling ==
  ASSUME Inv2, Followed, NEW r \in Reqs, req[r].op = "complete", NEW q, Moves(r, q),
         q.pc \notin Before, AssemblyOK(q)'
  PROVE  Followed'
<1>1. req'[r] = q /\ page' = page /\ (\A x \in Reqs \ {r} : req'[x] = req[x]) /\ q.op = "complete"
  BY Parts2, MovesOne DEF Moves, Kin
<1>2. \A x \in Reqs \ {r} : req'[x].op # "complete"
  BY <1>1, Parts2 DEF Solo, SoloOK
<1>3. ASSUME NEW x \in Reqs
      PROVE  AssemblyOK(req[x])'
  <2>1. CASE x = r
    BY <1>1, <2>1 DEF AssemblyOK, FileOf
  <2>2. CASE x # r
    BY <1>2, <2>2 DEF AssemblyOK
  <2> QED
    BY <2>1, <2>2
<1>4. Stays'
  BY <1>1 DEF Stays, Before
<1> QED
  BY <1>3, <1>4 DEF Followed

\* What an assembly works from: the record of its file, with all its segments.
LEMMA Complete ==
  ASSUME Distinct, "clean" \notin CrashPoints, Inv2, Stored, NEW r \in Reqs, req[r].op = "complete",
         req[r].pc \notin {"read", "clean"}
  PROVE  /\ FileOf(req[r]) \in Files /\ req[r].st.size = Size[FileOf(req[r])]
         /\ Size[FileOf(req[r])] \in Nat \ {0}
         /\ \A i \in Indices(req[r].st.size) : i \in Chunks /\ seg[i] = WholeChunk(FileOf(req[r]), i)
<1>1. WorkOK(r) /\ SoloOK(r) /\ req[r].st # None
  BY Parts2, StoredParts, WorkerTyped, Named DEF Stored, Solo
<1>2. state = req[r].st /\ state # None /\ state.id = req[r].id /\ Indices(state.size) \subseteq state.received
  BY <1>1 DEF WorkOK, CompleteOK
<1>3. state.size = Size[FileOf(req[r])] /\ FileOf(req[r]) \in Files
  BY <1>2, Parts2, SameLayout
<1>4. \A x \in Reqs : req[x].pc # "clean"
  <2> SUFFICES ASSUME NEW x \in Reqs, req[x].pc = "clean"
               PROVE  FALSE
    OBVIOUS
  <2>1. x # r /\ req[x].op \in {"complete", "abort"} /\ SoloOK(x)
    BY Parts2, CleanPoint DEF Solo
  <2> QED
    BY <1>1, <2>1, Named DEF SoloOK
<1>5. ReceivedIsStored
  BY DEF Stored, Kept
<1>6. \A i \in Indices(state.size) : seg[i] = WholeChunk(FileOf(req[r]), i)
  BY <1>2, <1>3, <1>4, <1>5 DEF ReceivedIsStored, Distinct
<1> QED
  BY <1>2, <1>3, <1>6, FileChunks

\* The beginnings of a file, from nothing to all of it.
LEMMA Beginnings ==
  ASSUME NEW f \in Files
  PROVE  /\ Beginning(f, 0) = Empty
         /\ \A n \in Indices(Size[f]) :
              [Beginning(f, n) EXCEPT ![n] = WholeChunk(f, n)] = Beginning(f, n + 1)
         /\ Beginning(f, TotalChunks(Size[f])) = WholeFile(f)
<1>1. Chunks \subseteq Nat /\ Size[f] \in Nat \ {0} /\ Indices(Size[f]) \subseteq Chunks
  BY Naturals, FileChunks
<1>2. Beginning(f, 0) = Empty
  BY <1>1 DEF Beginning, Empty
<1>3. ASSUME NEW n \in Indices(Size[f])
      PROVE  [Beginning(f, n) EXCEPT ![n] = WholeChunk(f, n)] = Beginning(f, n + 1)
  <2>1. n \in Chunks /\ n \in Nat
    BY <1>1
  <2>2. WholeFile(f)[n] = WholeChunk(f, n)
    BY <2>1 DEF WholeFile
  <2>3. \A i \in Chunks : i < n + 1 <=> (i < n \/ i = n)
    BY <1>1, <2>1
  <2> QED
    BY <2>1, <2>2, <2>3 DEF Beginning
<1>4. Beginning(f, TotalChunks(Size[f])) = WholeFile(f)
  <2>1. TotalChunks(Size[f]) \in Nat
    BY <1>1, Rounding
  <2>2. \A i \in Chunks : i < TotalChunks(Size[f]) <=> i \in Indices(Size[f])
    BY <1>1, <2>1 DEF Indices
  <2>3. \A i \in Chunks : i \notin Indices(Size[f]) => WholeFile(f)[i] = None
    BY DEF WholeFile
  <2>4. WholeFile(f) = [i \in Chunks |-> WholeFile(f)[i]]
    BY DEF WholeFile
  <2> QED
    BY <2>2, <2>3, <2>4 DEF Beginning
<1> QED
  BY <1>2, <1>3, <1>4

LEMMA CreateFollowed ==
  ASSUME Distinct, "clean" \notin CrashPoints, Inv2, Stored, Followed, NEW r \in Reqs, AssembleCreate(r)
  PROVE  Followed'
<1>1. req[r].op = "complete" /\ req[r].pc = "create" /\ dst' = Empty
  BY DEF AssembleCreate, At
<1>2. PICK q : /\ Moves(r, q) /\ q.op = "complete" /\ q.pc = "append" /\ q.st = req[r].st
               /\ q.linked /\ q.n = 0 /\ q.written = 0 /\ q.stream = Empty
  BY Parts2, AssembleCreateEffect
<1>3. page' = page /\ q.session = req[r].session
  BY <1>2 DEF Moves, Kin
<1>4. FileOf(req[r]) \in Files /\ q.st.size \in Nat \ {0}
  BY <1>1, <1>2, Complete
<1>5. Beginning(FileOf(req[r]), 0) = Empty /\ Bytes(q.st.size, 0) = 0
  <2>1. 0 \in Indices(q.st.size)
    BY <1>4, Rounding DEF Indices
  <2> QED
    BY <1>4, <2>1, Beginnings, OneMore
<1>6. AssemblyOK(q)'
  BY <1>1, <1>2, <1>3, <1>5 DEF AssemblyOK, FileOf
<1> QED
  BY <1>1, <1>2, <1>6, Assembling DEF Before

LEMMA AppendFollowed ==
  ASSUME Distinct, "clean" \notin CrashPoints, Inv2, Stored, Followed, NEW r \in Reqs, AssembleAppend(r)
  PROVE  Followed'
<1>1. req[r].op = "complete" /\ req[r].pc = "append"
  BY DEF AssembleAppend, At
<1>2. RequestOK(req[r]) /\ req[r].st # None /\ req[r].n \in Indices(req[r].st.size)
  BY <1>1, Parts2, WorkerTyped, Named DEF Requests, Handled, RequestOK
<1> DEFINE f == FileOf(req[r])
<1> DEFINE n == req[r].n
<1>3. /\ f \in Files /\ req[r].st.size = Size[f] /\ n \in Indices(Size[f])
      /\ seg[n] = WholeChunk(f, n) /\ WholeChunk(f, n) # None
  <2>1. f \in Files /\ req[r].st.size = Size[f] /\ seg[n] = WholeChunk(f, n)
    BY <1>1, <1>2, Complete
  <2>2. WholeChunk(f, n) \in Content
    BY <1>2, <2>1, Contents
  <2> QED
    BY <1>2, <2>1, <2>2, NoneAssumption
<1>4. AssemblyOK(req[r])
  BY DEF Followed
<1>5. /\ req[r].linked /\ dst = req[r].stream /\ req[r].stream = Beginning(f, n)
      /\ req[r].written = Bytes(req[r].st.size, n)
  BY <1>1, <1>4 DEF AssemblyOK
<1>6. PICK q : /\ dst' = [dst EXCEPT ![n] = seg[n]]
               /\ Moves(r, q) /\ q.op = "complete" /\ q.pc = "stat" /\ q.st = req[r].st
               /\ q.linked = req[r].linked /\ q.n = n /\ q.written = req[r].written
               /\ q.stream = [req[r].stream EXCEPT ![n] = seg[n]]
  BY <1>3, <1>5, Parts2, AssembleAppendEffect
<1>7. page' = page /\ q.session = req[r].session
  BY <1>6 DEF Moves, Kin
<1>8. q.stream = Beginning(f, n + 1) /\ dst' = q.stream
  BY <1>3, <1>5, <1>6, Beginnings
<1>9. f = FileOf(q)'
  BY <1>7 DEF FileOf
<1> HIDE DEF f, n
<1>10. AssemblyOK(q)'
  BY <1>5, <1>6, <1>8, <1>9 DEF AssemblyOK
<1> QED
  BY <1>1, <1>6, <1>10, Assembling DEF Before

LEMMA StatFollowed ==
  ASSUME Distinct, "clean" \notin CrashPoints, Inv2, Stored, Followed, NEW r \in Reqs, AssembleStat(r)
  PROVE  Followed'
<1>1. req[r].op = "complete" /\ req[r].pc = "stat" /\ dst' = dst
  BY DEF AssembleStat, At, files
<1>2. RequestOK(req[r]) /\ req[r].st # None /\ req[r].n \in Indices(req[r].st.size)
  BY <1>1, Parts2, WorkerTyped, Named DEF Requests, Handled, RequestOK
<1> DEFINE f == FileOf(req[r])
<1> DEFINE n == req[r].n
<1>3. /\ f \in Files /\ req[r].st.size = Size[f] /\ n \in Indices(Size[f]) /\ Size[f] \in Nat \ {0}
      /\ seg[n] = WholeChunk(f, n) /\ WholeChunk(f, n) # None
  <2>1. f \in Files /\ req[r].st.size = Size[f] /\ seg[n] = WholeChunk(f, n) /\ Size[f] \in Nat \ {0}
    BY <1>1, <1>2, Complete
  <2>2. WholeChunk(f, n) \in Content
    BY <1>2, <2>1, Contents
  <2> QED
    BY <1>2, <2>1, <2>2, NoneAssumption
<1>4. AssemblyOK(req[r])
  BY DEF Followed
<1>5. /\ req[r].linked /\ dst = req[r].stream /\ req[r].stream = Beginning(f, n + 1)
      /\ req[r].written = Bytes(Size[f], n)
  BY <1>1, <1>3, <1>4 DEF AssemblyOK
<1> DEFINE last == n + 1 = TotalChunks(Size[f])
<1>6. PICK q : /\ Moves(r, q) /\ q.op = "complete" /\ q.st = req[r].st
               /\ q.linked = req[r].linked /\ q.stream = req[r].stream
               /\ q.pc = (IF last THEN "check" ELSE "append")
               /\ q.n = (IF last THEN 0 ELSE n + 1)
               /\ q.written = req[r].written + chunkByteLength(Size[f], n)
  BY <1>3, Parts2, AssembleStatEffect DEF WholeChunk
<1>7. page' = page /\ q.session = req[r].session
  BY <1>6 DEF Moves, Kin
<1>8. /\ q.written = Bytes(Size[f], n + 1)
      /\ last => Bytes(Size[f], n + 1) = Size[f] /\ Beginning(f, n + 1) = WholeFile(f)
  BY <1>3, <1>5, <1>6, OneMore, Beginnings
<1>9. f = FileOf(q)'
  BY <1>7 DEF FileOf
<1>10. q.st.size = Size[f]
  BY <1>3, <1>6
<1> HIDE DEF f, n, last
<1>11. AssemblyOK(q)'
  <2>1. CASE last
    BY <1>1, <1>5, <1>6, <1>8, <1>9, <1>10, <2>1 DEF AssemblyOK
  <2>2. CASE ~last
    BY <1>1, <1>5, <1>6, <1>8, <1>9, <1>10, <2>2 DEF AssemblyOK
  <2> QED
    BY <2>1, <2>2
<1> QED
  BY <1>1, <1>6, <1>11, Assembling DEF Before

LEMMA CheckFollowed ==
  ASSUME Distinct, "clean" \notin CrashPoints, Inv2, Stored, Followed, NEW r \in Reqs, AssembleCheck(r)
  PROVE  Followed'
<1>1. req[r].op = "complete" /\ req[r].pc = "check"
  BY DEF AssembleCheck, At
<1>2. AssemblyOK(req[r])
  BY DEF Followed
<1>3. /\ dst = WholeFile(FileOf(req[r])) /\ req[r].stream = WholeFile(FileOf(req[r]))
      /\ req[r].written = req[r].st.size
  BY <1>1, <1>2 DEF AssemblyOK
<1>4. PICK q : dst' = dst /\ Moves(r, q) /\ q.op = "complete" /\ q.pc = "clean"
  BY <1>3, Parts2, AssembleCheckEffect
<1>5. page' = page /\ q.session = req[r].session
  BY <1>4 DEF Moves, Kin
<1>6. AssemblyOK(q)'
  BY <1>3, <1>4, <1>5 DEF AssemblyOK, FileOf
<1> QED
  BY <1>1, <1>4, <1>6, Assembling DEF Before

LEMMA CleanSegmentFollowed ==
  ASSUME Inv2, Followed, NEW r \in Reqs, CleanSegment(r)
  PROVE  Followed'
<1>1. req[r].pc = "clean" /\ dst' = dst /\ promised' = promised
  BY DEF CleanSegment
<1>2. req[r].op \in {"complete", "abort"}
  BY <1>1, Parts2, CleanPoint
<1>3. PICK q : Moves(r, q) /\ q.pc = "clean"
  BY Parts2, CleanSegmentEffect
<1>4. CASE req[r].op = "abort"
  BY <1>1, <1>3, <1>4, Parts2, OtherMoves
<1>5. CASE req[r].op = "complete"
  <2>1. page' = page /\ q.session = req[r].session
    BY <1>3 DEF Moves, Kin
  <2>2. dst = WholeFile(FileOf(req[r]))
    BY <1>1, <1>5 DEF Followed, AssemblyOK
  <2>3. AssemblyOK(q)'
    BY <1>1, <1>3, <2>1, <2>2 DEF AssemblyOK, FileOf
  <2> QED
    BY <1>3, <1>5, <2>3, Assembling DEF Before
<1> QED
  BY <1>2, <1>4, <1>5

\* The destination is the file, when complete answers that it is.
LEMMA CleanStateFollowed ==
  ASSUME Inv2, Followed, NEW r \in Reqs, CleanState(r)
  PROVE  Followed'
<1>1. req[r].pc = "clean" /\ dst' = dst
  BY DEF CleanState
<1>2. /\ Ends(r) /\ req[r].op \in {"complete", "abort"}
      /\ promised' = (IF req[r].op = "complete" THEN FileOf(req[r]) ELSE promised)
      /\ \A t \in Sessions : page'[t] = page[t] \/ page'[t].file = page[t].file
  BY Parts2, CleanStateEffect
<1>3. CASE req[r].op = "abort"
  BY <1>1, <1>2, <1>3, Parts2, OtherEnds
<1>4. CASE req[r].op = "complete"
  <2>1. dst = WholeFile(FileOf(req[r]))
    BY <1>1, <1>4 DEF Followed, AssemblyOK
  <2>2. \A x \in Reqs : req'[x].op # "complete"
    <3>1. SoloOK(r) /\ req'[r].op # "complete"
      BY <1>2, Parts2, IdleHandled, Named DEF Ends, Solo
    <3>2. \A x \in Reqs \ {r} : req[x].op # "complete" /\ req'[x] = req[x]
      BY <1>2, <1>4, <3>1 DEF Ends, SoloOK
    <3> QED
      BY <3>1, <3>2
  <2> QED
    BY <1>1, <1>2, <1>4, <2>1, <2>2 DEF Followed, Stays, AssemblyOK
<1> QED
  BY <1>2, <1>3, <1>4

LEMMA ServeFollowed ==
  ASSUME Distinct, "clean" \notin CrashPoints, Inv2, Stored, Followed,
         NEW r \in Reqs, Serve(r) \/ InitRefused(r) \/ ChunkGarbled(r)
  PROVE  Followed'
<1>1. CASE InitRead(r)
  <2>1. req[r].op # "complete" /\ dst' = dst /\ promised' = promised
    BY <1>1 DEF InitRead, At, files
  <2> QED
    BY <1>1, <2>1, Parts2, InitReadEffect, OtherMoves
<1>2. CASE ChunkRead(r)
  <2>1. req[r].op # "complete" /\ req[r].op # None /\ dst' = dst /\ promised' = promised
    BY <1>2, Named DEF ChunkRead, At, files
  <2> QED
    BY <1>2, <2>1, Parts2, ChunkReadEffect, OtherMoves, OtherErrors
<1>3. CASE ChunkLockSegment(r)
  <2>1. req[r].op = "chunk" /\ dst' = dst /\ promised' = promised
    BY <1>3 DEF ChunkLockSegment, At, files
  <2>2. CASE Answer(r, ChunkStored(PageOf(r), req[r].index))
    <3>1. Ends(r) /\ \A s \in Sessions : page'[s].file = page[s].file
      BY <2>1, <2>2, Parts2, StoredKeeps
    <3> QED
      BY <2>1, <3>1, Parts2, OtherEnds
  <2> QED
    BY <1>3, <2>1, <2>2, Parts2, ChunkLockSegmentEffect, OtherMoves
<1>4. CASE ChunkOpen(r) \/ ChunkCopy(r) \/ WriteTmp(r)
  <2>1. dst' = dst /\ promised' = promised /\ req[r].op # "complete"
    BY <1>4, Parts2, WriteTmpEffect DEF ChunkOpen, ChunkCopy, WriteTmp, At
  <2>2. \E q : Moves(r, q)
    BY <1>4, Parts2, ChunkOpenEffect, ChunkCopyEffect, WriteTmpEffect
  <2> QED
    BY <2>1, <2>2, Parts2, OtherMoves
<1>5. CASE ChunkLockState(r)
  <2>1. req[r].op # "complete" /\ req[r].op # None /\ dst' = dst /\ promised' = promised
    BY <1>5, Named DEF ChunkLockState, At, files
  <2> QED
    BY <1>5, <2>1, Parts2, ChunkLockStateEffect, OtherMoves, OtherErrors
<1>6. CASE Rename(r)
  <2>1. dst' = dst /\ promised' = promised
    BY <1>6 DEF Rename
  <2>2. Ends(r) /\ req[r].op # "complete" /\ \A s \in Sessions : page'[s].file = page[s].file
    BY <1>6, Parts2, RenameEffect DEF Lost
  <2> QED
    BY <2>1, <2>2, Parts2, OtherEnds
<1>7. CASE CompleteRead(r)
  <2>1. /\ req[r].op = "complete" /\ req[r].pc \in Before /\ req[r].op # None
        /\ dst' = dst /\ promised' = promised
    BY <1>7, Named DEF CompleteRead, At, files, Before
  <2>2. CASE state # None /\ Answer(r, Conflicted(PageOf(r), Indices(state.size) \ state.received))
    <3>1. Ends(r) /\ \A s \in Sessions : page'[s].file = page[s].file
      BY <2>1, <2>2, Parts2, ConflictEffect
    <3> QED
      BY <2>1, <3>1, Parts2, OtherEnds
  <2>3. ASSUME NEW q, Moves(r, q), q.pc = "create"
        PROVE  Followed'
    <3>1. req'[r] = q /\ page' = page /\ \A x \in Reqs \ {r} : req'[x] = req[x]
      BY <2>3, Parts2, MovesOne
    <3> QED
      BY <2>1, <2>3, <3>1, Parts2, FollowedStays DEF Before
  <2> QED
    BY <1>7, <2>1, <2>2, <2>3, Parts2, CompleteReadEffect, OtherErrors
<1>8. CASE AbortRead(r)
  <2>1. req[r].op = "abort" /\ req[r].op # None /\ dst' = dst /\ promised' = promised
    BY <1>8, Named DEF AbortRead, At, files
  <2>2. CASE Answer(r, PageOf(r))
    <3>1. Ends(r) /\ \A s \in Sessions : page'[s] = page[s]
      BY <2>1, <2>2, Parts2, AnswerEffect
    <3> QED
      BY <2>1, <3>1, Parts2, OtherEnds
  <2> QED
    BY <1>8, <2>1, <2>2, Parts2, AbortReadEffect, OtherMoves
<1>9. CASE InitRefused(r) \/ ChunkGarbled(r)
  <2>1. AnswerError(r) /\ req[r].op # "complete" /\ req[r].op # None /\ dst' = dst /\ promised' = promised
    BY <1>9, Named DEF InitRefused, ChunkGarbled, At, files
  <2> QED
    BY <2>1, Parts2, OtherErrors
<1> QED
  BY <1>1, <1>2, <1>3, <1>4, <1>5, <1>6, <1>7, <1>8, <1>9, CreateFollowed, AppendFollowed, StatFollowed,
     CheckFollowed, CleanSegmentFollowed, CleanStateFollowed DEF Serve

LEMMA BrowseFollowed ==
  ASSUME Inv2, Followed, NEW s \in Sessions,
         Start(s) \/ Upload(s) \/ SendAbort(s) \/ LoseAnswer(s) \/ Close(s)
  PROVE  Followed'
<1>1. dst' = dst /\ promised' = promised
  BY DEF Start, Upload, SendComplete, SendChunk, SendAbort, LoseAnswer, Close, files
<1>2. \A t \in Sessions : page[t].phase # "new" => page'[t].file = page[t].file
  <2>1. CASE Start(s)
    BY <2>1, Parts2, StartEffect
  <2>2. ASSUME NEW i \in Chunks, SendChunk(s, i)
        PROVE  \A t \in Sessions : page'[t].file = page[t].file
    BY <2>2, Parts2, SendChunkEffect
  <2>3. SendComplete(s) => \A t \in Sessions : page'[t].file = page[t].file
    BY Parts2, SendCompleteEffect DEF Lost
  <2>4. SendAbort(s) => page' = page
    BY Parts2, SendAbortEffect
  <2>5. LoseAnswer(s) \/ Close(s) => \A t \in Sessions : page'[t].file = page[t].file
    BY Parts2, LoseAnswerEffect, CloseEffect DEF Lost
  <2> QED
    BY <2>1, <2>2, <2>3, <2>4, <2>5 DEF Upload
<1>3. \A x \in Reqs : req'[x] = req[x] \/ (req[x].op = None /\ req'[x].pc = "read")
  <2>1. CASE Start(s)
    BY <2>1, Parts2, StartEffect DEF Arrives
  <2>2. ASSUME NEW i \in Chunks, SendChunk(s, i)
        PROVE  \A x \in Reqs : req'[x] = req[x] \/ (req[x].op = None /\ req'[x].pc = "read")
    BY <2>2, Parts2, SendChunkEffect DEF Arrives
  <2>3. CASE SendComplete(s)
    BY <2>3, Parts2, SendCompleteEffect DEF Arrives
  <2>4. CASE SendAbort(s)
    BY <2>4, Parts2, SendAbortEffect DEF Arrives
  <2>5. CASE LoseAnswer(s) \/ Close(s)
    BY <2>5, Parts2, LoseAnswerEffect, CloseEffect
  <2> QED
    BY <2>1, <2>2, <2>3, <2>4, <2>5 DEF Upload
<1>4. \A x \in Reqs :
        \/ req'[x] = req[x]
        \/ /\ req[x].op = "complete" => req[x].pc \in Before
           /\ req'[x].op = "complete" => req'[x].pc \in Before
  BY <1>3, Named DEF Before
<1> QED
  BY <1>1, <1>2, <1>4, Parts2, FollowedStays

LEMMA CrashFollowed ==
  ASSUME Inv2, Followed, Crash
  PROVE  Followed'
<1>1. dst' = dst /\ promised' = IF Running("complete") = {} THEN promised ELSE None
  BY DEF Crash, files
<1>2. \A x \in Reqs : req'[x].op # "complete"
  BY Parts2, CrashKeeps, IdleHandled, Named
<1>3. promised' # None => promised' = promised /\ \A x \in Reqs : req[x].op # "complete"
  BY <1>1 DEF Running
<1> QED
  BY <1>1, <1>2, <1>3 DEF Followed, Stays, AssemblyOK

LEMMA Next4 ==
  ASSUME Distinct, Overlap = "nothing", "clean" \notin CrashPoints, Inv2, Stored, Followed, [Next]_vars
  PROVE  Followed'
<1>1. CASE UNCHANGED vars
  <2>1. dst' = dst /\ promised' = promised /\ req' = req /\ page' = page
    BY <1>1 DEF vars, files
  <2> QED
    BY <2>1, Parts2, FollowedStays
<1>2. CASE Over
  BY <1>1, <1>2 DEF Over
<1>3. ASSUME NEW r \in Reqs, Serve(r) \/ InitRefused(r) \/ ChunkGarbled(r)
      PROVE  Followed'
  BY <1>3, ServeFollowed
<1>4. ASSUME NEW s \in Sessions, Start(s) \/ Upload(s) \/ SendAbort(s) \/ LoseAnswer(s) \/ Close(s)
      PROVE  Followed'
  BY <1>4, BrowseFollowed
<1>5. CASE Crash
  BY <1>5, CrashFollowed
<1> QED
  BY <1>1, <1>2, <1>3, <1>4, <1>5 DEF Next

\* The same for uploads of files that their sizes tell apart: what complete answered ok for is the
\* file, byte for byte, and stays it until the next assembly.
THEOREM CompletedIsTheFile ==
  ASSUME Overlap = "nothing", "clean" \notin CrashPoints,
         \A f, g \in Files : Size[f] = Size[g] => f = g
  PROVE  Spec => []DestinationStays
<1>1. Init => Inv2 /\ Stored /\ Followed
  <2>1. Init => Followed
    BY IdleHandled, Named DEF Init, Followed, Stays, AssemblyOK
  <2> QED
    BY <2>1, Init2, Init3
<1>2. Inv2 /\ Stored /\ Followed /\ [Next]_vars => Inv2' /\ Stored' /\ Followed'
  BY Next2, Next3, Next4 DEF Distinct
<1>3. Followed => DestinationStays
  BY DEF Followed, Stays, DestinationStays
<1> QED
  BY <1>1, <1>2, <1>3, PTL DEF Spec

=============================================================================
