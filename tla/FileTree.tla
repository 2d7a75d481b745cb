------------------------------ MODULE FileTree ------------------------------
(***************************************************************************)
(* Trees of files and the archives that carry them between a container and  *)
(* the panel: what Docker's archive interface gives and takes, and what the  *)
(* agent's tools (mcp/tools*.go), the container's listing                    *)
(* (dockerx/container_files.go) and the file manager                         *)
(* (server/container_files.go) make of an archive.                           *)
(*                                                                           *)
(* A path is a sequence of names.  A tree maps its paths to files, folders    *)
(* and links; so does an archive, whose paths begin with the last name of the *)
(* path it was taken from.  The body of a file is a sequence of lines.        *)
(***************************************************************************)
EXTENDS Integers, Sequences, FiniteSets, Functions, SequencesExt, TLC

CONSTANT Huge     \* the body of a file that is larger than any tool's limit

Root == <<>>
File(body) == [kind |-> "file", body |-> body]
Dir == [kind |-> "dir", body |-> <<>>]
Link(to) == [kind |-> "link", body |-> to]
IsFile(c) == c.kind = "file"
IsLink(c) == c.kind = "link"

Parent(p) == SubSeq(p, 1, Len(p) - 1)
Base(p) == IF p = Root THEN Root ELSE <<Last(p)>>
Below(t, p) == {q \in DOMAIN t : IsPrefix(p, q)}
Children(t, p) == {q \in Below(t, p) : Len(q) = Len(p) + 1}
Exists(t, p) == p = Root \/ p \in DOMAIN t
IsDir(t, p) == p = Root \/ (p \in DOMAIN t /\ t[p] = Dir)
Relative(p, q) == SubSeq(q, Len(p) + 1, Len(q))
Ancestors(p) == {SubSeq(p, 1, i) : i \in 1 .. Len(p)}

Empty == [n \in {} |-> Dir]
Removed(t, p) == Restrict(t, DOMAIN t \ Below(t, p))
Keep(ar, Good(_)) == Restrict(ar, {n \in DOMAIN ar : Good(ar[n])})

-----------------------------------------------------------------------------
(* Docker: an archive of a path carries everything below it ...               *)
Archive(t, p) ==
  [n \in {Base(p) \o Relative(p, q) : q \in Below(t, p)} |-> t[Parent(p) \o n]]

(* ... and one that is put into a folder fits unless a folder would replace   *)
(* what is none, or be replaced.                                              *)
Clashes(t, dest, ar) ==
  {n \in DOMAIN ar : dest \o n \in DOMAIN t /\ (t[dest \o n] = Dir) # (ar[n] = Dir)}
Laid(dest, ar) == [p \in {dest \o n : n \in DOMAIN ar} |-> ar[Relative(dest, p)]]
Put(t, dest, ar) == Laid(dest, ar) @@ t

(* What may have been laid down once it fails: folders before what is in them. *)
Begun(ar, bad) ==
  {Restrict(ar, s) : s \in {s \in SUBSET (DOMAIN ar \ bad) :
     \A n \in s, m \in DOMAIN ar : IsPrefix(m, n) => m \in s}}

-----------------------------------------------------------------------------
(* Making archives. *)

(* buildPathTar: the file, and every folder above it.                         *)
PathTar(p, body) == [n \in {SubSeq(p, 1, i) : i \in 1 .. Len(p)} |-> IF n = p THEN File(body) ELSE Dir]

(* Mutant: the archive keeps its old name.                                    *)
RewrittenSameName(ar, src, name) == Keep(ar, LAMBDA c : ~IsLink(c))

(* rewriteArchive: the root takes the new name, links are dropped.            *)
Rewritten(ar, src, name) ==
  LET kept == Keep(ar, LAMBDA c : ~IsLink(c))
  IN  [m \in {name \o Relative(src, n) : n \in DOMAIN kept} |-> kept[src \o Relative(name, m)]]

(* tarHostPath: a path of the network disk, without links.                    *)
HostTar(t, p) == Keep(Archive(t, p), LAMBDA c : ~IsLink(c))

-----------------------------------------------------------------------------
(* Reading archives. *)

(* readArchiveFile: the first file, unless it is too large.                   *)
Bodies(ar) == {ar[n].body : n \in {n \in DOMAIN ar : IsFile(ar[n])}}

(* handleGlob and walkArchiveNames: names as the archive has them.            *)
Named(n, pattern) == pattern = "*" \/ Base(n) = <<pattern>>
WalkNames(ar, pattern) == {n \in DOMAIN ar : ~IsLink(ar[n]) /\ Named(n, pattern)}
Glob(t, p, pattern) ==
  IF IsDir(t, p) THEN WalkNames(Archive(t, p), pattern)
  ELSE IF Named(p, pattern) THEN {p} ELSE {}

(* searchLines, searchArchive, handleSearchFiles: lines with the word, of the *)
(* files that are not too large.                                              *)
LinesWith(p, body, word) == {<<p, i>> : i \in {i \in DOMAIN body : body[i] = word}}
SearchArchive(ar, word, include) ==
  UNION {LinesWith(n, ar[n].body, word) :
           n \in {n \in DOMAIN ar : IsFile(ar[n]) /\ ar[n].body # Huge /\ Named(n, include)}}
Search(t, p, word, include) ==
  IF IsDir(t, p) THEN SearchArchive(Archive(t, p), word, include)
  ELSE IF Named(p, include) THEN LinesWith(p, t[p].body, word) ELSE {}

(* parseContainerFileList: the entries one level below the folder.            *)
ArchiveListing(ar, dir) == {n \in DOMAIN ar : IsPrefix(dir, n) /\ Len(n) = Len(dir) + 1}

(* streamContainerTarAsZip: the archive without its links.                    *)
Zipped(ar) == Keep(ar, LAMBDA c : ~IsLink(c))

-----------------------------------------------------------------------------
(* The network disk, whose links are followed as far as they stay inside. *)

Out == <<"/">>       \* a place outside the disk
Broken == <<"?">>    \* no place at all: links in a circle, a file where a folder should be
IsPlace(p) == p \notin {Out, Broken}
MaxLinkHops == 40

(* resolveExistingPath: the first link on the way is followed, and so on;      *)
(* what does not exist is kept as it is.                                      *)
RECURSIVE ResolveFrom(_, _, _)
ResolveFrom(t, p, hops) ==
  LET OnTheWay(Is(_)) == {q \in Ancestors(p) \cap DOMAIN t : Is(t[q])}
      link == CHOOSE q \in OnTheWay(IsLink) : \A r \in OnTheWay(IsLink) : Len(q) <= Len(r)
  IN  IF OnTheWay(IsLink) = {} THEN (IF OnTheWay(IsFile) \subseteq {p} THEN p ELSE Broken)
      ELSE IF t[link].body = Out THEN Out
      ELSE IF hops = MaxLinkHops THEN Broken
      ELSE ResolveFrom(t, t[link].body \o Relative(link, p), hops + 1)
Resolve(t, p) == ResolveFrom(t, p, 0)

(* Where extractContainerTar writes an entry: through links, unless they lead   *)
(* out of the destination.                                                    *)
Landing(t, dest, n) ==
  LET q == Resolve(t, dest \o n) IN IF IsPlace(q) /\ IsPrefix(Resolve(t, dest), q) THEN q ELSE Out

(* One entry of the archive: links are skipped, folders on the way are made.   *)
Extract(s, dest, n, c) ==
  LET q == Landing(s.tree, dest, n) IN
  IF ~s.ok \/ IsLink(c) \/ q = Out THEN s
  ELSE IF q \in DOMAIN s.tree /\ (s.tree[q] = Dir) # (c = Dir) THEN [s EXCEPT !.ok = FALSE]
  ELSE [s EXCEPT !.tree = (q :> c) @@ [p \in Ancestors(q) |-> Dir] @@ @]

(* Folders come before what is in them.                                       *)
Orders(ar) == {o \in SetToSeqs(DOMAIN ar) : \A i, j \in DOMAIN o : i < j => ~IsPrefix(o[j], o[i])}

(* extractContainerTar, as far as the first entries of the archive.             *)
Extracted(t, dest, ar, entries) ==
  FoldLeft(LAMBDA s, n : Extract(s, dest, n, ar[n]), [tree |-> t, ok |-> TRUE], entries)

-----------------------------------------------------------------------------
(* Editing. *)

Refused == <<"refused">>
Places(body, word) == {i \in DOMAIN body : body[i] = word}

(* Mutant: an edit whose old text is not there is passed over.                *)
ApplyEditLenient(body, e, all) ==
  IF Cardinality(Places(body, e.old)) > 1 /\ ~all THEN Refused
  ELSE [i \in DOMAIN body |-> IF body[i] = e.old THEN e.new ELSE body[i]]

(* applyEdits: every old text occurs once, or at all when every one is to be   *)
(* replaced; one edit works on what the one before it made.                    *)
ApplyEdit(body, e, all) ==
  LET n == Cardinality(Places(body, e.old)) IN
  IF n = 0 \/ (n > 1 /\ ~all) THEN Refused
  ELSE [i \in DOMAIN body |-> IF body[i] = e.old THEN e.new ELSE body[i]]

ApplyEdits(body, edits, all) ==
  IF edits = <<>> THEN Refused
  ELSE FoldLeft(LAMBDA b, e : IF b = Refused THEN Refused ELSE ApplyEdit(b, e, all), body, edits)
=============================================================================
