------------------------- MODULE PackagePreparation -------------------------
(***************************************************************************)
(* Updater::prepare (src/src/updater.rs): download the package through a    *)
(* transport of the host's (src/ffi/src/transport.rs), compare it with the  *)
(* manifest, and unpack it (src/src/archive.rs) into a temporary directory  *)
(* that goes away with the call unless the update is ready.                *)
(*                                                                         *)
(* Bytes are counted in small units.  Contents are abstracted to whether    *)
(* they are the ones the manifest's hashes name.                           *)
(***************************************************************************)
EXTENDS Integers, Sequences, FiniteSetsExt

CONSTANTS
  Paths,        \* names of archive entries
  Inside,       \* Inside[d]: the paths below the directory d
  Packages,     \* [size, files]: the package a manifest describes, and the sizes
                \* of its files
  Archives,     \* the sequences of entries a package may turn out to hold
  MaxDownload, MaxUnpacked,
  MaxChunk,     \* the most a host writes at once
  MaxStray,     \* bound on the bytes that failed writes leave behind
  Faults        \* "io": the disk may fail

Sizes == Nat
Entries == [kind : {"file", "dir", "other"}, path : Paths,
            size : Sizes,        \* what the archive says
            data : Sizes,        \* what comes out of it
            right : BOOLEAN]     \* does that have the manifest's hash?
Unlisted == -1                   \* the size of a path the manifest does not list

ASSUME PackagesAssumption ==
  /\ Packages \subseteq [size : Nat \ {0}, files : [Paths -> Sizes \cup {Unlisted}]]
  /\ Archives \subseteq Seq(Entries)
  /\ Inside \in [Paths -> SUBSET Paths]
  /\ MaxDownload \in Nat /\ MaxUnpacked \in Nat /\ MaxChunk \in Nat \ {0}
  /\ MaxStray \in Nat
  /\ IsFiniteSet(Paths)

VARIABLES
  pkg,          \* the candidate's package
  archive,      \* what it holds, once it is opened
  step,         \* where prepare is
  cancelled,    \* the Cancellation, set by another thread
  passed,       \* has the write at hand passed its check for a cancellation?
  zip,          \* package.zip: its length, and are its bytes the published ones?
  sink,         \* FreshenSink: bytes written, and was an error recorded?
  index,        \* the archive entry extract is at
  opened,       \* is that entry's file open?
  seen,         \* the files met so far
  stage         \* stage[p]: the length of the file, Unlisted when there is none

unpacking == <<index, opened, seen, stage>>
vars == <<pkg, archive, step, cancelled, passed, zip, sink, index, opened, seen, stage>>

Empty == [p \in Paths |-> Unlisted]
NoFile == [size |-> 0, right |-> TRUE]
Listed == {p \in Paths : pkg.files[p] # Unlisted}
Bytes(f, S) == MapThenSumSet(LAMBDA p : f[p], S)
Staged == {p \in Paths : stage[p] # Unlisted}

TypeOK ==
  /\ pkg \in Packages /\ archive \in Archives \cup {<<>>}
  /\ step \in {"start", "download", "verify", "extract", "ready", "failed"}
  /\ cancelled \in BOOLEAN /\ passed \in BOOLEAN
  /\ zip \in [size : Nat, right : BOOLEAN]
  /\ sink \in [written : Nat, failed : BOOLEAN]
  /\ index \in 1 .. Len(archive) + 1
  /\ opened => step = "extract" /\ index \in DOMAIN archive
  /\ seen \subseteq Paths
  /\ stage \in [Paths -> Nat \cup {Unlisted}]

Init ==
  /\ pkg \in Packages /\ archive = <<>> /\ step = "start"
  /\ cancelled = FALSE /\ passed = FALSE
  /\ zip = NoFile /\ sink = [written |-> 0, failed |-> FALSE]
  /\ index = 1 /\ opened = FALSE /\ seen = {} /\ stage = Empty

Cancels == /\ ~cancelled /\ step \notin {"ready", "failed"}
           /\ cancelled' = TRUE
           /\ UNCHANGED <<pkg, archive, step, passed, zip, sink, unpacking>>

\* The sink looks at the Cancellation before it writes, extract before every entry
\* and every block; what is then written may come after the cancellation.
Checks == /\ ~passed /\ ~cancelled
          /\ step = "download" \/ (step = "extract" /\ index \in DOMAIN archive)
          /\ passed' = TRUE
          /\ UNCHANGED <<pkg, archive, step, cancelled, zip, sink, unpacking>>

\* prepare returns an error: the temporary directory is dropped, with all in it.
Fails == /\ step' = "failed" /\ stage' = Empty /\ zip' = NoFile /\ opened' = FALSE
         /\ passed' = FALSE
         /\ UNCHANGED <<pkg, archive, cancelled, sink, index, seen>>

Starts == /\ step = "start" /\ pkg.size <= MaxDownload /\ ~cancelled
          /\ step' = "download"
          /\ UNCHANGED <<pkg, archive, cancelled, passed, zip, sink, unpacking>>

\* Too large, cancelled, or the disk or the transport does not let it start.
DoesNotStart == step = "start" /\ Fails

-----------------------------------------------------------------------------
(* FreshenSink: what the host's download callback may do with it. *)

Fits(n) == sink.written + n <= pkg.size

\* The bytes may be right or not.
Writes(n, good) ==
  /\ step = "download" /\ passed /\ Fits(n) /\ passed' = FALSE
  /\ sink' = [sink EXCEPT !.written = @ + n]
  /\ zip' = [size |-> zip.size + n, right |-> zip.right /\ good]
  /\ UNCHANGED <<pkg, archive, step, cancelled, unpacking>>

\* The first error of the sink is kept, whatever the host does with it.
Records == /\ step = "download" /\ sink' = [sink EXCEPT !.failed = TRUE]
           /\ passed' = FALSE
           /\ UNCHANGED <<pkg, archive, step, cancelled, unpacking>>

\* Cancelled or too many bytes; and a total beyond the limit, at any time.
Refuses(n) == /\ IF passed THEN ~Fits(n) ELSE cancelled
              /\ Records /\ UNCHANGED zip
RefusesTotal == ~passed /\ Records /\ UNCHANGED zip

\* The disk takes only some of the bytes: the file grows, and the sink does not.
WriteFails(n, k) == /\ "io" \in Faults /\ passed /\ Fits(n)
                    /\ Records
                    /\ zip.size + k <= pkg.size + MaxStray
                    /\ zip' = [zip EXCEPT !.size = @ + k]

\* Mutant: the host's own answer is what counts.
HostSucceedsAlone == /\ step = "download" /\ ~passed
                     /\ step' = "verify"
                     /\ UNCHANGED <<pkg, archive, cancelled, passed, zip, sink, unpacking>>

\* The callback returns 0, or anything else.
HostSucceeds == /\ step = "download" /\ ~passed /\ ~sink.failed
                /\ step' = "verify"
                /\ UNCHANGED <<pkg, archive, cancelled, passed, zip, sink, unpacking>>
HostFails == step = "download" /\ ~passed /\ Fails

-----------------------------------------------------------------------------
(* prepare: compare the package with the manifest. *)

Matches == zip.size = pkg.size /\ zip.right

Verifies == /\ step = "verify" /\ ~cancelled /\ Matches
            /\ step' = "extract" /\ archive' \in Archives
            /\ UNCHANGED <<pkg, cancelled, passed, zip, sink, unpacking>>
DoesNotVerify == step = "verify" /\ (cancelled \/ ~Matches \/ "io" \in Faults) /\ Fails

-----------------------------------------------------------------------------
(* extract. *)

Entry == archive[index]
\* Mutant: a cancellation is only noticed inside a file.
AtEntryAnyway == step = "extract" /\ ~opened /\ index \in DOMAIN archive
AtEntry == step = "extract" /\ ~opened /\ passed /\ index \in DOMAIN archive
Declared(p) == pkg.files[p]

SkipsDir == /\ AtEntry /\ Entry.kind = "dir"
            /\ Inside[Entry.path] \cap Listed # {}
            /\ index' = index + 1 /\ passed' = FALSE
            /\ UNCHANGED <<pkg, archive, step, cancelled, zip, sink, opened, seen, stage>>

\* Mutant: the total leaves out the entry at hand.
AcceptableLate == /\ Entry.kind = "file" /\ Entry.path \in Listed \ seen
                  /\ Entry.size = Declared(Entry.path)
                  /\ Bytes(pkg.files, seen) <= MaxUnpacked
\* A regular file the manifest lists, for the first time, of the listed size,
\* and the total stays within the limit.
Acceptable == /\ Entry.kind = "file" /\ Entry.path \in Listed \ seen
              /\ Entry.size = Declared(Entry.path)
              /\ Bytes(pkg.files, seen \cup {Entry.path}) <= MaxUnpacked

OpensFile == /\ AtEntry /\ Acceptable
             /\ opened' = TRUE /\ passed' = FALSE /\ seen' = seen \cup {Entry.path}
             /\ stage' = [stage EXCEPT ![Entry.path] = 0]
             /\ UNCHANGED <<pkg, archive, step, cancelled, zip, sink, index>>

RefusesEntry == /\ AtEntry /\ ~Acceptable
                /\ Entry.kind = "dir" => Inside[Entry.path] \cap Listed = {}
                /\ Fails

Written == stage[Entry.path]
Room == Written < Declared(Entry.path)

Unpacks == /\ step = "extract" /\ opened /\ passed /\ Written < Entry.data /\ Room
           /\ passed' = FALSE
           /\ stage' = [stage EXCEPT ![Entry.path] = @ + 1]
           /\ UNCHANGED <<pkg, archive, step, cancelled, zip, sink, index, opened, seen>>

\* Mutant: the hash of an unpacked file is not compared.
WholeInSize == Written = Declared(Entry.path)
Whole == Written = Declared(Entry.path) /\ Entry.right

ClosesFile == /\ step = "extract" /\ opened /\ passed /\ Written = Entry.data /\ Whole
              /\ index' = index + 1 /\ opened' = FALSE /\ passed' = FALSE
              /\ UNCHANGED <<pkg, archive, step, cancelled, zip, sink, seen, stage>>

\* Mutant: the bytes that are missing at the end of an entry are waited for.
RefusesLongFile == /\ step = "extract" /\ opened /\ passed
                   /\ \/ Written < Entry.data /\ ~Room
                      \/ Written = Entry.data /\ ~Whole /\ ~Room
                   /\ Fails

RefusesFile == /\ step = "extract" /\ opened /\ passed
               /\ \/ Written < Entry.data /\ ~Room
                  \/ Written = Entry.data /\ ~Whole
               /\ Fails

\* A cancellation is noticed at every entry and every block.
Stops == /\ step = "extract" /\ cancelled /\ ~passed /\ index \in DOMAIN archive
         /\ Fails

DiskFails == step = "extract" /\ "io" \in Faults /\ Fails

Complete == Cardinality(seen) = Cardinality(Listed)
AtEnd == step = "extract" /\ index = Len(archive) + 1

Completes == /\ AtEnd /\ Complete
             /\ step' = "ready"
             /\ UNCHANGED <<pkg, archive, cancelled, passed, zip, sink, unpacking>>
IsIncomplete == AtEnd /\ ~Complete /\ Fails

Download == \/ Starts \/ DoesNotStart \/ RefusesTotal \/ HostSucceeds \/ HostFails
            \/ \E n \in 0 .. MaxChunk : \/ Refuses(n)
                                        \/ \E good \in BOOLEAN : Writes(n, good)
                                        \/ \E k \in 0 .. n : WriteFails(n, k)
Unpack == \/ SkipsDir \/ OpensFile \/ RefusesEntry \/ Unpacks \/ ClosesFile
          \/ RefusesFile \/ Stops \/ Completes \/ IsIncomplete
Extract == Unpack \/ DiskFails

Next == Cancels \/ Checks \/ Download \/ Verifies \/ DoesNotVerify \/ Extract

Spec == Init /\ [][Next]_vars

\* Once the package is there nothing waits for anyone else, or for the disk to fail.
FairSpec ==
  Spec /\ WF_vars(Verifies \/ DoesNotVerify \/ Unpack \/ (step = "extract" /\ Checks))

-----------------------------------------------------------------------------
(* Properties. *)

\* A PreparedUpdate is exactly what the signed manifest describes: all of its
\* files, no other, and every byte of them and of the package as published.
ReadyIsExact ==
  step = "ready" =>
    /\ zip = [size |-> pkg.size, right |-> TRUE]
    /\ stage = pkg.files
    /\ \A i \in DOMAIN archive : archive[i].kind = "file" => archive[i].right

\* "bounded download/extraction" (TESTING.md), extraction: at no time is there
\* anything below the stage that the manifest does not list, a file longer than
\* listed, or more than max_unpacked in all.
StageIsBounded ==
  /\ \A p \in Staged : p \in Listed /\ stage[p] <= pkg.files[p]
  /\ Bytes(stage, Staged) <= MaxUnpacked

\* ... and download: the sink takes no more than the limit, and package.zip holds
\* what the sink took unless a write to it failed.
DownloadIsBounded ==
  /\ sink.written <= pkg.size
  /\ step \in {"download", "verify", "extract", "ready"} =>
        /\ pkg.size <= MaxDownload
        /\ zip.size = sink.written \/ sink.failed

\* An error of the sink is the result of the download, also when the host's
\* callback goes on and returns 0 (freshen_sink_write: a nonzero status "the
\* download callback must return unchanged").
SinkErrorIsKept == step \in {"verify", "extract", "ready"} => ~sink.failed

\* Nothing is unpacked from a package that is not the published one.
VerifiedFirst == Staged # {} => zip = [size |-> pkg.size, right |-> TRUE]

\* Once cancelled, prepare ends the write it is at, of at most one block, and
\* begins no other, to the package or to the stage.
NoWorkAfterCancel ==
  [][cancelled /\ ~passed => /\ ~passed'
                             /\ zip'.size <= zip.size
                             /\ \A p \in Paths : stage'[p] <= stage[p]]_vars

\* Unpacking ends, whatever the archive holds.
UnpackingEnds == step \in {"verify", "extract"} ~> step \in {"ready", "failed"}

\* How far prepare is from its end once it has the package: the phases, the entries, the
\* bytes of the entry at hand, and the check before the next step.
Phase == [start |-> 4, download |-> 3, verify |-> 2, extract |-> 1, ready |-> 0, failed |-> 0]
Rest == IF index \notin DOMAIN archive THEN 0
        ELSE IF opened THEN Declared(Entry.path) - Written ELSE Declared(Entry.path) + 1
Measure == <<Phase[step], Len(archive) + 1 - index, Rest, IF passed THEN 0 ELSE 1>>
Lower(m, n) == \E k \in 1 .. 4 : m[k] < n[k] /\ \A j \in 1 .. k - 1 : m[j] = n[j]

\* No entry of the archive is met twice and no byte written twice, whatever the archive
\* holds: every step of unpacking brings prepare nearer to its end.
UnpackingAdvances ==
  [][(Checks \/ Verifies \/ DoesNotVerify \/ Extract) /\ step \in {"verify", "extract"}
       => Lower(Measure', Measure)]_vars

-----------------------------------------------------------------------------
(* The invariant of the two loops. *)

Published == zip = [size |-> pkg.size, right |-> TRUE]

\* Nothing of the archive is looked at before the package is verified.
BeforeInv ==
  /\ step \in {"start", "download", "verify"} => index = 1 /\ seen = {} /\ ~opened
  /\ step \in {"start", "download", "verify", "failed"} => stage = Empty
  /\ step = "start" => sink.written = 0 /\ ~sink.failed /\ zip.size = 0
  /\ step \in {"extract", "ready"} => Published

\* The stage has the files met so far, and all but the open one are whole.
StageInv == step \in {"extract", "ready"} =>
  /\ seen \subseteq Listed
  /\ \A p \in Paths : stage[p] # Unlisted <=> p \in seen
  /\ \A p \in seen : stage[p] = pkg.files[p] \/ (opened /\ p = Entry.path)
  /\ opened => /\ Entry.kind = "file" /\ Entry.path \in seen
               /\ Written \in 0 .. Declared(Entry.path)
  /\ \A j \in 1 .. index - 1 : archive[j].kind = "file" => archive[j].right
  /\ step = "ready" => ~opened /\ index = Len(archive) + 1 /\ seen = Listed

UnpackInv == TypeOK /\ DownloadIsBounded /\ SinkErrorIsKept /\ BeforeInv /\ StageInv

\* The listed sizes of the files met so far are within the limit in all.
TotalInv == step \in {"extract", "ready"} => Bytes(pkg.files, seen) <= MaxUnpacked

PrepInv == UnpackInv /\ TotalInv
=============================================================================
