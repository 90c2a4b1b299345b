----------------------------- MODULE SharedFolder -----------------------------
(***************************************************************************)
(* An installation that a synchronising client copies to other machines     *)
(* (src/src/shared.rs).  One machine installs a release and publishes its    *)
(* signed metadata; the host on another asks inspect, again and again, if    *)
(* all of it has arrived.  The client delivers the metadata and the files    *)
(* one by one, in any order, while inspect looks at them.                   *)
(*                                                                         *)
(* A copy of a file is named by the release whose installation wrote it.      *)
(* inspect and the client only see its contents, and a release may leave a   *)
(* file as it was, or put it back to what it was some releases ago.          *)
(***************************************************************************)
EXTENDS Integers, Sequences

CONSTANTS
  Latest,       \* the releases are 1 .. Latest; 0 is where both machines start
  Files, Exe,   \* the program knows its version: it changes with every release
  Content,      \* Content[v][f]: the contents of f in release v
  Listed,       \* Listed[v]: the files release v lists for this machine's target
  Suits,        \* the releases of this product, channel and target
  MaxReverts    \* bound on the files that rollbacks restore

Releases == 0 .. Latest

ASSUME SharedAssumption ==
  /\ Latest \in Nat /\ MaxReverts \in Nat
  /\ Exe \in Files /\ "metadata" \notin Files
  /\ \A u, v \in Releases : Content[u][Exe] = Content[v][Exe] => u = v
  /\ \A v \in Releases : Listed[v] \in Seq(Files) /\ Exe \in {Listed[v][i] : i \in DOMAIN Listed[v]}
  /\ Suits \subseteq Releases

Items == Files \cup {"metadata"}
Torn == -1      \* partly written
Link == -2      \* a placeholder of the client's: a link, to safe_join
Nothing == -3   \* no copy under way

VARIABLES
  source,       \* the folder on the publishing machine
  reverts,      \* how many files rollbacks have restored there
  incoming,     \* what the client has fetched and not yet put down
  folder,       \* the folder here; its metadata is 0 when there is none
  locked,       \* the items the client keeps others from reading
  current,      \* the version the host runs
  step,         \* is inspect at the metadata or at the files?
  release,      \* the release it has read the metadata of
  index,        \* the file it is at
  pending,      \* pending_files so far
  status        \* what the last inspect returned

inspecting == <<step, release, index, pending>>
vars == <<source, reverts, incoming, folder, locked, current, inspecting, status>>

FilesOf(v) == {Listed[v][i] : i \in DOMAIN Listed[v]}
None == [kind |-> "none", version |-> 0, pending |-> {}]

TypeOK ==
  /\ source \in [Items -> Releases] /\ reverts \in Nat
  /\ incoming \in [Items -> Releases \cup {Nothing}]
  /\ folder \in [Items -> Releases \cup {Torn, Link}]
  /\ locked \subseteq Items /\ current \in Releases
  /\ step \in {"metadata", "files"} /\ release \in Releases
  /\ index \in 1 .. Len(Listed[release]) + 1 /\ pending \subseteq Files
  /\ status \in [kind : {"none", "unchanged", "waiting", "ready", "error"},
                 version : Releases, pending : SUBSET Files]

Init ==
  /\ source = [x \in Items |-> 0]
  /\ reverts = 0 /\ incoming = [x \in Items |-> Nothing]
  /\ folder = source /\ locked = {} /\ current = 0
  /\ step = "metadata" /\ release = 0 /\ index = 1 /\ pending = {}
  /\ status = None

-----------------------------------------------------------------------------
(* The publishing machine, and the client. *)

published == source["metadata"]
here == <<incoming, folder, locked, current, inspecting, status>>

\* The installation replaces one file after another.
Installs(f) == /\ published < Latest /\ source[f] = published
               /\ source' = [source EXCEPT ![f] = published + 1]
               /\ UNCHANGED <<reverts, here>>

RollsBack(f) == /\ reverts < MaxReverts
                /\ source[f] # published
                /\ source' = [source EXCEPT ![f] = published]
                /\ reverts' = reverts + 1
                /\ UNCHANGED here

\* After the installation; atomic_write leaves the old metadata or the new.
Publish == /\ published < Latest
           /\ \A f \in Files : source[f] = published + 1
           /\ source' = [source EXCEPT !["metadata"] = published + 1]
           /\ UNCHANGED <<reverts, here>>

\* What can be seen of a copy.
Seen(x, v) == IF x = "metadata" THEN v ELSE Content[v][x]

\* A file that is being replaced keeps its contents, or is overwritten in place, or
\* is a placeholder in the meantime.
Fetches(x, meanwhile) ==
  /\ incoming[x] = Nothing /\ x \notin locked
  /\ Seen(x, folder[x]) # Seen(x, source[x])
  /\ meanwhile \in {folder[x], Torn} \cup (IF x \in Files THEN {Link} ELSE {})
  /\ incoming' = [incoming EXCEPT ![x] = source[x]]
  /\ folder' = [folder EXCEPT ![x] = meanwhile]
  /\ UNCHANGED <<source, reverts, locked, current, inspecting, status>>

Lands(x) == /\ incoming[x] # Nothing
            /\ folder' = [folder EXCEPT ![x] = incoming[x]]
            /\ incoming' = [incoming EXCEPT ![x] = Nothing]
            /\ locked' = locked \cup {x}
            /\ UNCHANGED <<source, reverts, current, inspecting, status>>

LetsGo(x) == /\ x \in locked /\ locked' = locked \ {x}
                /\ UNCHANGED <<source, reverts, incoming, folder, current, inspecting, status>>

-----------------------------------------------------------------------------
(* shared::inspect. *)

elsewhere == <<source, reverts, incoming, folder, locked, current>>

Returns(kind, v, missing) ==
  /\ status' = [kind |-> kind, version |-> v, pending |-> missing]
  /\ step' = "metadata" /\ release' = 0 /\ index' = 1 /\ pending' = {}
  /\ UNCHANGED elsewhere

\* Mutant: only the release that follows the one that is running is offered.
OffersNext(v) == v = current + 1 /\ v \in Suits
\* Mutant: the version that is running is taken for an update.
OffersSame(v) == v >= current /\ v \in Suits
Offers(v) == v > current /\ v \in Suits

MetadataUnreadable == folder["metadata"] = Torn \/ "metadata" \in locked

ReadsNothingNew == /\ step = "metadata" /\ ~MetadataUnreadable
                   /\ folder["metadata"] = 0 \/ ~Offers(folder["metadata"])
                   /\ Returns("unchanged", 0, {})

FailsOnMetadata == /\ step = "metadata" /\ MetadataUnreadable
                   /\ Returns("error", 0, {})

ReadsRelease == /\ step = "metadata" /\ ~MetadataUnreadable
                /\ folder["metadata"] # 0 /\ Offers(folder["metadata"])
                /\ release' = folder["metadata"] /\ step' = "files"
                /\ index' = 1 /\ pending' = {} /\ status' = None
                /\ UNCHANGED elsewhere

\* Mutant: a file the client has locked is left out of account.
MatchesIfReadable(f) == \/ f \in locked
                        \/ folder[f] \in Releases /\ Content[folder[f]][f] = Content[release][f]
\* A locked file does not match, even when its contents would.
Matches(f) == /\ f \notin locked /\ folder[f] \in Releases
              /\ Content[folder[f]][f] = Content[release][f]

HashesFile == /\ step = "files" /\ index \in DOMAIN Listed[release]
              /\ LET f == Listed[release][index] IN
                 /\ folder[f] # Link
                 /\ pending' = IF Matches(f) THEN pending ELSE pending \cup {f}
              /\ index' = index + 1
              /\ UNCHANGED <<elsewhere, step, release, status>>

FailsOnLink == /\ step = "files" /\ index \in DOMAIN Listed[release]
               /\ folder[Listed[release][index]] = Link
               /\ Returns("error", 0, {})

Reports == /\ step = "files" /\ index = Len(Listed[release]) + 1
           /\ Returns(IF pending = {} THEN "ready" ELSE "waiting", release, pending)

Inspects == ReadsNothingNew \/ FailsOnMetadata \/ ReadsRelease
              \/ HashesFile \/ FailsOnLink \/ Reports

\* The host stands down, and is started again from the folder, as it is then.
Restarts == /\ step = "metadata" /\ status.kind = "ready"
            /\ folder[Exe] \in Releases /\ Exe \notin locked
            /\ current' = folder[Exe] /\ status' = None
            /\ UNCHANGED <<source, reverts, incoming, folder, locked, inspecting>>

Next == \/ \E f \in Files : Installs(f) \/ RollsBack(f)
        \/ Publish
        \/ \E x \in Items : Lands(x) \/ LetsGo(x)
        \/ \E x \in Items, m \in Releases \cup {Torn, Link} : Fetches(x, m)
        \/ Inspects \/ Restarts

Spec == Init /\ [][Next]_vars

\* Installations succeed in the end; a client copies what differs and lets go of it; the
\* host asks again and again, and a restart it is advised again and again it makes.
Fairness == /\ \A f \in Files : WF_vars(Installs(f))
            /\ WF_vars(Publish)
            /\ \A x \in Items : /\ WF_vars(\E m \in Releases \cup {Torn, Link} : Fetches(x, m))
                                /\ WF_vars(Lands(x)) /\ WF_vars(LetsGo(x))
            /\ WF_vars(Inspects) /\ SF_vars(Restarts)

FairSpec == Spec /\ Fairness

-----------------------------------------------------------------------------
(* What ReadyToRestart may be taken to mean. *)

\* A copy of f that will do for release v: its contents, or a newer release's.
WillDo(v, f, copy) == copy >= v \/ Content[copy][f] = Content[v][f]

\* f has arrived for release v, and nothing that will not do is on its way.  While it is
\* being replaced only what is on its way counts.
Arrived(v, f) == /\ folder[f] \in Releases => WillDo(v, f, folder[f])
                 /\ folder[f] \notin Releases => incoming[f] # Nothing
                 /\ incoming[f] # Nothing => WillDo(v, f, incoming[f])

\* The files no release has put back to contents they had before another release.
NeverPutBack == {f \in Files : \A u, v \in Releases : \A w \in u .. v :
                   Content[u][f] = Content[v][f] => Content[w][f] = Content[v][f]}

ReadyHasArrived ==
  status.kind = "ready" =>
    \A f \in FilesOf(status.version) \cap NeverPutBack : Arrived(status.version, f)

\* When inspect reports ReadyToRestart for a release, no file of it is missing or older,
\* although each was hashed at another time and the client has gone on since.  (What a
\* rollback restores is older, and its copies arrive after the metadata; and a file that
\* was put back may match before the copies of the release in between have arrived.)
ReadyMeansArrived == reverts = 0 => ReadyHasArrived

\* A restart that follows the advice always runs a newer program: the metadata that arrived
\* before the program does not make the host restart into what it ran before.
RestartsAdvance == [][Restarts /\ reverts = 0 => current' > current]_vars

\* A release that is published is one day run by the other machine, or a newer one is,
\* unless a release that is not for it takes its place in the folder.
Converges == \A v \in Suits : published >= v ~> current >= v \/ published \notin Suits

-----------------------------------------------------------------------------
(* The inductive invariant, as long as nothing is rolled back. *)

\* The publishing machine's files are of the release it published or of the next.
SourceGoesForward ==
  \A f \in Files : \/ source[f] = published
                   \/ published < Latest /\ source[f] = published + 1

\* What is here is no newer than what is on its way, nor that than what it was copied from.
CopiesGoForward ==
  \A f \in Files :
    /\ folder[f] \in Releases => folder[f] <= source[f]
    /\ folder[f] \notin Releases => incoming[f] # Nothing
    /\ incoming[f] # Nothing =>
         /\ incoming[f] <= source[f]
         /\ folder[f] \in Releases => folder[f] <= incoming[f]

\* A file that matched has arrived, and stays arrived while inspect goes on to the others.
MatchedStays ==
  step = "files" =>
    /\ release > current
    /\ \A i \in 1 .. index - 1 : Listed[release][i] \in NeverPutBack =>
          Listed[release][i] \in pending \/ Arrived(release, Listed[release][i])

ReadyIsNewer == status.kind = "ready" => status.version > current

SharedInv == /\ TypeOK /\ SourceGoesForward /\ CopiesGoForward
             /\ MatchedStays /\ ReadyHasArrived /\ ReadyIsNewer

=============================================================================
