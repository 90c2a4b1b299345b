-------------------------- MODULE SharedFolderProofs --------------------------
(***************************************************************************)
(* Theorems about SharedFolder, for any number of releases and files, with   *)
(* any contents.  Until an installation is rolled back, SharedInv is        *)
(* inductive: while inspect goes from file to file, every copy only moves   *)
(* forward, so that what has matched cannot become older again, unless a    *)
(* release put the file back to what it was before another.                 *)
(***************************************************************************)
EXTENDS SharedFolder, TLAPS

USE DEF published

\* What the proofs need to know of the constants.
LEMMA Constants ==
  /\ 0 \in Releases /\ \A v \in Releases : v \in Int
  /\ Torn \notin Releases /\ Link \notin Releases /\ Nothing \notin Releases
  /\ Exe \in Files /\ Files \subseteq Items
  /\ "metadata" \in Items /\ "metadata" \notin Files
  /\ \A v \in Releases : Listed[v] \in Seq(Files) /\ Len(Listed[v]) \in Nat
BY SharedAssumption DEF Releases, Items, Torn, Link, Nothing

USE Constants

\* The parts of the type invariant that arithmetic is done with.
LEMMA Typing ==
  TypeOK =>
    /\ \A x \in Items :
         /\ source[x] \in Releases /\ source[x] \in Int
         /\ incoming[x] \in Releases \cup {Nothing} /\ incoming[x] \in Int
         /\ folder[x] \in Releases \cup {Torn, Link} /\ folder[x] \in Int
    /\ current \in Releases /\ current \in Int
    /\ release \in Releases /\ release \in Int
    /\ status.version \in Releases /\ status.version \in Int
<1> SUFFICES ASSUME TypeOK
    PROVE  /\ \A x \in Items : /\ source[x] \in Releases
                               /\ incoming[x] \in Releases \cup {Nothing}
                               /\ folder[x] \in Releases \cup {Torn, Link}
           /\ current \in Releases /\ release \in Releases /\ status.version \in Releases
  BY DEF Torn, Link, Nothing
<1> QED
  BY DEF TypeOK

LEMMA SharedInit == Init => SharedInv
<1> SUFFICES ASSUME Init PROVE SharedInv
  OBVIOUS
<1> USE DEF Init, None
<1>0. source = [x \in Items |-> 0] /\ folder = source
  OBVIOUS
<1>2. /\ source \in [Items -> Releases] /\ published = 0
      /\ \A f \in Files : source[f] = 0 /\ incoming[f] = Nothing
  BY <1>0
<1>3. TypeOK
  <2>1. index \in 1 .. Len(Listed[release]) + 1
    OBVIOUS
  <2>2. status \in [kind : {"none", "unchanged", "waiting", "ready", "error"},
                    version : Releases, pending : SUBSET Files]
    OBVIOUS
  <2>3. folder \in [Items -> Releases \cup {Torn, Link}]
    BY <1>0, <1>2
  <2> QED
    BY <1>2, <2>1, <2>2, <2>3 DEF TypeOK
<1>5. SourceGoesForward
  BY <1>2 DEF SourceGoesForward
<1>6. CopiesGoForward
  BY <1>0, <1>2 DEF CopiesGoForward
<1>4. MatchedStays /\ ReadyHasArrived /\ ReadyIsNewer
  BY DEF MatchedStays, ReadyHasArrived, ReadyIsNewer
<1> QED
  BY <1>3, <1>4, <1>5, <1>6 DEF SharedInv

LEMMA KeptFiles == NeverPutBack \subseteq Files /\ Exe \in NeverPutBack
<1>1. NeverPutBack \subseteq Files
  BY DEF NeverPutBack
<1>2. ASSUME NEW u \in Releases, NEW v \in Releases, NEW w \in u .. v,
             Content[u][Exe] = Content[v][Exe]
      PROVE  Content[w][Exe] = Content[v][Exe]
  <2>1. u = v
    BY <1>2, SharedAssumption
  <2>2. w = v
    BY <2>1
  <2> QED
    BY <2>2
<1> QED
  BY <1>1, <1>2 DEF NeverPutBack

\* Of a file that is never put back, a later copy will do if an earlier one does.
LEMMA LaterWillDo ==
  ASSUME NEW f \in NeverPutBack, NEW v \in Releases, NEW a \in Releases, NEW b \in Releases,
         a <= b, WillDo(v, f, a)
  PROVE  WillDo(v, f, b)
<1>1. CASE b >= v
  BY <1>1 DEF WillDo
<1>2. CASE ~ b >= v
  <2>1. Content[a][f] = Content[v][f]
    BY <1>2 DEF WillDo
  <2>2. b \in a .. v
    BY <1>2
  <2>3. Content[b][f] = Content[v][f]
    BY <2>1, <2>2 DEF NeverPutBack
  <2> QED
    BY <2>3 DEF WillDo
<1> QED
  BY <1>1, <1>2

\* What has arrived stays so if the copies here stay, or the client fetches or puts down.
LEMMA ArrivedStays ==
  ASSUME TypeOK, CopiesGoForward, NEW v \in Releases, NEW f \in NeverPutBack, Arrived(v, f),
         \/ UNCHANGED <<folder, incoming>>
         \/ \E x \in Items, m \in Releases \cup {Torn, Link} : Fetches(x, m)
         \/ \E x \in Items : Lands(x)
  PROVE  Arrived(v, f)'
<1>1. f \in Files
  BY KeptFiles
<1>2. CASE UNCHANGED <<folder, incoming>>
  BY <1>2 DEF Arrived
<1>3. ASSUME NEW x \in Items, NEW m \in Releases \cup {Torn, Link}, Fetches(x, m)
      PROVE  Arrived(v, f)'
  <2>1. CASE x # f
    BY <1>1, <1>3, <2>1 DEF Fetches, Arrived, TypeOK
  <2>2. CASE x = f
    <3>1. folder[f] \in Releases /\ folder[f] <= source[f] /\ incoming[f] = Nothing
      BY <1>1, <1>3, <2>2 DEF Fetches, CopiesGoForward
    <3>2. WillDo(v, f, folder[f]) /\ source[f] \in Releases
      BY <3>1, <1>1, Typing DEF Arrived
    <3>3. WillDo(v, f, source[f])
      BY <3>1, <3>2, LaterWillDo
    <3>4. incoming'[f] = source[f] /\ folder'[f] = m /\ m \in {folder[f], Torn, Link}
      BY <1>1, <1>3, <2>2 DEF Fetches, TypeOK
    <3> QED
      BY <3>2, <3>3, <3>4 DEF Arrived
  <2> QED
    BY <2>1, <2>2
<1>4. ASSUME NEW x \in Items, Lands(x) PROVE Arrived(v, f)'
  BY <1>1, <1>4 DEF Lands, Arrived, TypeOK
<1> QED
  BY <1>2, <1>3, <1>4

\* The publishing machine.
LEMMA SourceKeeps ==
  ASSUME SharedInv, \/ \E f \in Files : Installs(f)
                    \/ Publish
  PROVE  SharedInv'
<1> USE DEF SharedInv
<1>1. UNCHANGED <<incoming, folder, locked, current, step, release, index, pending, status>>
  BY DEF Installs, Publish, here, inspecting
<1>2. MatchedStays' /\ ReadyHasArrived' /\ ReadyIsNewer'
  BY <1>1 DEF MatchedStays, ReadyHasArrived, ReadyIsNewer, Arrived
<1>3. ASSUME NEW f \in Files, Installs(f) PROVE TypeOK' /\ SourceGoesForward' /\ CopiesGoForward'
  <2>1. published \in Releases /\ published + 1 \in Releases
    <3>1. published < Latest /\ published \in Releases
      BY <1>3, Typing DEF Installs
    <3> QED
      BY <3>1, SharedAssumption DEF Releases
  <2>0. /\ published' = published
        /\ source'[f] = published + 1 /\ source[f] = published
    BY <1>3, <2>1 DEF Installs, TypeOK
  <2>2. \A g \in Files : source[g] \in Releases /\ source'[g] \in Releases /\ source[g] <= source'[g]
    <3> SUFFICES ASSUME NEW g \in Files
                 PROVE  source[g] \in Releases /\ source'[g] \in Releases /\ source[g] <= source'[g]
      OBVIOUS
    <3>1. CASE g = f
      BY <3>1, <2>0, <2>1, Typing
    <3>2. CASE g # f
      <4>1. source'[g] = source[g] /\ source[g] \in Releases
        BY <3>2, <1>3 DEF Installs, TypeOK
      <4> QED
        BY <4>1
    <3> QED
      BY <3>1, <3>2
  <2>3. TypeOK'
    BY <1>1, <1>3, <2>0, <2>1 DEF Installs, TypeOK
  <2>4. SourceGoesForward'
    BY <1>3, <2>0, <2>1 DEF Installs, TypeOK, SourceGoesForward
  <2>5. CopiesGoForward'
    <3> SUFFICES ASSUME NEW g \in Files
                 PROVE  /\ folder[g] \in Releases => folder[g] <= source'[g]
                        /\ incoming[g] # Nothing => incoming[g] <= source'[g]
      BY <1>1 DEF CopiesGoForward
    <3>1. /\ folder[g] \in Releases => folder[g] <= source[g]
          /\ incoming[g] # Nothing => incoming[g] <= source[g]
      BY DEF CopiesGoForward
    <3> QED
      BY <2>2, <3>1, Typing
  <2> QED
    BY <2>3, <2>4, <2>5
<1>4. CASE Publish
  <2>0. published \in Releases /\ published + 1 \in Releases
    <3>1. published < Latest /\ published \in Releases
      BY <1>4, Typing DEF Publish
    <3> QED
      BY <3>1, SharedAssumption DEF Releases
  <2>1. published' = published + 1 /\ \A f \in Files : source'[f] = source[f]
    BY <1>4, <2>0 DEF Publish, TypeOK
  <2>2. TypeOK'
    BY <1>1, <1>4, <2>0, <2>1 DEF Publish, TypeOK
  <2>3. SourceGoesForward'
    BY <1>4, <2>1 DEF Publish, SourceGoesForward
  <2>4. CopiesGoForward'
    BY <1>1, <2>1 DEF CopiesGoForward
  <2> QED
    BY <1>2, <2>2, <2>3, <2>4
<1> QED
  BY <1>2, <1>3, <1>4

\* The synchronising client.
LEMMA ClientKeeps ==
  ASSUME SharedInv,
         \/ \E x \in Items, m \in Releases \cup {Torn, Link} : Fetches(x, m)
         \/ \E x \in Items : Lands(x) \/ LetsGo(x)
  PROVE  SharedInv'
<1> USE DEF SharedInv
<1>1. UNCHANGED <<source, reverts, current, step, release, index, pending, status>>
  BY DEF Fetches, Lands, LetsGo, inspecting
<1>2. \/ UNCHANGED <<folder, incoming>>
      \/ \E x \in Items, m \in Releases \cup {Torn, Link} : Fetches(x, m)
      \/ \E x \in Items : Lands(x)
  BY DEF LetsGo
<1>3. TypeOK'
  <2>1. ASSUME NEW x \in Items, NEW m \in Releases \cup {Torn, Link}, Fetches(x, m) PROVE TypeOK'
    BY <1>1, <2>1 DEF Fetches, TypeOK
  <2>2. ASSUME NEW x \in Items, Lands(x) PROVE TypeOK'
    <3>1. incoming[x] \in Releases
      BY <2>2, Typing DEF Lands
    <3> QED
      BY <1>1, <2>2, <3>1 DEF Lands, TypeOK
  <2>3. ASSUME NEW x \in Items, LetsGo(x) PROVE TypeOK'
    BY <1>1, <2>3 DEF LetsGo, TypeOK
  <2> QED
    BY <2>1, <2>2, <2>3
<1>4. SourceGoesForward'
  BY <1>1 DEF SourceGoesForward
<1>5. CopiesGoForward'
  <2>1. ASSUME NEW x \in Items, NEW m \in Releases \cup {Torn, Link}, Fetches(x, m)
        PROVE  CopiesGoForward'
    <3> SUFFICES ASSUME NEW f \in Files
                 PROVE  /\ folder'[f] \in Releases => folder'[f] <= source[f]
                        /\ folder'[f] \notin Releases => incoming'[f] # Nothing
                        /\ incoming'[f] # Nothing =>
                             /\ incoming'[f] <= source[f]
                             /\ folder'[f] \in Releases => folder'[f] <= incoming'[f]
      BY <1>1 DEF CopiesGoForward
    <3>1. CASE f = x
      <4>1. incoming'[f] = source[f] /\ folder'[f] = m /\ m \in {folder[f], Torn, Link}
        BY <2>1, <3>1 DEF Fetches, TypeOK
      <4> QED
        BY <4>1, Typing DEF CopiesGoForward
    <3>2. CASE f # x
      <4>1. incoming'[f] = incoming[f] /\ folder'[f] = folder[f]
        BY <2>1, <3>2 DEF Fetches, TypeOK
      <4> QED
        BY <4>1 DEF CopiesGoForward
    <3> QED
      BY <3>1, <3>2
  <2>2. ASSUME NEW x \in Items, Lands(x) PROVE CopiesGoForward'
    <3> SUFFICES ASSUME NEW f \in Files
                 PROVE  /\ folder'[f] \in Releases => folder'[f] <= source[f]
                        /\ folder'[f] \notin Releases => incoming'[f] # Nothing
                        /\ incoming'[f] # Nothing =>
                             /\ incoming'[f] <= source[f]
                             /\ folder'[f] \in Releases => folder'[f] <= incoming'[f]
      BY <1>1 DEF CopiesGoForward
    <3>1. CASE f = x
      <4>1. incoming'[f] = Nothing /\ folder'[f] = incoming[f] /\ incoming[f] # Nothing
        BY <2>2, <3>1 DEF Lands, TypeOK
      <4> QED
        BY <4>1, Typing DEF CopiesGoForward
    <3>2. CASE f # x
      <4>1. incoming'[f] = incoming[f] /\ folder'[f] = folder[f]
        BY <2>2, <3>2 DEF Lands, TypeOK
      <4> QED
        BY <4>1 DEF CopiesGoForward
    <3> QED
      BY <3>1, <3>2
  <2>3. CASE UNCHANGED <<folder, incoming>>
    BY <1>1, <2>3 DEF CopiesGoForward
  <2> QED
    BY <1>2, <2>1, <2>2, <2>3
<1>6. MatchedStays'
  <2>1. step = "files" => \A i \in 1 .. index - 1 : Listed[release][i] \in Files
    BY DEF TypeOK
  <2>2. ASSUME step = "files", NEW i \in 1 .. index - 1
        PROVE  (Listed[release][i] \in NeverPutBack =>
                  Listed[release][i] \in pending \/ Arrived(release, Listed[release][i]))'
    BY <1>1, <1>2, <2>1, <2>2, ArrivedStays DEF MatchedStays, TypeOK
  <2> QED
    BY <1>1, <2>2 DEF MatchedStays
<1>7. ReadyHasArrived' /\ ReadyIsNewer'
  <2>1. ASSUME status.kind = "ready", NEW f \in FilesOf(status.version) \cap NeverPutBack
        PROVE  Arrived(status.version, f)'
    <3>1. status.version \in Releases
      BY Typing
    <3> QED
      BY <1>1, <1>2, <2>1, <3>1, ArrivedStays DEF ReadyHasArrived
  <2> QED
    BY <1>1, <2>1 DEF ReadyHasArrived, ReadyIsNewer
<1> QED
  BY <1>3, <1>4, <1>5, <1>6, <1>7

\* inspect.
LEMMA InspectKeeps == SharedInv /\ Inspects => SharedInv'
<1> SUFFICES ASSUME SharedInv, Inspects PROVE SharedInv'
  OBVIOUS
<1> USE DEF SharedInv
<1>1. UNCHANGED <<source, reverts, incoming, folder, locked, current>>
  BY DEF Inspects, ReadsNothingNew, FailsOnMetadata, ReadsRelease, HashesFile, FailsOnLink,
         Reports, Returns, elsewhere
<1>2. SourceGoesForward' /\ CopiesGoForward'
  BY <1>1 DEF SourceGoesForward, CopiesGoForward
<1>3. ASSUME ReadsNothingNew \/ FailsOnMetadata \/ FailsOnLink PROVE SharedInv'
  <2>1. /\ status' \in {[kind |-> "unchanged", version |-> 0, pending |-> {}],
                        [kind |-> "error", version |-> 0, pending |-> {}]}
        /\ step' = "metadata" /\ release' = 0 /\ index' = 1 /\ pending' = {}
    BY <1>3 DEF ReadsNothingNew, FailsOnMetadata, FailsOnLink, Returns
  <2>2. TypeOK'
    BY <1>1, <2>1 DEF TypeOK
  <2>3. MatchedStays' /\ ReadyHasArrived' /\ ReadyIsNewer'
    BY <2>1 DEF MatchedStays, ReadyHasArrived, ReadyIsNewer
  <2> QED
    BY <1>2, <2>2, <2>3
<1>4. CASE ReadsRelease
  <2>1. TypeOK'
    <3>1. folder["metadata"] \in Releases \cup {Torn, Link} /\ current \in Releases
      BY Typing
    <3>2. release' \in Releases
      BY <1>4, <3>1, SharedAssumption DEF ReadsRelease, Offers
    <3>3. index' \in 1 .. Len(Listed[release']) + 1
      BY <1>4, <3>2 DEF ReadsRelease
    <3>4. status' \in [kind : {"none", "unchanged", "waiting", "ready", "error"},
                       version : Releases, pending : SUBSET Files]
      BY <1>4 DEF ReadsRelease, None
    <3> QED
      BY <1>1, <1>4, <3>2, <3>3, <3>4 DEF ReadsRelease, TypeOK
  <2>2. MatchedStays' /\ ReadyHasArrived' /\ ReadyIsNewer'
    BY <1>4, <1>1, <2>1 DEF ReadsRelease, MatchedStays, ReadyHasArrived, ReadyIsNewer, None, Offers
  <2> QED
    BY <1>2, <2>1, <2>2
<1>5. CASE HashesFile
  <2> DEFINE f == Listed[release][index]
  <2>1. f \in Files /\ index \in 1 .. Len(Listed[release]) /\ index' = index + 1
    BY <1>5 DEF HashesFile, TypeOK
  <2>2. TypeOK'
    BY <1>1, <1>5, <2>1 DEF HashesFile, TypeOK
  <2>3. Matches(f) /\ f \in NeverPutBack => Arrived(release, f)
    <3> SUFFICES ASSUME Matches(f), f \in NeverPutBack PROVE Arrived(release, f)
      OBVIOUS
    <3>1. folder[f] \in Releases /\ release \in Releases /\ WillDo(release, f, folder[f])
      BY Typing DEF Matches, WillDo
    <3>2. incoming[f] # Nothing => incoming[f] \in Releases /\ folder[f] <= incoming[f]
      BY <2>1, <3>1, Typing DEF CopiesGoForward
    <3>3. incoming[f] # Nothing => WillDo(release, f, incoming[f])
      BY <3>1, <3>2, LaterWillDo
    <3> HIDE DEF f
    <3> QED
      BY <3>1, <3>3 DEF Arrived
  <2>4. ASSUME NEW i \in 1 .. index' - 1
        PROVE  Listed[release][i] \in NeverPutBack =>
                 Listed[release][i] \in pending' \/ Arrived(release, Listed[release][i])
    <3>1. CASE i = index
      BY <1>5, <2>3, <3>1 DEF HashesFile
    <3>2. CASE i # index
      <4>1. i \in 1 .. index - 1 /\ step = "files"
        BY <1>5, <2>1, <2>4, <3>2 DEF HashesFile
      <4> QED
        BY <1>5, <4>1 DEF HashesFile, MatchedStays
    <3> QED
      BY <3>1, <3>2
  <2>5. MatchedStays'
    BY <1>1, <1>5, <2>4 DEF HashesFile, MatchedStays, Arrived
  <2>6. ReadyHasArrived' /\ ReadyIsNewer'
    BY <1>1, <1>5 DEF HashesFile, ReadyHasArrived, ReadyIsNewer, Arrived
  <2> QED
    BY <1>2, <2>2, <2>5, <2>6
<1>6. CASE Reports
  <2>1. step' = "metadata" /\ release' = 0 /\ index' = 1 /\ pending' = {}
        /\ status' = [kind |-> IF pending = {} THEN "ready" ELSE "waiting",
                      version |-> release, pending |-> pending]
    BY <1>6 DEF Reports, Returns
  <2>2. TypeOK'
    BY <1>1, <2>1 DEF TypeOK
  <2>3. ASSUME pending = {}, NEW g \in FilesOf(release) \cap NeverPutBack PROVE Arrived(release, g)
    <3>1. PICK i \in DOMAIN Listed[release] : g = Listed[release][i]
      BY DEF FilesOf
    <3>2. i \in 1 .. index - 1 /\ step = "files"
      BY <1>6, <3>1, Typing DEF Reports
    <3> QED
      BY <2>3, <3>1, <3>2 DEF MatchedStays
  <2>4. ReadyHasArrived'
    BY <1>1, <2>1, <2>3 DEF ReadyHasArrived, Arrived
  <2>5. MatchedStays' /\ ReadyIsNewer'
    BY <1>1, <1>6, <2>1 DEF Reports, MatchedStays, ReadyIsNewer
  <2> QED
    BY <1>2, <2>2, <2>4, <2>5
<1> QED
  BY <1>3, <1>4, <1>5, <1>6 DEF Inspects

\* The program that is there is newer, if all of the release has arrived.
LEMMA RestartIsNewer == SharedInv /\ Restarts => current' > current
<1> SUFFICES ASSUME SharedInv, Restarts PROVE current' > current
  OBVIOUS
<1>1. status.version \in Releases /\ status.version > current /\ current \in Releases
  BY DEF SharedInv, TypeOK, ReadyIsNewer, Restarts
<1>2. Exe \in FilesOf(status.version) \cap NeverPutBack
  BY <1>1, KeptFiles, SharedAssumption DEF FilesOf
<1>3. WillDo(status.version, Exe, folder[Exe]) /\ folder[Exe] \in Releases /\ current' = folder[Exe]
  BY <1>2 DEF SharedInv, ReadyHasArrived, Arrived, Restarts
<1>4. folder[Exe] >= status.version
  BY <1>1, <1>3, SharedAssumption DEF WillDo
<1> QED
  BY <1>1, <1>3, <1>4

LEMMA RestartKeeps == SharedInv /\ Restarts => SharedInv'
<1> SUFFICES ASSUME SharedInv, Restarts PROVE SharedInv'
  OBVIOUS
<1> USE DEF SharedInv, Restarts, inspecting, None
<1>1. TypeOK'
  BY DEF TypeOK
<1>2. SourceGoesForward' /\ CopiesGoForward'
  BY DEF SourceGoesForward, CopiesGoForward
<1>3. MatchedStays' /\ ReadyHasArrived' /\ ReadyIsNewer'
  BY DEF MatchedStays, ReadyHasArrived, ReadyIsNewer
<1> QED
  BY <1>1, <1>2, <1>3

LEMMA SharedStep ==
  ASSUME SharedInv, [Next]_vars, ~ \E f \in Files : RollsBack(f) PROVE SharedInv'
<1>1. CASE UNCHANGED vars
  BY <1>1 DEF vars, inspecting, SharedInv, TypeOK, SourceGoesForward, CopiesGoForward,
              MatchedStays, ReadyHasArrived, ReadyIsNewer, Arrived
<1>2. CASE Next
  BY <1>2, SourceKeeps, ClientKeeps, InspectKeeps, RestartKeeps DEF Next
<1> QED
  BY <1>1, <1>2

\* A rollback counts; nothing else does.
LEMMA Counts ==
  ASSUME [Next]_vars
  PROVE  \/ reverts' = reverts
         \/ reverts' = reverts + 1 /\ \E f \in Files : RollsBack(f)
<1>1. CASE UNCHANGED vars
  BY <1>1 DEF vars
<1>2. ASSUME NEW f \in Files, Installs(f) \/ RollsBack(f)
      PROVE  reverts' = reverts \/ (reverts' = reverts + 1 /\ RollsBack(f))
  BY <1>2 DEF Installs, RollsBack
<1>3. ASSUME Publish \/ Restarts PROVE reverts' = reverts
  BY <1>3 DEF Publish, Restarts
<1>4. ASSUME NEW x \in Items, \/ Lands(x) \/ LetsGo(x)
                              \/ \E m \in Releases \cup {Torn, Link} : Fetches(x, m)
      PROVE  reverts' = reverts
  BY <1>4 DEF Lands, LetsGo, Fetches
<1>5. ASSUME Inspects PROVE reverts' = reverts
  BY <1>5 DEF Inspects, ReadsNothingNew, FailsOnMetadata, ReadsRelease, HashesFile,
              FailsOnLink, Reports, Returns, elsewhere
<1> QED
  BY <1>1, <1>2, <1>3, <1>4, <1>5 DEF Next

\* As long as nothing was rolled back, the copies go forward and a matched file stays
\* arrived.
THEOREM SharedInvariant == Spec => [](reverts \in Nat /\ (reverts = 0 => SharedInv))
<1> DEFINE Inv == reverts \in Nat /\ (reverts = 0 => SharedInv)
<1>1. Init => Inv
  BY SharedInit DEF Init
<1>2. Inv /\ [Next]_vars => Inv'
  <2> SUFFICES ASSUME Inv, [Next]_vars PROVE Inv'
    OBVIOUS
  <2>1. reverts' \in Nat
    BY Counts
  <2>2. ASSUME reverts' = 0 PROVE reverts = 0 /\ ~ \E f \in Files : RollsBack(f)
    <3>1. ~ reverts' = reverts + 1
      BY <2>2
    <3> QED
      BY <2>2, <3>1, Counts DEF RollsBack
  <2> QED
    BY <2>1, <2>2, SharedStep
<1> QED
  BY <1>1, <1>2, PTL DEF Spec

\* ReadyToRestart means that every listed file is there, in that release or a newer one:
\* inspect needs no lock against the client.  (Every file, whatever its contents, that no
\* release has put back.)
THEOREM ReadyIsComplete == Spec => []ReadyMeansArrived
<1>1. (reverts = 0 => SharedInv) => ReadyMeansArrived
  BY DEF SharedInv, ReadyMeansArrived
<1> QED
  BY <1>1, SharedInvariant, PTL

\* Following the advice never runs the old program again.
THEOREM RestartsGoForward == Spec => RestartsAdvance
<1>1. (reverts = 0 => SharedInv) => [Restarts /\ reverts = 0 => current' > current]_vars
  BY RestartIsNewer
<1> QED
  BY <1>1, SharedInvariant, PTL DEF RestartsAdvance

=============================================================================
