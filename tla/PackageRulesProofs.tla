--------------------------- MODULE PackageRulesProofs ---------------------------
(***************************************************************************)
(* That the walk over a manifest decides what ManifestIsSound states, for   *)
(* manifests of any size, and what follows for the items of an update.      *)
(***************************************************************************)
EXTENDS PackageRules, TLAPS

\* Two paths are the same file for a file system that ignores case.
Same(p, q) == Len(p) = Len(q) /\ \A k \in 1 .. Len(p) : Fold[p[k]] = Fold[q[k]]

LEMMA LowerIsPath ==
  ASSUME NEW p \in PathSet
  PROVE  Lower(p) \in PathSet /\ Len(Lower(p)) = Len(p) /\ \A k \in 1 .. Len(p) : Lower(p)[k] = Fold[p[k]]
<1>1. Fold \in [Names -> Names]
  BY RulesAssumption
<1>2. Len(p) \in Nat /\ DOMAIN p = 1 .. Len(p) /\ \A k \in 1 .. Len(p) : p[k] \in Names
  BY DEF PathSet
<1>3. Lower(p) \in [1 .. Len(p) -> Names]
  BY <1>1, <1>2 DEF Lower
<1>4. Lower(p) \in Seq(Names) /\ Len(Lower(p)) = Len(p)
  BY <1>2, <1>3
<1> QED BY <1>2, <1>4 DEF Lower, PathSet

LEMMA LowerMeansSame ==
  ASSUME NEW p \in PathSet, NEW q \in PathSet
  PROVE  Lower(p) = Lower(q) <=> Same(p, q)
  BY LowerIsPath DEF PathSet, Same

LEMMA AboveMeansFolder ==
  ASSUME NEW p \in PathSet, NEW q \in PathSet, p # <<>>
  PROVE  Lower(p) \in Above(Lower(q))
           <=> Len(p) < Len(q) /\ \A k \in 1 .. Len(p) : Fold[p[k]] = Fold[q[k]]
<1>1. /\ Lower(p) \in PathSet /\ Len(Lower(p)) = Len(p)
      /\ \A k \in 1 .. Len(p) : Lower(p)[k] = Fold[p[k]]
  BY LowerIsPath
<1>2. /\ Lower(q) \in PathSet /\ Len(Lower(q)) = Len(q)
      /\ \A k \in 1 .. Len(q) : Lower(q)[k] = Fold[q[k]]
  BY LowerIsPath
<1>3. \A n \in 1 .. Len(q) - 1 : Lower(p) = SubSeq(Lower(q), 1, n)
                                   <=> n = Len(p) /\ \A k \in 1 .. n : Lower(p)[k] = Lower(q)[k]
  <2> SUFFICES ASSUME NEW n \in 1 .. Len(q) - 1
               PROVE  Lower(p) = SubSeq(Lower(q), 1, n)
                        <=> n = Len(p) /\ \A k \in 1 .. n : Lower(p)[k] = Lower(q)[k]
    OBVIOUS
  <2>1. /\ SubSeq(Lower(q), 1, n) \in PathSet /\ Len(SubSeq(Lower(q), 1, n)) = n
        /\ \A k \in 1 .. n : SubSeq(Lower(q), 1, n)[k] = Lower(q)[k]
    BY <1>2 DEF PathSet
  <2> QED BY <1>1, <2>1 DEF PathSet
<1>4. Len(p) \in Nat /\ Len(p) >= 1 /\ Len(q) \in Nat
  BY DEF PathSet
<1> QED BY <1>1, <1>2, <1>3, <1>4 DEF Above

\* SameOrAbove, which the properties are stated with, in terms of what the walk compares.
LEMMA SameOrAboveIsCompared ==
  ASSUME NEW p \in PathSet, NEW q \in PathSet, p # <<>>
  PROVE  SameOrAbove(p, q) <=> Lower(p) = Lower(q) \/ Lower(p) \in Above(Lower(q))
<1>1. DOMAIN p = 1 .. Len(p) /\ Len(p) \in Nat /\ Len(q) \in Nat
  BY DEF PathSet
<1> QED BY <1>1, LowerMeansSame, AboveMeansFolder DEF SameOrAbove, Same

-----------------------------------------------------------------------------
Artifacts == manifest.artifacts
Path(k) == Files[k].path

\* What the walk has found when it is in the middle of an artifact.
FilesSoFar ==
  /\ art <= Len(Artifacts) /\ Artifact.head /\ Files # <<>> /\ file <= Len(Files) + 1
  /\ \A b \in 1 .. art - 1 : Artifacts[b].target # Artifact.target
  /\ \A i \in 1 .. file - 1 : CheckPath(Path(i)) /\ Files[i].hash
  /\ \A i, j \in 1 .. file - 1 : i # j => Lower(Path(i)) # Lower(Path(j))
  /\ paths = {Lower(Path(i)) : i \in 1 .. file - 1}

Progress ==
  /\ art \in 1 .. Len(Artifacts) + 1 /\ file \in Nat /\ manifest.head
  /\ \A b \in 1 .. art - 1 : ArtifactIsSound(Artifacts[b])
  /\ \A b, c \in 1 .. art - 1 : b # c => Artifacts[b].target # Artifacts[c].target
  /\ targets = {Artifacts[b].target : b \in 1 .. (IF file = 0 THEN art - 1 ELSE art)}
  /\ file > 0 => FilesSoFar

RulesInv ==
  /\ manifest \in Manifests /\ policy \in Policies
  /\ verdict \in {"checking", "valid", "accepted", "refused", "invalid"}
  /\ verdict = "checking" => Progress
  /\ verdict = "invalid" => ~ManifestIsSound
  /\ verdict \in {"valid", "accepted", "refused"} => ManifestIsSound
  /\ verdict = "accepted" => Allows

\* What the documents are.
LEMMA Documented ==
  ASSUME manifest \in Manifests
  PROVE  /\ manifest.head \in BOOLEAN /\ DOMAIN Artifacts = 1 .. Len(Artifacts) /\ Len(Artifacts) \in Nat
         /\ \A a \in 1 .. Len(Artifacts) :
              /\ Artifacts[a].head \in BOOLEAN
              /\ DOMAIN Artifacts[a].files = 1 .. Len(Artifacts[a].files) /\ Len(Artifacts[a].files) \in Nat
              /\ \A k \in 1 .. Len(Artifacts[a].files) :
                   Artifacts[a].files[k].path \in PathSet /\ Artifacts[a].files[k].hash \in BOOLEAN
  BY RulesAssumption DEF Artifacts

\* At the end of an artifact: nothing nests exactly when the artifact is sound.
LEMMA EndOfArtifact ==
  ASSUME manifest \in Manifests, Progress, file > 0, file > Len(Files)
  PROVE  ArtifactIsSound(Artifact) <=> ~Nested
<1>1. /\ art \in 1 .. Len(Artifacts) /\ file = Len(Files) + 1 /\ FilesSoFar
      /\ Len(Files) \in Nat /\ DOMAIN Files = 1 .. Len(Files)
      /\ \A k \in 1 .. Len(Files) : Path(k) \in PathSet
  <2>1. FilesSoFar /\ art \in 1 .. Len(Artifacts) /\ file \in Nat /\ file <= Len(Files) + 1
    BY Documented DEF Progress, FilesSoFar
  <2>2. /\ Len(Files) \in Nat /\ DOMAIN Files = 1 .. Len(Files)
        /\ \A k \in 1 .. Len(Files) : Path(k) \in PathSet
    BY <2>1, Documented DEF Artifact, Files, Path, Artifacts
  <2> QED BY <2>1, <2>2
<1>2. \A i \in 1 .. Len(Files) : CheckPath(Path(i)) /\ Files[i].hash /\ Path(i) # <<>>
  BY <1>1 DEF FilesSoFar, CheckPath
<1>3. \A i, j \in 1 .. Len(Files) : i # j => Lower(Path(i)) # Lower(Path(j))
  BY <1>1 DEF FilesSoFar
<1>4. Nested <=> \E i, j \in 1 .. Len(Files) : Lower(Path(j)) \in Above(Lower(Path(i)))
  BY <1>1 DEF FilesSoFar, Nested
<1>5. \A i, j \in 1 .. Len(Files) : Lower(Path(j)) \in Above(Lower(Path(i))) => i # j
  <2> SUFFICES ASSUME NEW i \in 1 .. Len(Files), Lower(Path(i)) \in Above(Lower(Path(i))) PROVE FALSE
    OBVIOUS
  <2>1. Len(Path(i)) < Len(Path(i))
    BY <1>1, <1>2, AboveMeansFolder
  <2>2. Len(Path(i)) \in Nat
    BY <1>1 DEF PathSet
  <2> QED BY <2>1, <2>2
<1>6. \A i, j \in 1 .. Len(Files) :
        SameOrAbove(Path(i), Path(j))
          <=> Lower(Path(i)) = Lower(Path(j)) \/ Lower(Path(i)) \in Above(Lower(Path(j)))
  BY <1>1, <1>2, SameOrAboveIsCompared
<1>7. ArtifactIsSound(Artifact)
        <=> \A i, j \in 1 .. Len(Files) : i # j => ~SameOrAbove(Path(i), Path(j))
  BY <1>1, <1>2 DEF ArtifactIsSound, FilesSoFar, Files, Path
<1> QED BY <1>3, <1>4, <1>5, <1>6, <1>7

\* The same documents are judged in the same way.
LEMMA SameJudgement ==
  ASSUME UNCHANGED <<manifest, policy>>
  PROVE  (ManifestIsSound' <=> ManifestIsSound) /\ (Allows' <=> Allows)
<1>1. manifest' = manifest /\ policy' = policy
  OBVIOUS
<1>2. ManifestIsSound' <=> ManifestIsSound
  BY <1>1 DEF ManifestIsSound, ArtifactIsSound
<1>3. Mine' = Mine
  BY <1>1 DEF Mine
<1>4. First' = First
  BY <1>3, Zenon DEF First
<1>5. Received' = Received
  BY <1>1, <1>4 DEF Received
<1>6. (PortableAllows' <=> PortableAllows) /\ (BundleAllows' <=> BundleAllows)
  BY <1>1, <1>4, <1>5 DEF PortableAllows, BundleAllows
<1> QED BY <1>1, <1>2, <1>3, <1>6 DEF Allows

LEMMA RulesInvInit == Init => RulesInv
<1> SUFFICES ASSUME Init PROVE RulesInv
  OBVIOUS
<1>1. CASE manifest.head
  BY <1>1, Documented DEF Init, RulesInv, Progress, Artifacts
<1>2. CASE ~manifest.head
  BY <1>2 DEF Init, RulesInv, ManifestIsSound
<1> QED BY <1>1, <1>2

LEMMA RulesInvStep == RulesInv /\ [Next]_vars => RulesInv'
<1> SUFFICES ASSUME RulesInv, [Next]_vars PROVE RulesInv'
  OBVIOUS
<1>d. /\ manifest \in Manifests /\ policy \in Policies /\ DOMAIN Artifacts = 1 .. Len(Artifacts)
      /\ Len(Artifacts) \in Nat
  BY Documented DEF RulesInv
<1>1. CASE OpensArtifact
  <2>1. Progress /\ art \in 1 .. Len(Artifacts) /\ file = 0 /\ UNCHANGED <<manifest, policy, art>>
    BY <1>1 DEF OpensArtifact, Checking, RulesInv, Progress, Documents, Artifacts
  <2>2. CASE Artifact.target \notin targets /\ Artifact.head /\ Files # <<>>
    <3>1. verdict' = "checking" /\ file' = 1 /\ targets' = targets \cup {Artifact.target} /\ paths' = {}
      BY <1>1, <2>2 DEF OpensArtifact, Checking
    <3>2. FilesSoFar'
      BY <1>d, <2>1, <2>2, <3>1, Documented
         DEF FilesSoFar, Progress, Artifact, Files, Path, Artifacts
    <3>3. Progress'
      BY <1>d, <2>1, <2>2, <3>1, <3>2 DEF Progress, Artifacts, Artifact
    <3> QED BY <1>d, <2>1, <3>1, <3>3 DEF RulesInv
  <2>3. CASE ~(Artifact.target \notin targets /\ Artifact.head /\ Files # <<>>)
    <3>1. verdict' = "invalid"
      BY <1>1, <2>3 DEF OpensArtifact
    <3>2. ~ManifestIsSound
      BY <1>d, <2>1, <2>3 DEF Progress, ManifestIsSound, ArtifactIsSound, Artifact, Files, Artifacts
    <3> QED BY <1>d, <2>1, <3>1, <3>2 DEF RulesInv, ManifestIsSound, ArtifactIsSound
  <2> QED BY <2>2, <2>3
<1>2. CASE ChecksFile
  <2>1. /\ Progress /\ FilesSoFar /\ art \in 1 .. Len(Artifacts) /\ file \in 1 .. Len(Files)
        /\ UNCHANGED <<manifest, policy, art, targets>>
    BY <1>2 DEF ChecksFile, Checking, RulesInv, Progress, Documents, Artifacts
  <2>2. /\ DOMAIN Files = 1 .. Len(Files) /\ Len(Files) \in Nat
        /\ \A k \in 1 .. Len(Files) : Path(k) \in PathSet
    BY <1>d, <2>1, Documented DEF Files, Artifact, Path, Artifacts
  <2>3. CASE CheckPath(Path(file)) /\ Files[file].hash /\ Lower(Path(file)) \notin paths
    <3>1. /\ verdict' = "checking" /\ file' = file + 1
          /\ paths' = paths \cup {Lower(Path(file))}
      BY <1>2, <2>3 DEF ChecksFile, Checking, Path
    <3>2. \A i \in 1 .. file : CheckPath(Path(i)) /\ Files[i].hash
      BY <2>1, <2>3 DEF FilesSoFar
    <3>3. \A i, j \in 1 .. file : i # j => Lower(Path(i)) # Lower(Path(j))
      BY <2>1, <2>3 DEF FilesSoFar
    <3>4. paths' = {Lower(Path(i)) : i \in 1 .. file}
      BY <2>1, <3>1 DEF FilesSoFar
    <3>5. \A i : Path(i)' = Path(i) /\ Files' = Files /\ Artifact' = Artifact
      BY <2>1 DEF Path, Files, Artifact
    <3>6. FilesSoFar'
      BY <2>1, <2>2, <3>1, <3>2, <3>3, <3>4, <3>5 DEF FilesSoFar, Artifacts, CheckPath
    <3>7. Progress'
      BY <2>1, <3>1, <3>6 DEF Progress, Artifacts
    <3> QED BY <1>d, <2>1, <3>1, <3>7 DEF RulesInv
  <2>4. CASE ~(CheckPath(Path(file)) /\ Files[file].hash /\ Lower(Path(file)) \notin paths)
    <3>1. verdict' = "invalid"
      BY <1>2, <2>4 DEF ChecksFile, Path
    <3>2. ~ArtifactIsSound(Artifact)
      <4>1. CASE ~(CheckPath(Path(file)) /\ Files[file].hash)
        BY <2>1, <2>2, <4>1 DEF ArtifactIsSound, Files, Path
      <4>2. CASE CheckPath(Path(file)) /\ Lower(Path(file)) \in paths
        <5>1. PICK i \in 1 .. file - 1 : Lower(Path(i)) = Lower(Path(file))
          BY <2>1, <4>2 DEF FilesSoFar
        <5>2. SameOrAbove(Path(i), Path(file)) /\ i # file /\ i \in DOMAIN Files /\ file \in DOMAIN Files
          BY <2>1, <2>2, <5>1, SameOrAboveIsCompared DEF FilesSoFar, CheckPath
        <5> QED BY <5>2 DEF ArtifactIsSound, Files, Path
      <4> QED BY <2>4, <4>1, <4>2
    <3>3. ~ManifestIsSound
      BY <1>d, <2>1, <3>2 DEF ManifestIsSound, Artifact, Artifacts
    <3> QED BY <1>d, <2>1, <3>1, <3>3 DEF RulesInv, ManifestIsSound, ArtifactIsSound
  <2> QED BY <2>3, <2>4
<1>3. CASE ClosesArtifact
  <2>1. /\ Progress /\ art \in 1 .. Len(Artifacts) /\ file > Len(Files) /\ file \in Nat
        /\ UNCHANGED <<manifest, policy, targets>>
    BY <1>3 DEF ClosesArtifact, Checking, RulesInv, Progress, Documents, Artifacts
  <2>2. Len(Files) \in Nat
    BY <1>d, <2>1, Documented DEF Files, Artifact, Artifacts
  <2>3. file > 0 /\ FilesSoFar
    BY <2>1, <2>2 DEF Progress
  <2>4. ArtifactIsSound(Artifact) <=> ~Nested
    BY <1>d, <2>1, <2>3, EndOfArtifact
  <2>5. CASE Nested
    <3>1. verdict' = "invalid" /\ ~ManifestIsSound
      BY <1>3, <1>d, <2>1, <2>4, <2>5 DEF ClosesArtifact, ManifestIsSound, Artifact, Artifacts
    <3> QED BY <1>d, <2>1, <3>1 DEF RulesInv, ManifestIsSound, ArtifactIsSound
  <2>6. CASE ~Nested
    <3>1. verdict' = "checking" /\ art' = art + 1 /\ file' = 0
      BY <1>3, <2>6 DEF ClosesArtifact, Checking
    <3>2. \A b \in 1 .. art : ArtifactIsSound(Artifacts[b])
      BY <2>1, <2>4, <2>6 DEF Progress, Artifact, Artifacts
    <3>3. \A b, c \in 1 .. art : b # c => Artifacts[b].target # Artifacts[c].target
      BY <2>1, <2>3 DEF Progress, FilesSoFar, Artifact, Artifacts
    <3>4. Progress'
      BY <1>d, <2>1, <2>3, <3>1, <3>2, <3>3 DEF Progress, Artifacts, ArtifactIsSound
    <3> QED BY <1>d, <2>1, <3>1, <3>4 DEF RulesInv
  <2> QED BY <2>5, <2>6
<1>4. CASE Validated
  <2>1. Progress /\ art = Len(Artifacts) + 1 /\ verdict' = "valid" /\ UNCHANGED <<manifest, policy>>
    BY <1>4, <1>d DEF Validated, RulesInv, Progress, Documents, Artifacts
  <2>2. ManifestIsSound
    BY <1>d, <2>1 DEF Progress, ManifestIsSound, Artifacts
  <2> QED BY <1>d, <2>1, <2>2 DEF RulesInv, ManifestIsSound, ArtifactIsSound
<1>5. CASE Decides
  <2>1. UNCHANGED <<manifest, policy>> /\ ManifestIsSound /\ verdict' \in {"accepted", "refused"}
    BY <1>5 DEF Decides, RulesInv, Documents
  <2>2. verdict' = "accepted" => Allows
    BY <1>5 DEF Decides
  <2>3. ManifestIsSound' /\ (verdict' = "accepted" => Allows')
    BY <2>1, <2>2, SameJudgement
  <2> QED BY <1>d, <2>1, <2>3 DEF RulesInv
<1>6. CASE UNCHANGED vars
  <2>1. Progress => Progress'
    BY <1>6 DEF vars, Progress, FilesSoFar, ArtifactIsSound, Artifacts, Artifact, Files, Path
  <2> QED BY <1>6, <2>1, SameJudgement DEF vars, RulesInv
<1> QED BY <1>1, <1>2, <1>3, <1>4, <1>5, <1>6 DEF Next

\* The artifact for this target is the only one, and sound.
LEMMA FirstIsSound ==
  ASSUME manifest \in Manifests, ManifestIsSound, Mine # {}
  PROVE  First \in 1 .. Len(Artifacts) /\ ArtifactIsSound(Artifacts[First])
<1>1. PICK a \in 1 .. Len(Artifacts) : a \in Mine
  BY Documented DEF Mine, Artifacts
<1>2. Mine = {a}
  BY <1>1, Documented DEF Mine, ManifestIsSound, Artifacts
<1>3. First = a
  <2>1. a \in Mine /\ \A b \in Mine : a <= b
    BY <1>1, <1>2
  <2> QED BY <2>1, <1>2 DEF First
<1> QED BY <1>1, <1>3, Documented DEF ManifestIsSound, Artifacts

\* What was received is separate.
LEMMA ReceivedIsSeparate ==
  ASSUME manifest \in Manifests, ManifestIsSound, Mine # {}
  PROVE  /\ \A p \in Received : p \in PathSet /\ CheckPath(p)
         /\ \A p, q \in Received : p # q => ~SameOrAbove(p, q)
  BY FirstIsSound, Documented DEF Received, ArtifactIsSound, Artifacts

LEMMA AcceptedIsSeparate == RulesInv => ItemsAreSeparate
<1> SUFFICES ASSUME RulesInv, verdict = "accepted" PROVE ItemsAreSeparate
  BY DEF ItemsAreSeparate
<1>1. manifest \in Manifests /\ policy \in Policies /\ ManifestIsSound /\ Allows /\ Mine # {}
  BY DEF RulesInv, Allows
<1>2. /\ \A p \in Received : p \in PathSet /\ CheckPath(p)
      /\ \A p, q \in Received : p # q => ~SameOrAbove(p, q)
  BY <1>1, ReceivedIsSeparate
<1>3. CASE policy.kind = "files"
  <2>1. Items = Received /\ PortableAllows
    BY <1>1, <1>3 DEF Items, Allows
  <2>2. \A p \in Items : \A k \in DOMAIN p : Fold[p[k]] # Fold[StateDir]
    BY <1>2, <2>1 DEF CheckPath
  <2>3. Elements(policy.owned) \subseteq Items /\ policy.executable \in Received
    BY <2>1 DEF PortableAllows
  <2>4. ASSUME NEW p \in Items \ Elements(policy.owned)
        PROVE  /\ \E d \in Elements(policy.expandable) : p # d /\ SameOrAbove(d, p)
               /\ \A o \in Elements(policy.owned) : ~SameOrAbove(p, o) /\ ~SameOrAbove(o, p)
    <3>1. PICK d \in Elements(policy.expandable) : Beneath(p, d)
      BY <2>1, <2>4 DEF PortableAllows
    <3>2. d \in PathSet
      BY <1>1, <1>3, RulesAssumption DEF Elements
    <3>3. Len(p) \in Nat /\ Len(d) \in Nat /\ p # d
      BY <1>2, <2>1, <3>1, <3>2 DEF Beneath, PathSet
    <3>4. SameOrAbove(d, p)
      BY <3>1, <3>3 DEF Beneath, SameOrAbove
    <3>5. \A o \in Elements(policy.owned) : o \in Items /\ o # p
      BY <2>3, <2>4
    <3> QED BY <1>2, <2>1, <3>3, <3>4, <3>5
  <2> QED BY <1>2, <2>1, <2>2, <2>3, <2>4 DEF ItemsAreSeparate
<1>4. CASE policy.kind = "mac_bundle"
  <2>1. Items = {<<policy.bundle>>} /\ BundleAllows
    BY <1>1, <1>4 DEF Items, Allows
  <2>2. Fold[policy.bundle] # Fold[StateDir]
    BY <2>1 DEF BundleAllows, CheckPath
  <2> QED BY <1>4, <2>1, <2>2 DEF ItemsAreSeparate, BundleAllows
<1> QED BY <1>1, <1>3, <1>4, RulesAssumption

-----------------------------------------------------------------------------
\* ReleaseManifest::validate accepts a manifest exactly when no two of its files are one on
\* a file system that ignores case, and none is a folder of another
\* (src/src/manifest.rs:57-92).
THEOREM WalkIsRight == Spec => []VerdictIsRight
<1>1. RulesInv => VerdictIsRight
  BY DEF RulesInv, VerdictIsRight
<1> QED BY RulesInvInit, RulesInvStep, <1>1, PTL DEF Spec

\* The places an accepted update replaces do not touch each other, or the state directory,
\* or a file the application owns and did not list (src/src/install.rs:73-162).
THEOREM ItemsStayApart == Spec => []ItemsAreSeparate
  BY RulesInvInit, RulesInvStep, AcceptedIsSeparate, PTL DEF Spec
================================================================================
