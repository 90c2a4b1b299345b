------------------------------ MODULE PackageRules ------------------------------
(***************************************************************************)
(* What an update may consist of: ReleaseManifest::validate                 *)
(* (src/src/manifest.rs), which walks a manifest artifact by artifact and    *)
(* file by file, and then InstallPolicy::validate (src/src/install.rs), which *)
(* compares the artifact for this target with what the application allows.  *)
(* A path is the sequence of its parts.                                     *)
(***************************************************************************)
EXTENDS Integers, Sequences

CONSTANTS
  Names, Fold,      \* parts of paths, and to_ascii_lowercase on them
  Unsafe,           \* what the grammar refuses for a part: "..", devices, streams, ...
  StateDir,         \* ".freshen"
  Apps,             \* those that end in ".app"
  Begins,           \* the <<a, b>> for which the text of a is a proper prefix of that of b
  Manifests, Policies,
  Target,           \* of this installation
  OnMac             \* cfg!(target_os = "macos")

PathSet == Seq(Names)
ASSUME RulesAssumption ==
  /\ Fold \in [Names -> Names] /\ OnMac \in BOOLEAN
  /\ \A m \in Manifests :
       /\ m.head \in BOOLEAN /\ DOMAIN m.artifacts = 1 .. Len(m.artifacts) /\ Len(m.artifacts) \in Nat
       /\ \A a \in DOMAIN m.artifacts :
            LET files == m.artifacts[a].files IN
              /\ m.artifacts[a].head \in BOOLEAN
              /\ DOMAIN files = 1 .. Len(files) /\ Len(files) \in Nat
              /\ \A k \in DOMAIN files : files[k].path \in PathSet /\ files[k].hash \in BOOLEAN
  /\ \A p \in Policies : /\ p.kind \in {"files", "mac_bundle"}
                         /\ p.kind = "files" => \A d \in DOMAIN p.expandable : p.expandable[d] \in PathSet

VARIABLES
  manifest, policy,   \* the documents under test
  art, file,          \* the artifact and the file validate is at
  targets, paths,     \* its sets of the targets, and of the lowercased paths of one artifact
  verdict
vars == <<manifest, policy, art, file, targets, paths, verdict>>

\* Manifests: [head, artifacts], where head says that schema, product and channel are in
\* order, and an artifact is [target, kind, head, files], head for its size and hash; a
\* file is [path, hash], where hash says whether it is well formed.
Artifact == manifest.artifacts[art]
Files == Artifact.files
Lower(path) == [k \in DOMAIN path |-> Fold[path[k]]]
Above(path) == {SubSeq(path, 1, n) : n \in 1 .. Len(path) - 1}

CheckPath(path) ==
  path # <<>> /\ \A k \in DOMAIN path : path[k] \notin Unsafe /\ Fold[path[k]] # Fold[StateDir]

Init == /\ manifest \in Manifests /\ policy \in Policies
        /\ art = 1 /\ file = 0 /\ targets = {} /\ paths = {}
        /\ verdict = IF manifest.head THEN "checking" ELSE "invalid"

Checking == verdict = "checking" /\ art <= Len(manifest.artifacts)
Documents == <<manifest, policy>>

\* The head of an artifact; file 0.
OpensArtifact ==
  /\ Checking /\ file = 0
  /\ LET fine == Artifact.target \notin targets /\ Artifact.head /\ Files # <<>> IN
       /\ verdict' = IF fine THEN verdict ELSE "invalid"
       /\ file' = IF fine THEN 1 ELSE file
  /\ targets' = targets \cup {Artifact.target} /\ paths' = {}
  /\ UNCHANGED <<Documents, art>>

ChecksFile ==
  /\ Checking /\ file \in 1 .. Len(Files)
  /\ LET path == Files[file].path
         fine == CheckPath(path) /\ Files[file].hash /\ Lower(path) \notin paths IN
       /\ verdict' = IF fine THEN verdict ELSE "invalid"
       /\ paths' = IF fine THEN paths \cup {Lower(path)} ELSE paths
       /\ file' = IF fine THEN file + 1 ELSE file
  /\ UNCHANGED <<Documents, art, targets>>

\* Mutant: only the folder a file is directly in is looked up.
NestedDirectly == \E path \in paths : Len(path) > 1 /\ SubSeq(path, 1, Len(path) - 1) \in paths
\* A file that is a folder of another.
Nested == \E path \in paths : \E up \in Above(path) : up \in paths

ClosesArtifact ==
  /\ Checking /\ file > Len(Files)
  /\ verdict' = IF Nested THEN "invalid" ELSE verdict
  /\ art' = IF Nested THEN art ELSE art + 1
  /\ file' = IF Nested THEN file ELSE 0
  /\ UNCHANGED <<Documents, targets, paths>>

Validated ==
  /\ verdict = "checking" /\ art > Len(manifest.artifacts) /\ verdict' = "valid"
  /\ UNCHANGED <<Documents, art, file, targets, paths>>

-----------------------------------------------------------------------------
(* The policy: [kind, fields, owned, executable, expandable] for a folder of   *)
(* files, [kind, fields, bundle, executable] for a bundle; fields stands for    *)
(* the timeouts and the signing identity.                                     *)

\* The first artifact for this target.
Mine == {a \in DOMAIN manifest.artifacts : manifest.artifacts[a].target = Target}
First == CHOOSE a \in Mine : \A b \in Mine : a <= b
Received == {manifest.artifacts[First].files[k].path : k \in DOMAIN manifest.artifacts[First].files}

\* Mutant: any path that begins with the text of the directory's name.
BeneathText(path, dir) ==
  /\ Len(path) >= Len(dir) /\ dir # <<>>
  /\ \A k \in 1 .. Len(dir) - 1 : path[k] = dir[k]
  /\ path[Len(dir)] = dir[Len(dir)] \/ <<dir[Len(dir)], path[Len(dir)]>> \in Begins
\* strip_prefix leaves a suffix that starts with a slash.
Beneath(path, dir) == Len(path) > Len(dir) /\ \A k \in DOMAIN dir : path[k] = dir[k]

Elements(s) == {s[k] : k \in DOMAIN s}
Distinct(s) == \A i, j \in DOMAIN s : s[i] = s[j] => i = j

PortableAllows ==
  /\ manifest.artifacts[First].kind = "files"
  /\ \A p \in Elements(policy.owned) \cup Elements(policy.expandable) : CheckPath(p)
  /\ Distinct(policy.owned) /\ Elements(policy.owned) \subseteq Received
  /\ \A p \in Received \ Elements(policy.owned) : \E d \in Elements(policy.expandable) : Beneath(p, d)
  /\ policy.executable \in Elements(policy.owned)

BundleAllows ==
  /\ OnMac /\ policy.bundle \in Apps /\ manifest.artifacts[First].kind = "mac_bundle"
  /\ CheckPath(<<policy.bundle>>) /\ CheckPath(policy.executable)
  /\ Beneath(policy.executable, <<policy.bundle, "Contents", "MacOS">>)
  /\ \A p \in Received : Beneath(p, <<policy.bundle>>)
  /\ policy.executable \in Received

Allows == /\ Mine # {} /\ policy.fields
          /\ policy.kind = "files" => PortableAllows
          /\ policy.kind = "mac_bundle" => BundleAllows

Decides ==
  /\ verdict = "valid" /\ verdict' = IF Allows THEN "accepted" ELSE "refused"
  /\ UNCHANGED <<Documents, art, file, targets, paths>>

\* items: what apply replaces in the installation.
Items == IF policy.kind = "files" THEN Received ELSE {<<policy.bundle>>}

Next == OpensArtifact \/ ChecksFile \/ ClosesArtifact \/ Validated \/ Decides
Spec == Init /\ [][Next]_vars

-----------------------------------------------------------------------------
\* What the walk decides is what a file system that ignores case needs, stated without the
\* walk: every artifact has its own target, and in each no path names the same file as
\* another, or a folder that another needs, and none is in the state directory.
SameOrAbove(p, q) == Len(p) <= Len(q) /\ \A k \in DOMAIN p : Fold[p[k]] = Fold[q[k]]
ArtifactIsSound(a) ==
  /\ a.head /\ a.files # <<>>
  /\ \A i \in DOMAIN a.files : CheckPath(a.files[i].path) /\ a.files[i].hash
  /\ \A i, j \in DOMAIN a.files : i # j => ~SameOrAbove(a.files[i].path, a.files[j].path)
ManifestIsSound ==
  /\ manifest.head
  /\ \A a \in DOMAIN manifest.artifacts :
       /\ ArtifactIsSound(manifest.artifacts[a])
       /\ \A b \in DOMAIN manifest.artifacts :
            a # b => manifest.artifacts[a].target # manifest.artifacts[b].target
VerdictIsRight == /\ verdict \in {"valid", "accepted", "refused"} => ManifestIsSound
                  /\ verdict = "invalid" => ~ManifestIsSound

\* What an accepted update replaces are separate places, none of them in the state
\* directory, whatever the case a file system ignores; a file the application did not name
\* is in a folder it did name, and can be neither a file it owns nor a folder of one.
ItemsAreSeparate ==
  verdict = "accepted" =>
    /\ \A p \in Items : \A k \in DOMAIN p : Fold[p[k]] # Fold[StateDir]
    /\ \A p, q \in Items : p # q => ~SameOrAbove(p, q)
    /\ policy.kind = "files" =>
         /\ Elements(policy.owned) \subseteq Items
         /\ \A p \in Items \ Elements(policy.owned) :
              /\ \E d \in Elements(policy.expandable) : p # d /\ SameOrAbove(d, p)
              /\ \A o \in Elements(policy.owned) : ~SameOrAbove(p, o) /\ ~SameOrAbove(o, p)
    /\ policy.executable \in Received
=============================================================================
