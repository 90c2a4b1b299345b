------------------------------- MODULE ReleaseTool -------------------------------
(***************************************************************************)
(* freshen-release (src/src/bin/release.rs): pack makes a ZIP and a manifest  *)
(* of a directory, merge joins the manifests of several targets and sign     *)
(* signs the result.  Every command is a process of its own that reads and    *)
(* writes files step by step, beside others and beside whoever builds the    *)
(* directory; none of them overwrites a file.                               *)
(***************************************************************************)
EXTENDS Integers, FiniteSets

CONSTANTS
  Targets, Packs, TargetOf,  \* runs of pack, each for the directory and outputs of a target
  Files, Bytes, Size,        \* what a file can hold, and the length of that
  Notes,                     \* of a release, which may be added before it is signed
  Absent,                    \* no file, no output
  MaxEdits, Faults           \* "crash", "io"

VARIABLES
  dir,         \* dir[t][f]: what the directory of t holds at f
  edits,
  pack,        \* the runs of pack
  zip,         \* zip[t]: its entries, and whether it is finished
  single,      \* single[t]: the manifest pack wrote
  merged, signature
vars == <<dir, edits, pack, zip, single, merged, signature>>

Contents == UNION {[fs -> Bytes] : fs \in SUBSET Files}
Packages == [entries : Contents, whole : BOOLEAN]

ASSUME ToolAssumption == /\ TargetOf \in [Packs -> Targets] /\ MaxEdits \in Nat
                         /\ Size \in [Bytes -> Nat] /\ Absent \notin Bytes
                         /\ Absent \notin Packages

Started == [at |-> "collect", todo |-> {}, size |-> 0, list |-> <<>>, touched |-> {}]
NoList == [f \in {} |-> 0]

Init == /\ dir \in [Targets -> [Files -> Bytes]] /\ edits = 0
        /\ pack = [p \in Packs |-> [Started EXCEPT !.list = NoList]]
        /\ zip = [t \in Targets |-> Absent] /\ single = zip
        /\ merged = Absent /\ signature = Absent

\* The paths are sorted: one order, the same for every run.
NextOf(fs) == CHOOSE f \in fs : TRUE
Present(t) == {f \in Files : dir[t][f] # Absent}
Put(list, f, entry) == [g \in DOMAIN list \cup {f} |-> IF g = f THEN entry ELSE list[g]]
Goes(p, changes) == pack' = [pack EXCEPT ![p] = changes]
Mine(p) == TargetOf[p]

-----------------------------------------------------------------------------
(* Whoever builds the directory. *)

\* Files the manifest of a run speaks of that are not in its package yet.
Exposed(p) == IF pack[p].at \in {"stat", "hash", "create"} THEN DOMAIN pack[p].list
              ELSE IF pack[p].at = "zip" THEN pack[p].todo ELSE {}

\* touched is not known to pack: it tells which files were changed under it.
Edits(t, f) ==
  /\ edits < MaxEdits /\ edits' = edits + 1
  /\ \E b \in Bytes \cup {Absent} : b # dir[t][f] /\ dir' = [dir EXCEPT ![t][f] = b]
  /\ pack' = [p \in Packs |-> IF Mine(p) = t /\ f \in Exposed(p)
                                THEN [pack[p] EXCEPT !.touched = @ \cup {f}] ELSE pack[p]]
  /\ UNCHANGED <<zip, single, merged, signature>>

-----------------------------------------------------------------------------
(* pack *)

Outputs == <<zip, single, merged, signature>>

\* collect_files; a manifest without files is not valid.
Collects(p) ==
  /\ pack[p].at = "collect"
  /\ Goes(p, [pack[p] EXCEPT !.at = IF Present(Mine(p)) = {} THEN "failed" ELSE "stat",
                             !.todo = Present(Mine(p))])
  /\ UNCHANGED <<dir, edits, Outputs>>

\* The length is read first, the contents after that.
Stats(p, f) ==
  /\ pack[p].at = "stat" /\ f = NextOf(pack[p].todo) /\ dir[Mine(p)][f] # Absent
  /\ Goes(p, [pack[p] EXCEPT !.at = "hash", !.todo = @ \ {f}, !.size = Size[dir[Mine(p)][f]],
                             !.list = Put(@, f, [size |-> 0, hash |-> Absent])])
  /\ UNCHANGED <<dir, edits, Outputs>>

Hashes(p, f) ==
  /\ pack[p].at = "hash" /\ f \in DOMAIN pack[p].list /\ pack[p].list[f].hash = Absent
  /\ dir[Mine(p)][f] # Absent
  /\ Goes(p, [pack[p] EXCEPT !.at = IF pack[p].todo = {} THEN "create" ELSE "stat",
                             !.list = Put(@, f, [size |-> pack[p].size, hash |-> dir[Mine(p)][f]])])
  /\ UNCHANGED <<dir, edits, Outputs>>

\* Mutant: an existing package is replaced.
CreatesAnyway(p) ==
  /\ pack[p].at = "create"
  /\ zip' = [zip EXCEPT ![Mine(p)] = [entries |-> NoList, whole |-> FALSE]]
  /\ Goes(p, [pack[p] EXCEPT !.at = "zip", !.todo = DOMAIN pack[p].list])
  /\ UNCHANGED <<dir, edits, single, merged, signature>>

\* create_new.
Creates(p) ==
  /\ pack[p].at = "create" /\ zip[Mine(p)] = Absent
  /\ zip' = [zip EXCEPT ![Mine(p)] = [entries |-> NoList, whole |-> FALSE]]
  /\ Goes(p, [pack[p] EXCEPT !.at = "zip", !.todo = DOMAIN pack[p].list])
  /\ UNCHANGED <<dir, edits, single, merged, signature>>

\* Mutant: a file that has gone is passed over.
AddsIfThere(p, f) ==
  /\ pack[p].at = "zip" /\ pack[p].todo # {} /\ f = NextOf(pack[p].todo)
  /\ zip' = IF dir[Mine(p)][f] = Absent THEN zip
              ELSE [zip EXCEPT ![Mine(p)].entries = Put(@, f, dir[Mine(p)][f])]
  /\ Goes(p, [pack[p] EXCEPT !.todo = @ \ {f}])
  /\ UNCHANGED <<dir, edits, single, merged, signature>>

\* The directory is read again.
Adds(p, f) ==
  /\ pack[p].at = "zip" /\ pack[p].todo # {} /\ f = NextOf(pack[p].todo) /\ dir[Mine(p)][f] # Absent
  /\ zip' = [zip EXCEPT ![Mine(p)].entries = Put(@, f, dir[Mine(p)][f])]
  /\ Goes(p, [pack[p] EXCEPT !.todo = @ \ {f}])
  /\ UNCHANGED <<dir, edits, single, merged, signature>>

Finishes(p) ==
  /\ pack[p].at = "zip" /\ pack[p].todo = {}
  /\ zip' = [zip EXCEPT ![Mine(p)].whole = TRUE]
  /\ Goes(p, [pack[p] EXCEPT !.at = "describe"])
  /\ UNCHANGED <<dir, edits, single, merged, signature>>

\* The package's hash and length, then write_new.
Describes(p) ==
  /\ pack[p].at = "describe" /\ single[Mine(p)] = Absent
  /\ single' = [single EXCEPT ![Mine(p)] =
                  [list |-> pack[p].list, package |-> zip[Mine(p)], touched |-> pack[p].touched]]
  /\ Goes(p, [pack[p] EXCEPT !.at = "done"])
  /\ UNCHANGED <<dir, edits, zip, merged, signature>>

\* A file has gone, an output is there already, a read or a write fails, or the process
\* ends: what it has written stays as it is.  (Half a manifest does not parse: it is none.)
Fails(p) ==
  /\ \/ pack[p].at \in {"collect", "stat", "hash", "create", "zip", "describe"} /\ Faults # {}
     \/ pack[p].at = "create" /\ zip[Mine(p)] # Absent
     \/ pack[p].at = "describe" /\ single[Mine(p)] # Absent
     \/ \E f \in Files : /\ dir[Mine(p)][f] = Absent
                         /\ \/ pack[p].at \in {"stat", "zip"} /\ f \in pack[p].todo
                            \/ /\ pack[p].at = "hash" /\ f \in DOMAIN pack[p].list
                               /\ pack[p].list[f].hash = Absent
  /\ Goes(p, [pack[p] EXCEPT !.at = "failed"])
  /\ UNCHANGED <<dir, edits, Outputs>>

-----------------------------------------------------------------------------
(* merge and sign *)

\* One target's manifest is also a release of its own; more are joined, each target once.
Merges(ts) ==
  /\ merged = Absent /\ ts # {} /\ \A t \in ts : single[t] # Absent
  /\ merged' = [artifacts |-> [t \in ts |-> single[t]], notes |-> Absent]
  /\ UNCHANGED <<dir, edits, pack, zip, single, signature>>

\* The publisher adds notes to the file.
AddsNotes(n) ==
  /\ merged # Absent /\ merged.notes # n /\ merged' = [merged EXCEPT !.notes = n]
  /\ UNCHANGED <<dir, edits, pack, zip, single, signature>>

Signs == /\ merged # Absent /\ signature = Absent /\ signature' = merged
         /\ UNCHANGED <<dir, edits, pack, zip, single, merged>>

Next ==
  \/ \E t \in Targets, f \in Files : Edits(t, f)
  \/ \E p \in Packs :
       \/ Collects(p) \/ Creates(p) \/ Finishes(p) \/ Describes(p) \/ Fails(p)
       \/ \E f \in Files : Stats(p, f) \/ Hashes(p, f) \/ Adds(p, f)
  \/ \E ts \in SUBSET Targets : Merges(ts)
  \/ \E n \in Notes : AddsNotes(n)
  \/ Signs

Spec == Init /\ [][Next]_vars

-----------------------------------------------------------------------------
\* A signature that is there verifies a manifest that still describes the packages it was
\* made for: they are finished, and no later run has replaced one.
SignedDescribesPackages ==
  signature # Absent =>
    \A t \in DOMAIN signature.artifacts :
      signature.artifacts[t].package = zip[t] /\ zip[t].whole

\* The manifest has the length and the hash of the file as it is in the package, which is
\* what extract compares (PackagePreparation).
AgreesOn(manifest, entries, f) ==
  manifest.list[f] = [size |-> Size[entries[f]], hash |-> entries[f]]

\* pack reads every file three times and checks nothing: a signed manifest lists the files of
\* its package, and it may be wrong about a file only if that very file was changed after its
\* length was read and before it was put into the package.  No other change, failure or run
\* beside this one makes a release that extract refuses.  (The limits of prepare on the sizes
\* of a package are settings of the updater, which pack does not know.)
OnlyTouchedFilesDiffer ==
  signature # Absent =>
    \A t \in DOMAIN signature.artifacts :
      LET m == signature.artifacts[t] IN
        /\ DOMAIN m.list = DOMAIN zip[t].entries
        /\ \A f \in DOMAIN m.list \ m.touched : AgreesOn(m, zip[t].entries, f)

-----------------------------------------------------------------------------
(* The inductive invariant. *)

Sizes == {0} \cup {Size[b] : b \in Bytes}
Lists == UNION {[fs -> [size : Sizes, hash : Bytes \cup {Absent}]] : fs \in SUBSET Files}
Runs == [at : {"collect", "stat", "hash", "create", "zip", "describe", "done", "failed"},
         todo : SUBSET Files, size : Sizes, list : Lists, touched : SUBSET Files]
Manifests == [list : Lists, package : Packages, touched : SUBSET Files]

ToolTypeOK ==
  /\ dir \in [Targets -> [Files -> Bytes \cup {Absent}]]
  /\ pack \in [Packs -> Runs]
  /\ zip \in [Targets -> Packages \cup {Absent}]
  /\ single \in [Targets -> Manifests \cup {Absent}]

\* Only the run that created a package writes to it.
Owns(p) == pack[p].at \in {"zip", "describe", "done"}
OneOwner == /\ \A p \in Packs : Owns(p) => zip[Mine(p)] # Absent
            /\ \A p, q \in Packs : Owns(p) /\ Owns(q) /\ Mine(p) = Mine(q) => p = q

\* The list of a run and the package it is writing.
Unhashed(p) == {f \in DOMAIN pack[p].list : pack[p].list[f].hash = Absent}
Pending(p) ==
  /\ pack[p].at = "collect" => pack[p].list = NoList
  /\ pack[p].at = "stat" => pack[p].todo # {}
  /\ pack[p].at \in {"stat", "create", "zip", "describe"} => Unhashed(p) = {}
  /\ pack[p].at = "hash" => \A f, g \in Unhashed(p) : f = g
  /\ pack[p].at = "zip" => DOMAIN zip[Mine(p)].entries \cup pack[p].todo = DOMAIN pack[p].list
  /\ pack[p].at = "describe" =>
       zip[Mine(p)].whole /\ DOMAIN zip[Mine(p)].entries = DOMAIN pack[p].list
\* Files that nobody touched are as they were when they were listed.
ListIsRight(p) ==
  /\ \A f \in Exposed(p) \ pack[p].touched :
       IF f \in Unhashed(p) THEN pack[p].size = Size[dir[Mine(p)][f]]
         ELSE AgreesOn(pack[p], dir[Mine(p)], f)
  /\ pack[p].at \in {"zip", "describe"} =>
       \A f \in DOMAIN zip[Mine(p)].entries \ pack[p].touched :
         AgreesOn(pack[p], zip[Mine(p)].entries, f)

\* What a manifest says of a package nobody writes to any more.
IsDescribedBy(m, t) ==
  /\ m.package = zip[t] /\ zip[t].whole
  /\ \E p \in Packs : Mine(p) = t /\ pack[p].at = "done"
  /\ DOMAIN m.list = DOMAIN zip[t].entries
  /\ \A f \in DOMAIN m.list \ m.touched : AgreesOn(m, zip[t].entries, f)
DescribesAll(m) == m # Absent => \A t \in DOMAIN m.artifacts : t \in Targets /\ IsDescribedBy(m.artifacts[t], t)

ToolInv ==
  /\ ToolTypeOK /\ OneOwner
  /\ \A p \in Packs : Pending(p) /\ ListIsRight(p)
  /\ \A t \in Targets : single[t] # Absent => IsDescribedBy(single[t], t)
  /\ DescribesAll(merged) /\ DescribesAll(signature)

=============================================================================
