-------------------------- MODULE ReleaseDiscovery --------------------------
(***************************************************************************)
(* Updater::check (src/src/updater.rs): read every listed manifest once,    *)
(* keep the newest release that is ours, and collect the notes of all that  *)
(* are newer than what is installed.                                       *)
(*                                                                         *)
(* A manifest is what its document and signature say together; a location  *)
(* whose fetch or verification fails holds Bad.  What a location serves is  *)
(* decided when it is read, since a feed may change between two reads.      *)
(***************************************************************************)
EXTENDS Integers, Sequences

CONSTANTS
  Locations,    \* pairs of a document and a signature URL
  Lists,        \* the sequences of locations a ReleaseSource can yield
  ListLimit,    \* the longest list that is accepted (100 in the code)
  Manifests,    \* verified manifests: records [kind, version, notes]
  Notes,
  PreReleases,  \* the versions with a pre-release part
  Current,      \* current_version
  Stable,       \* is the updater's channel "stable"?
  Bad, NotRead, Nothing

ASSUME ManifestsAssumption ==
  /\ Manifests \subseteq [kind : {"ours", "foreign", "untargeted"},
                          version : Nat, notes : Notes]
  /\ {Bad, NotRead} \cap Manifests = {} /\ Bad # NotRead
  /\ Nothing \notin Notes /\ Nothing \notin Locations
  /\ Current \in Nat
ASSUME ListsAssumption == Lists \subseteq Seq(Locations) /\ ListLimit \in Nat

VARIABLES
  pairs,        \* the locations to read, in order, once they are known;
                \* repeats are possible
  at,           \* index of the next one
  seen,         \* the locations read so far
  got,          \* what was read there
  history,      \* notes by version, Nothing for a version without
  best,         \* location of the best candidate so far
  result,       \* "listing", "running", "done", "error" or "cancelled"
  cancelled     \* the Cancellation, set by another thread

vars == <<pairs, at, seen, got, history, best, result, cancelled>>

Newer == {m.version : m \in Manifests}

TypeOK ==
  /\ pairs \in Lists \cup {<<>>} /\ at \in 1 .. Len(pairs) + 1
  /\ Len(pairs) <= ListLimit
  /\ seen \subseteq Locations
  /\ got \in [Locations -> Manifests \cup {Bad, NotRead}]
  /\ history \in [Newer -> Notes \cup {Nothing}]
  /\ best \in Locations \cup {Nothing}
  /\ result \in {"listing", "running", "done", "error", "cancelled"}
  /\ cancelled \in BOOLEAN

Init ==
  /\ pairs = <<>> /\ at = 1 /\ seen = {}
  /\ got = [l \in Locations |-> NotRead]
  /\ history = [v \in Newer |-> Nothing]
  /\ best = Nothing /\ result = "listing" /\ cancelled = FALSE

\* Right product, channel and target, newer, and no pre-release on "stable".
Eligible(m) == /\ m \in Manifests
               /\ m.kind = "ours" /\ m.version > Current
               /\ Stable => m.version \notin PreReleases

Cancels == /\ ~cancelled /\ result \in {"listing", "running"}
           /\ cancelled' = TRUE
           /\ UNCHANGED <<pairs, at, seen, got, history, best, result>>

\* Checked on entry, at the head of the loop and all through a download.
Stops == /\ cancelled
         /\ result = "listing" \/ (result = "running" /\ at <= Len(pairs))
         /\ result' = "cancelled"
         /\ UNCHANGED <<pairs, at, seen, got, history, best, cancelled>>

\* The index or the release list is fetched, where the source has one.
Obtains(list) == /\ result = "listing" /\ Len(list) <= ListLimit
                 /\ pairs' = list /\ result' = "running"
                 /\ UNCHANGED <<at, seen, got, history, best, cancelled>>

\* No list, or one that is too long.
ListFails == /\ result = "listing" /\ result' = "error"
             /\ UNCHANGED <<pairs, at, seen, got, history, best, cancelled>>

AtNext == result = "running" /\ ~cancelled /\ at <= Len(pairs)

SkipRepeat == /\ AtNext /\ pairs[at] \in seen
              /\ at' = at + 1
              /\ UNCHANGED <<pairs, seen, got, history, best, result, cancelled>>

Reads(m) == /\ AtNext /\ pairs[at] \notin seen
            /\ seen' = seen \cup {pairs[at]}
            /\ got' = [got EXCEPT ![pairs[at]] = m]

\* One bad location fails the whole check.
ReadFails == /\ Reads(Bad)
             /\ result' = "error"
             /\ UNCHANGED <<pairs, at, history, best, cancelled>>

Ignores(m) == /\ ~Eligible(m) /\ Reads(m)
              /\ at' = at + 1
              /\ UNCHANGED <<pairs, history, best, result, cancelled>>

\* Mutant: a version that was seen before is a conflict, whatever its notes.
ConflictsAlways(m) == Eligible(m) /\ history[m.version] # Nothing
Conflicts(m) == Eligible(m) /\ history[m.version] \notin {Nothing, m.notes}

Refuses(m) == /\ Conflicts(m) /\ Reads(m)
              /\ result' = "error"
              /\ UNCHANGED <<pairs, at, history, best, cancelled>>

\* Mutant: on equal versions the later manifest wins.
ImprovesOrTies(m) == best = Nothing \/ got[best].version <= m.version
\* Mutant: the first candidate stays.
ImprovesOnce(m) == best = Nothing
Improves(m) == best = Nothing \/ got[best].version < m.version

\* Mutant: notes are kept for a better candidate only.
NotesIfBetter(m) == IF Improves(m) THEN [history EXCEPT ![m.version] = m.notes] ELSE history
WithNotes(m) == [history EXCEPT ![m.version] = m.notes]

Takes(m) == /\ Eligible(m) /\ ~Conflicts(m) /\ Reads(m)
            /\ history' = WithNotes(m)
            /\ best' = IF Improves(m) THEN pairs[at] ELSE best
            /\ at' = at + 1
            /\ UNCHANGED <<pairs, result, cancelled>>

\* After the last location nothing looks at the Cancellation any more.
Finishes == /\ result = "running" /\ at > Len(pairs)
            /\ result' = "done"
            /\ UNCHANGED <<pairs, at, seen, got, history, best, cancelled>>

Next == \/ Cancels \/ Stops \/ ListFails \/ SkipRepeat \/ ReadFails \/ Finishes
        \/ \E list \in Lists : Obtains(list)
        \/ \E m \in Manifests : Ignores(m) \/ Refuses(m) \/ Takes(m)

Spec == Init /\ [][Next]_vars

-----------------------------------------------------------------------------
(* Properties: the result as a definition over what was read, whatever the    *)
(* order it was read in.                                                   *)

Found == {l \in Locations : got[l] \in Manifests /\ Eligible(got[l])}
Listed == {pairs[k] : k \in 1 .. Len(pairs)}

\* A completed check offers the newest eligible release of all that are listed,
\* and nothing only when there is none.
BestIsNewest ==
  result = "done" =>
    /\ \A l \in Listed : got[l] \in Manifests
    /\ best = Nothing <=> Found = {}
    /\ best # Nothing => /\ best \in Found
                         /\ \A l \in Found : got[l].version <= got[best].version

\* The history of a completed check has the notes of exactly the eligible
\* releases; releases that disagree about one version do not get that far.
HistoryIsExact ==
  result = "done" =>
    /\ \A l \in Found : history[got[l].version] = got[l].notes
    /\ \A v \in Newer : history[v] # Nothing => \E l \in Found : got[l].version = v

\* Among manifests of the same version the one listed first is offered.
First(l) == CHOOSE k \in 1 .. Len(pairs) :
              pairs[k] = l /\ \A j \in 1 .. Len(pairs) : pairs[j] = l => k <= j
TiesGoToTheFirst ==
  result = "done" /\ best # Nothing =>
    \A l \in Found : got[l].version = got[best].version => First(best) <= First(l)

\* A check fails only for want of a list, for a bad location or for two releases
\* that disagree.
ErrorsAreJustified ==
  result = "error" =>
    \/ pairs = <<>>
    \/ \E l \in Listed : got[l] = Bad
    \/ \E k, l \in Found : /\ got[k].version = got[l].version
                           /\ got[k].notes # got[l].notes

\* A location is read once, so the result does not mix two states of a feed.
ReadOnce == [][\A l \in Locations : got[l] # NotRead => got'[l] = got[l]]_vars

-----------------------------------------------------------------------------
(* The loop invariant. *)

LoopInv ==
  /\ seen = {l \in Locations : got[l] # NotRead}
  /\ result \in {"listing", "running", "done"} =>
       /\ \A l \in seen : got[l] \in Manifests
       /\ \A k \in 1 .. at - 1 : pairs[k] \in seen
  /\ result = "done" => at = Len(pairs) + 1
  /\ result = "listing" => at = 1
  /\ result # "error" =>
       /\ best = Nothing <=> Found = {}
       /\ best # Nothing => /\ best \in Found
                            /\ \A l \in Found : got[l].version <= got[best].version
       /\ \A l \in Found : history[got[l].version] = got[l].notes
       /\ \A v \in Newer : history[v] # Nothing =>
            \E l \in Found : got[l].version = v /\ got[l].notes = history[v]

DiscoveryInv == TypeOK /\ LoopInv

\* k is the first of the indices read so far that holds location l.
FirstSoFar(k, l) == k \in 1 .. at - 1 /\ pairs[k] = l
                      /\ \A j \in 1 .. at - 1 : pairs[j] = l => k <= j

\* Every location that was read has a first place in the list, and no candidate as new as
\* the best one has an earlier one.
OrderInv ==
  /\ result = "listing" => pairs = <<>>
  /\ result \in {"listing", "running", "done"} =>
       /\ \A l \in seen : \E k \in 1 .. at - 1 : FirstSoFar(k, l)
       /\ best # Nothing =>
            \E k \in 1 .. at - 1 :
              /\ FirstSoFar(k, best)
              /\ \A l \in Found : got[l].version = got[best].version =>
                   \A j \in 1 .. at - 1 : pairs[j] = l => k <= j
  /\ ErrorsAreJustified
=============================================================================
