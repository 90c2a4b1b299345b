------------------------ MODULE MCReleaseDiscovery ------------------------
(***************************************************************************)
(* A small instance of ReleaseDiscovery: up to four entries are accepted, a *)
(* list of five is too long; three locations, so that repeats occur; 1 is   *)
(* installed and version 4 is a pre-release.                               *)
(***************************************************************************)
EXTENDS ReleaseDiscovery, SequencesExt

CONSTANTS l1, l2, l3, a, b

ThreeLocations == {l1, l2, l3}
MaxPairs == 5
ShortLists == BoundedSeq(ThreeLocations, MaxPairs)
TwoNotes == {a, b}
Manifest(k, v, n) == [kind |-> k, version |-> v, notes |-> n]
SomeManifests == {Manifest("ours", v, n) : v \in {2, 3}, n \in TwoNotes}
                 \cup {Manifest("ours", v, a) : v \in {1, 4}}
                 \cup {Manifest(k, 3, a) : k \in {"foreign", "untargeted"}}
Four == {4}
=============================================================================
