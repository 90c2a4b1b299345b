------------------------ MODULE MCPackagePreparation ------------------------
(***************************************************************************)
(* A small instance of PackagePreparation: an executable and a library in a  *)
(* directory, and every archive of up to three entries, among them ones that *)
(* are unlisted, repeated, too long, too short or altered.                  *)
(***************************************************************************)
EXTENDS PackagePreparation, SequencesExt, TLC

CONSTANTS exe, lib, sub, other

FourPaths == {exe, lib, sub, other}
BelowSub == exe :> {} @@ lib :> {} @@ sub :> {lib} @@ other :> {}

File(p, s, d, r) == [kind |-> "file", path |-> p, size |-> s, data |-> d, right |-> r]
Thing(k, p) == [kind |-> k, path |-> p, size |-> 0, data |-> 0, right |-> FALSE]
SomeEntries ==
  {File(exe, 1, 1, TRUE), File(lib, 2, 2, TRUE),
   File(lib, 2, 2, FALSE),                       \* another content
   File(lib, 1, 2, TRUE),                        \* another size than listed
   File(exe, 1, 0, FALSE), File(exe, 1, 2, FALSE), \* another size than it says
   File(other, 1, 1, TRUE),                      \* not listed
   Thing("dir", sub), Thing("dir", other), Thing("other", exe)}

MaxEntries == 3
SomeArchives == BoundedSeq(SomeEntries, MaxEntries)
               \cup {<<File(exe, 1, 1, TRUE), File(lib, 3, 3, TRUE)>>}
Lists(n) == exe :> 1 @@ lib :> n @@ sub :> Unlisted @@ other :> Unlisted

\* One that is as it should be, one that is too long to download, and one that
\* is too long to unpack.
SomePackages == {[size |-> 2, files |-> Lists(2)], [size |-> 4, files |-> Lists(2)],
                 [size |-> 2, files |-> Lists(3)]}
=============================================================================
