----------------------- MODULE MCInstallTransaction -----------------------
(***************************************************************************)
(* Small instances of InstallTransaction: two releases, one that replaces  *)
(* an executable and one that also adds a library, next to a settings file *)
(* of the user that neither names; or the one directory of a bundle.       *)
(***************************************************************************)
EXTENDS InstallTransaction, TLC

CONSTANTS exe, lib, ini, app,           \* items
          r1, r2,                       \* releases
          t1, t2, t3,                   \* tokens
          old, user                     \* what is installed at the start

PortableItems == {exe, lib, ini}
PortableInventory == r1 :> {exe} @@ r2 :> {exe, lib}
PortableInstalled == exe :> old @@ lib :> Absent @@ ini :> user

BundleItems == {app, ini}
BundleInventory == r1 :> {app} @@ r2 :> {app}
BundleInstalled == app :> old @@ ini :> user

TwoReleases == {r1, r2}
AllContents == {r1, r2, old, user, Absent, Damaged}

TwoTokens == {t1, t2}
ReleaseOfTwo == t1 :> r2 @@ t2 :> r1

\* t1 and t2 install the same release, so that a helper of one verifies the
\* stage of the other.
ThreeTokens == {t1, t2, t3}
ReleaseOfThree == t1 :> r2 @@ t2 :> r2 @@ t3 :> r1
=============================================================================
