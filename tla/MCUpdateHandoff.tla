-------------------------- MODULE MCUpdateHandoff --------------------------
(***************************************************************************)
(* A small instance of UpdateHandoff: one program file and two handoffs of  *)
(* the same release, so that the helper of one can take the other for its   *)
(* own, and the program's hash does not tell them apart.                    *)
(***************************************************************************)
EXTENDS UpdateHandoff, TLC

CONSTANTS exe, r1, t1, t2, old

OneItem == {exe}
OneInventory == r1 :> {exe}
OldInstalled == exe :> old
OneRelease == {r1}
AllContents == {r1, old, Absent, Damaged}
TwoTokens == {t1, t2}
ReleaseOfAll == t1 :> r1 @@ t2 :> r1
OneProgram == r1 :> {r1}
=============================================================================
