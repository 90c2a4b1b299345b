----------------------------- MODULE MCReleaseTool -----------------------------
(* Two runs of pack for the same outputs, and one for another target.             *)
EXTENDS ReleaseTool, TLC

CONSTANTS t1, t2, p1, p2, p3
OneTwice == p1 :> t1 @@ p2 :> t1 @@ p3 :> t2
Lengths == "old" :> 1 @@ "long" :> 2
SameOutputs == Permutations({p1, p2})
=============================================================================
