--------------------------- MODULE MCSharedFolder ---------------------------
(* Releases of two files.  The second changes the program only, so that the *)
(* library is right before it is published; the first is of another channel. *)
EXTENDS SharedFolder

MCFiles == {"exe", "library"}
MCContent == [v \in Releases |->
                [exe |-> v, library |-> IF v = 2 THEN 1 ELSE v]]
MCListed == [v \in Releases |-> <<"library", "exe">>]
MCSuits == {2, 3}
=============================================================================
