------------------------------ MODULE SingleUse ------------------------------
(***************************************************************************)
(* What the C interface promises of the two things a host may use once,    *)
(* without threads, options or pointers: an update that was prepared is     *)
(* armed at most once, a handoff comes of one such update and is cancelled  *)
(* at most once, and neither comes back when that fails.  The files of an   *)
(* update are there until it has been armed or freed.                       *)
(***************************************************************************)
CONSTANT Handles

VARIABLES life,              \* what a handle is good for
          files              \* the handles whose update has files on disk

vars == <<life, files>>

TypeOK == /\ life \in [Handles -> {"none", "update", "arming", "handoff", "cancelling", "spent"}]
          /\ files \subseteq Handles

Init == life = [h \in Handles |-> "none"] /\ files = {}

Becomes(h, from, to) == life[h] \in from /\ life' = [life EXCEPT ![h] = to]

Prepare(h) == Becomes(h, {"none"}, "update") /\ files' = files \cup {h}

\* One call has the update, and no other can take it.
Arm(p) == Becomes(p, {"update"}, "arming") /\ UNCHANGED files

ArmSucceeds(p, h) == /\ life[p] = "arming" /\ life[h] = "none"
                     /\ life' = [life EXCEPT ![p] = "spent", ![h] = "handoff"]
                     /\ files' = files \ {p}

ArmFails(p) == Becomes(p, {"arming"}, "spent") /\ files' = files \ {p}

Cancel(h) == Becomes(h, {"handoff"}, "cancelling") /\ UNCHANGED files

\* Whether it was cancelled or not.
CancelEnds(h) == Becomes(h, {"cancelling"}, "spent") /\ UNCHANGED files

\* Nothing is freed while a call has it.
Free(h) == Becomes(h, {"update", "handoff", "spent"}, "none") /\ files' = files \ {h}

Next == \E h \in Handles :
          \/ Prepare(h) \/ Arm(h) \/ ArmFails(h) \/ Cancel(h) \/ CancelEnds(h) \/ Free(h)
          \/ \E p \in Handles : ArmSucceeds(p, h)

Spec == Init /\ [][Next]_vars
=============================================================================
