---------------------------- MODULE AtomicUpdate ----------------------------
(***************************************************************************)
(* What an installation promises, without journals, backups or processes:  *)
(* the program files are taken from one known set of contents to another,  *)
(* and whenever no update is open they are exactly one of the two, never a  *)
(* mixture.  While an update is open anything may be on disk.              *)
(***************************************************************************)
CONSTANT FileSets            \* the possible contents of the program files

VARIABLES files,             \* what is installed now
          phase,             \* "settled", or "open" while an update is undecided
          before,            \* what the current update started from
          after              \* what it leads to when it succeeds

vars == <<files, phase, before, after>>

TypeOK == /\ files \in FileSets
          /\ phase \in {"settled", "open"}
          /\ before \in FileSets
          /\ after \in FileSets

Init == /\ files \in FileSets
        /\ phase = "settled"
        /\ before = files
        /\ after = files

\* A new update is offered: from the files as they are to some other contents.
Offer == /\ phase = "settled"
         /\ before' = files
         /\ after' \in FileSets
         /\ UNCHANGED <<files, phase>>

\* Work begins only on the files the update was offered for.
Open == /\ phase = "settled"
        /\ files = before
        /\ phase' = "open"
        /\ UNCHANGED <<files, before, after>>

Work == /\ phase = "open"
        /\ files' \in FileSets
        /\ UNCHANGED <<phase, before, after>>

\* An update is settled only when it is complete, one way or the other.
Settle == /\ phase = "open"
          /\ files \in {before, after}
          /\ phase' = "settled"
          /\ UNCHANGED <<files, before, after>>

Next == Offer \/ Open \/ Work \/ Settle

Spec == Init /\ [][Next]_vars

\* All or nothing: with no update open, the files are the old ones or the new.
AllOrNothing == phase = "settled" => files \in {before, after}
=============================================================================
