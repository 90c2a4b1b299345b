------------------------ MODULE UpdateHandoffProofs ------------------------
(***************************************************************************)
(* The processes of UpdateHandoff keep to InstallTransaction, so everything *)
(* proved there holds here; and a helper keeps off the program files while *)
(* the application that armed it, or the one it started, is running.       *)
(***************************************************************************)
EXTENDS UpdateHandoff, InstallTransactionProofs

USE NamesAssumption

LEMMA HandoffInitInv == HandoffInit => HandoffInv
<1> SUFFICES ASSUME HandoffInit PROVE HandoffInv
  OBVIOUS
<1>1. TypeOK
  BY InitInv DEF HandoffInit, IInv
<1>2. HandoffTypeOK
  BY <1>1 DEF HandoffInit, HandoffTypeOK
<1>3. NoToken \notin Tokens /\ \A t \in Tokens : ~Holds(t) /\ launch[t] = "new"
  BY DEF HandoffInit, Init, Holds
<1>4. AppInv
  BY <1>3 DEF HandoffInit, Init, AppInv
<1>5. WaitInv /\ ChildInv
  BY <1>3 DEF HandoffInit, Init, WaitInv, ChildInv
<1> QED
  BY <1>2, <1>4, <1>5 DEF HandoffInv

\* Every step of a process is a step of the transaction, or none of its business.
LEMMA HandoffStepIsStep == HandoffInv /\ [HandoffNext]_allVars => [Next]_vars
<1> SUFFICES ASSUME HandoffInv, [HandoffNext]_allVars PROVE [Next]_vars
  OBVIOUS
<1>1. CASE UNCHANGED allVars
  BY <1>1 DEF allVars
<1>2. CASE Plain
  BY <1>2 DEF Plain, Next, Arm, Discard, Launch, Apply, Environment
<1>3. CASE ArmDone \/ RemoveMarks \/ RemoveAll \/ Dies
  BY <1>3 DEF ArmDone, RemoveMarks, RemoveAll, Dies, Next, Arm, Discard, Environment
<1>4. CASE HelperStep
  BY <1>4 DEF HelperStep, Locks, Refused, TellsReady, SeesCancel, SeesNoCancel, SeesExit,
     KeepsWaiting, GivesUp, Installs, InstallDone, Relaunches, CannotRelaunch, SeesAck,
     SeesNoAck, SeesChildGone, SeesChildRun, ConfirmTimesOut, KeepsListening,
     Next, Launch, Apply, Confirm
<1>5. ASSUME NEW t \in Tokens, LaunchKills(t) PROVE [Next]_vars
  <2>1. CASE Holds(t) /\ Unlock /\ UNCHANGED <<root, txn, launch, aux>>
    \* The only kill that is not obvious: it finds the helper waiting.
    <3>1. pc = "wait"
      BY <1>5, <2>1 DEF LaunchKills, HandoffInv, WaitInv
    <3> QED
      BY <2>1, <3>1 DEF HelperStops, Next, Apply
  <2> QED
    BY <1>5, <2>1 DEF LaunchKills, Next, Launch
<1>6. ASSUME NEW t \in Tokens, AppStep(t) PROVE [Next]_vars
  BY <1>5, <1>6 DEF AppStep, Copies, CopyFails, LaunchReturns, LaunchTimesOut, Cancels,
     CancelReturns, Exits, Next, Launch
<1>7. ASSUME NEW t \in Tokens, ChildStep(t) PROVE [Next]_vars
  BY <1>7 DEF ChildStep, LoadsPlan, HashesProgram, ReadsState,
     ConfirmFails, Acks, ChildExits
<1> QED
  BY <1>1, <1>2, <1>3, <1>4, <1>6, <1>7 DEF HandoffNext

\* The application.
LEMMA AppStepKeeps ==
  ASSUME IInv, IInv', HandoffInv, NEW t \in Tokens, AppStep(t) PROVE HandoffInv'
<1> USE DEF IInv, TypeOK, Point, GoalInv, HandoffInv, HandoffTypeOK, AppInv, WaitInv, ChildInv, Holds, Alive, LooksOn,
           vars, txn, proc, aux, hvars, procs, marks, past, allVars
<1>1. CASE Copies(t)
  BY <1>1 DEF Copies, LaunchCopy
<1>2. CASE CopyFails(t)
  BY <1>2 DEF CopyFails, LaunchEnds
<1>3. CASE LaunchReturns(t)
  BY <1>3 DEF LaunchReturns
<1>4. CASE LaunchTimesOut(t)
  BY <1>4 DEF LaunchTimesOut
<1>5. CASE LaunchKills(t)
  BY <1>5 DEF LaunchKills, LaunchEnds, Unlock
<1>6. CASE Cancels(t)
  BY <1>6 DEF Cancels
<1>7. CASE CancelReturns(t)
  BY <1>7 DEF CancelReturns
<1>8. CASE Exits(t)
  BY <1>8 DEF Exits, LaunchEnds
<1> QED
  BY <1>1, <1>2, <1>3, <1>4, <1>5, <1>6, <1>7, <1>8 DEF AppStep

\* The new application.
LEMMA ChildStepKeeps ==
  ASSUME IInv, IInv', HandoffInv, NEW t \in Tokens, ChildStep(t) PROVE HandoffInv'
<1> USE DEF IInv, TypeOK, Point, GoalInv, HandoffInv, HandoffTypeOK, AppInv, WaitInv, ChildInv, Holds, Alive, LooksOn,
           vars, txn, proc, aux, hvars, procs, marks, past, allVars
<1>1. CASE LoadsPlan(t) \/ HashesProgram(t) \/ ReadsState(t) \/ ConfirmFails(t)
  BY <1>1 DEF LoadsPlan, HashesProgram, ReadsState, ConfirmFails
<1>2. CASE Acks(t)
  BY <1>2 DEF Acks
<1>3. CASE ChildExits(t)
  BY <1>3 DEF ChildExits
<1> QED
  BY <1>1, <1>2, <1>3 DEF ChildStep

\* The helper.
LEMMA HelperStepKeeps ==
  IInv /\ IInv' /\ HandoffInv /\ HelperStep => HandoffInv'
<1> SUFFICES ASSUME IInv, IInv', HandoffInv, HelperStep PROVE HandoffInv'
  OBVIOUS
<1> USE DEF IInv, TypeOK, Point, GoalInv, HandoffInv, HandoffTypeOK, AppInv, WaitInv, ChildInv, Holds, Alive, LooksOn,
           vars, txn, proc, aux, hvars, procs, marks, past, allVars
<1>1. ASSUME NEW t \in Tokens, Locks(t) PROVE HandoffInv'
  BY <1>1 DEF Locks, HelperLock
<1>2. ASSUME NEW t \in Tokens, Refused(t) PROVE HandoffInv'
  BY <1>2 DEF Refused, LaunchEnds
<1>3. CASE TellsReady
  BY <1>3 DEF TellsReady, Waiting
<1>4. CASE SeesCancel
  BY <1>4 DEF SeesCancel, Waiting, HelperStops, Unlock
<1>5. CASE SeesNoCancel
  BY <1>5 DEF SeesNoCancel, Waiting
<1>6. CASE SeesExit
  BY <1>6 DEF SeesExit, Waiting
<1>7. CASE KeepsWaiting
  BY <1>7 DEF KeepsWaiting, Waiting
<1>8. CASE GivesUp
  BY <1>8 DEF GivesUp, Waiting, HelperStops, Unlock
<1>9. CASE Installs
  BY <1>9 DEF Installs, ApplyBegin, ApplyRejected
<1>10. CASE InstallDone
  BY <1>10 DEF InstallDone, ApplyFinish
<1>11. CASE Relaunches
  BY <1>11 DEF Relaunches
<1>12. CASE CannotRelaunch
  BY <1>12 DEF CannotRelaunch, RollbackBegin
<1>13. CASE SeesAck
  BY <1>13 DEF SeesAck, Conclude, Unlock
<1>14. CASE SeesNoAck
  BY <1>14 DEF SeesNoAck
<1>15. CASE SeesChildGone
  BY <1>15 DEF SeesChildGone, RollbackBegin
<1>16. CASE SeesChildRun
  BY <1>16 DEF SeesChildRun
<1>17. CASE ConfirmTimesOut
  BY <1>17 DEF ConfirmTimesOut, Conclude, Unlock
<1>18. CASE KeepsListening
  BY <1>18 DEF KeepsListening
<1> QED
  BY <1>1, <1>2, <1>3, <1>4, <1>5, <1>6, <1>7, <1>8, <1>9, <1>10, <1>11, <1>12, <1>13, <1>14, <1>15, <1>16, <1>17, <1>18 DEF HelperStep

\* The rest: arming, discarding, crashes, and what apply and the rollback do.
LEMMA RestKeeps ==
  IInv /\ IInv' /\ HandoffInv /\ (ArmDone \/ RemoveMarks \/ RemoveAll \/ Dies \/ Plain)
    => HandoffInv'
<1> SUFFICES ASSUME IInv, IInv', HandoffInv,
                    ArmDone \/ RemoveMarks \/ RemoveAll \/ Dies \/ Plain
             PROVE  HandoffInv'
  OBVIOUS
<1> USE DEF IInv, TypeOK, Point, GoalInv, HandoffInv, HandoffTypeOK, AppInv, WaitInv, ChildInv, Holds, Alive, LooksOn,
           vars, txn, proc, aux, hvars, procs, marks, past, allVars
<1>1. CASE ArmDone
  BY <1>1 DEF ArmDone, ArmPlan, Unlock
<1>2. CASE RemoveMarks
  <2> USE <1>2 DEF RemoveMarks
  <2>1. HandoffTypeOK'
    OBVIOUS
  <2>2. \A t \in Tokens : ~Holds(t) /\ ready' # t /\ confirmed' # t
    OBVIOUS
  <2>3. AppInv' /\ WaitInv' /\ ChildInv'
    BY <2>2
  <2> QED
    BY <2>1, <2>3
<1>3. CASE RemoveAll \/ Dies
  BY <1>3 DEF RemoveAll, RemoveDir, Dies, Crash, Unlock
<1>4. CASE Plain
  <2>1. ASSUME NEW t \in Tokens, ArmBegin(t), LooksOn, UNCHANGED <<marks, procs, past>>
        PROVE  HandoffInv'
    BY <2>1 DEF ArmBegin
  <2>2. ASSUME NEW t \in Tokens, HelperLoad(t), LooksOn, UNCHANGED <<marks, procs, past>>
        PROVE  HandoffInv'
    BY <2>2 DEF HelperLoad
  <2>3. ASSUME ArmStage \/ ArmJournal \/ ArmFails \/ DiscardBegin \/ RemoveEntry \/ RemoveFails,
               LooksOn, UNCHANGED <<marks, procs, past>>
        PROVE  HandoffInv'
    BY <2>3 DEF ArmStage, ArmJournal, ArmFails, DiscardBegin, RemoveEntry, RemoveFails, Unlock
  <2>4. ASSUME ApplyStart \/ ApplyBackupFails \/ ApplyFails \/ Tamper \/
                 \E i \in Items : \/ ApplyBackup(i) \/ ApplyBackupPart(i) \/ ApplyIntent(i)
                                 \/ ApplyAside(i) \/ ApplyReplace(i) \/ LoseBackup(i),
               LooksOn, UNCHANGED <<marks, procs, past>>
        PROVE  HandoffInv'
    BY <2>4 DEF ApplyStart, ApplyBackupFails, ApplyFails, Tamper, ApplyBackup, ApplyBackupPart,
       ApplyIntent, ApplyAside, ApplyReplace, LoseBackup, Save
  <2>5. ASSUME Rollback, LooksOn, UNCHANGED <<marks, procs, past>>
        PROVE  HandoffInv'
    BY <2>5 DEF Rollback, RbSave, RbSaveFails, RbFinish, RbFails, Mark, RecoverBegin, RbRestore,
       RbRestorePart, RollbackEnds, Unlock, Save
  <2> QED
    BY <1>4, <2>1, <2>2, <2>3, <2>4, <2>5 DEF Plain
<1> QED
  BY <1>1, <1>2, <1>3, <1>4

LEMMA HandoffNextInv ==
  IInv /\ HandoffInv /\ [HandoffNext]_allVars => IInv' /\ HandoffInv'
<1> SUFFICES ASSUME IInv, HandoffInv, [HandoffNext]_allVars PROVE IInv' /\ HandoffInv'
  OBVIOUS
<1>1. IInv'
  BY HandoffStepIsStep, NextInv
<1>2. CASE UNCHANGED allVars
  BY <1>1, <1>2 DEF HandoffInv, HandoffTypeOK, AppInv, WaitInv, ChildInv, Holds, IInv,
     allVars, vars, hvars, proc, procs, marks, past
<1>3. CASE HandoffNext
  BY <1>1, <1>3, AppStepKeeps, ChildStepKeeps, HelperStepKeeps, RestKeeps DEF HandoffNext
<1> QED
  BY <1>1, <1>2, <1>3

THEOREM HandoffInvariant == HandoffSpec => [](IInv /\ HandoffInv)
<1>1. HandoffInit => IInv
  BY InitInv DEF HandoffInit
<1> QED
  BY <1>1, HandoffInitInv, HandoffNextInv, PTL DEF HandoffSpec

\* The processes run the transaction and nothing else: what InstallTransactionProofs
\* shows of Spec, AlwaysRestorable and Refinement among it, holds of HandoffSpec.
THEOREM HandoffRefinement == HandoffSpec => ImplementsInstallTransaction
<1>1. HandoffInit => Init
  BY DEF HandoffInit
<1> QED
  BY <1>1, HandoffInvariant, HandoffStepIsStep, PTL
     DEF HandoffSpec, ImplementsInstallTransaction, Spec

\* A Handoff is a helper that holds the lock; and launch kills only one that waits.
THEOREM HandoffHoldsLock == HandoffSpec => [](ArmedIsLocked /\ KillIsHarmless)
<1>1. HandoffInv => ArmedIsLocked /\ KillIsHarmless
  BY DEF HandoffInv, AppInv, WaitInv, ArmedIsLocked, KillIsHarmless, Alive
<1> QED
  BY <1>1, HandoffInvariant, PTL

\* Which steps can change a program file while a helper has the lock.
LEMMA FileStep ==
  ASSUME IInv, HandoffInv, HandoffNext, root' # root, op \in {"apply", "confirm"}
  PROVE  mine \in Tokens /\ pc \in {"replace", "restore"}
<1>1. Next
  BY HandoffStepIsStep DEF vars
<1>2. mine \in Tokens
  BY DEF IInv, GoalInv
<1>3. CASE Apply
  BY <1>2, <1>3 DEF Apply, HelperStops, ApplyBegin, ApplyRejected, ApplyStart, ApplyBackupFails,
     ApplyFinish, ApplyFails, ApplyBackup, ApplyBackupPart, ApplyIntent, ApplyAside,
     ApplyReplace
<1>4. CASE Rollback
  BY <1>2, <1>4 DEF Rollback, RbSave, RbSaveFails, RbFinish, RbFails, Mark, RecoverBegin,
     RbRestore, RbRestorePart
<1>5. CASE Arm \/ Discard \/ Launch \/ Confirm \/ Environment
  BY <1>5 DEF Arm, ArmBegin, ArmStage, ArmJournal, ArmPlan, ArmFails, Discard, DiscardBegin,
     RemoveEntry, RemoveDir, RemoveFails, Launch, LaunchCopy, HelperLoad, HelperLock,
     LaunchEnds, Confirm, Conclude, RollbackBegin, Environment, Crash, Tamper, LoseBackup
<1> QED
  BY <1>1, <1>2, <1>3, <1>4, <1>5 DEF Next

\* No helper installs under the application that armed it.
THEOREM HelpersInstallOffline == HandoffSpec => InstallsOffline
<1>1. IInv /\ HandoffInv /\ [HandoffNext]_allVars =>
        [root' # root /\ op = "apply" => app[mine] = "exited"]_allVars
  BY FileStep DEF HandoffInv, WaitInv, Holds
<1> QED
  BY <1>1, HandoffInvariant, PTL DEF HandoffSpec, InstallsOffline

\* No helper rolls back under the application it started.
THEOREM HelpersSpareTheChild == HandoffSpec => RunningChildIsLeftAlone
<1>1. IInv /\ HandoffInv /\ [HandoffNext]_allVars =>
        [root' # root /\ op \in {"apply", "confirm"} =>
           child[mine] \in {"none", "exited"}]_allVars
  BY FileStep DEF HandoffInv, ChildInv, Holds, IInv, TypeOK, Point
<1> QED
  BY <1>1, HandoffInvariant, PTL DEF HandoffSpec, RunningChildIsLeftAlone

\* Installing begins in one action only, after a look that found no cancel file.
LEMMA BeginStep ==
  ASSUME IInv, HandoffNext, pc = "wait", pc' = "backup"
  PROVE  Holds(mine) /\ mine \in Tokens /\ look = "go"
<1> USE DEF IInv, TypeOK, Point, vars, proc
<1>1. CASE Installs
  BY <1>1 DEF Installs, GoalInv, Holds
<1>2. CASE ArmDone \/ RemoveMarks \/ RemoveAll \/ Dies
  BY <1>2 DEF ArmDone, ArmPlan, RemoveMarks, RemoveAll, RemoveDir, Dies, Crash, Unlock
<1>3. CASE Plain
  BY <1>3 DEF Plain, ArmBegin, HelperLoad, ArmStage, ArmJournal, ArmFails, DiscardBegin,
     RemoveEntry, RemoveFails, ApplyStart, ApplyBackupFails, ApplyFails, ApplyBackup,
     ApplyBackupPart, ApplyIntent, ApplyAside, ApplyReplace, Rollback, RbSave, RbSaveFails,
     RbFinish, RbFails, Mark, RecoverBegin, RbRestore, RbRestorePart, RollbackEnds, Save,
     Tamper, LoseBackup, Unlock
<1>4. CASE HelperStep
  BY <1>1, <1>4 DEF HelperStep, Locks, HelperLock, Refused, LaunchEnds, TellsReady, SeesCancel,
     SeesNoCancel, SeesExit, KeepsWaiting, GivesUp, HelperStops, InstallDone, ApplyFinish,
     Relaunches, CannotRelaunch, RollbackBegin, SeesAck, SeesNoAck, SeesChildGone,
     SeesChildRun, ConfirmTimesOut, KeepsListening, Conclude, Unlock
<1>5. ASSUME NEW t \in Tokens PROVE ~AppStep(t) /\ ~ChildStep(t)
  BY DEF AppStep, Copies, LaunchCopy, CopyFails, LaunchEnds, LaunchReturns, LaunchTimesOut,
     LaunchKills, Unlock, Cancels, CancelReturns, Exits, ChildStep, LoadsPlan, HashesProgram, ReadsState,
     ConfirmFails, Acks, ChildExits
<1> QED
  BY <1>2, <1>3, <1>4, <1>5 DEF HandoffNext

\* Once an application has asked its helper to stop, the helper installs nothing.
THEOREM CancelledIsNotInstalled == HandoffSpec => CancelIsFinal
<1>1. IInv /\ HandoffInv /\ [HandoffNext]_allVars =>
        [pc = "wait" /\ pc' = "backup" => mine \notin asked]_allVars
  BY BeginStep DEF HandoffInv, WaitInv
<1> QED
  BY <1>1, HandoffInvariant, PTL DEF HandoffSpec, CancelIsFinal

\* The same for Committed: it is written after the acknowledgement was read.
LEMMA CommitStep ==
  ASSUME IInv, HandoffNext, journal'.state = "Committed", journal.state # "Committed"
  PROVE  confirmed = mine /\ mine \in Tokens
<1> USE DEF IInv, TypeOK, Journals, Point, vars, txn
<1>1. CASE SeesAck
  BY <1>1 DEF SeesAck, Conclude, GoalInv
<1>2. CASE ArmDone \/ RemoveMarks \/ RemoveAll \/ Dies
  BY <1>2 DEF ArmDone, ArmPlan, RemoveMarks, RemoveAll, RemoveDir, Dies, Crash
<1>3. CASE Plain
  BY <1>3 DEF Plain, ArmBegin, HelperLoad, ArmStage, ArmJournal, ArmFails, DiscardBegin,
     RemoveEntry, RemoveFails, ApplyStart, ApplyBackupFails, ApplyFails, ApplyBackup,
     ApplyBackupPart, ApplyIntent, ApplyAside, ApplyReplace, Rollback, RbSave, RbSaveFails,
     RbFinish, RbFails, Mark, RecoverBegin, RbRestore, RbRestorePart, Save, SaveFails,
     LastSave, Tamper, LoseBackup, NoJournal, Applying, Awaiting, Touching, RollingBack,
     BackupInv, ReplaceInv, RollbackInv
<1>4. CASE HelperStep
  BY <1>1, <1>4 DEF HelperStep, Locks, HelperLock, Refused, LaunchEnds, TellsReady, SeesCancel,
     SeesNoCancel, SeesExit, KeepsWaiting, GivesUp, HelperStops, Installs, ApplyBegin,
     ApplyRejected, InstallDone, ApplyFinish, Awaiting, Save, Relaunches, CannotRelaunch,
     RollbackBegin, SeesNoAck, SeesChildGone, SeesChildRun, ConfirmTimesOut, KeepsListening,
     Conclude, LastSave, SaveFails
<1>5. ASSUME NEW t \in Tokens PROVE ~AppStep(t) /\ ~ChildStep(t)
  BY DEF AppStep, Copies, LaunchCopy, CopyFails, LaunchEnds, LaunchReturns, LaunchTimesOut,
     LaunchKills, Cancels, CancelReturns, Exits, ChildStep, LoadsPlan, HashesProgram, ReadsState,
     ConfirmFails, Acks, ChildExits
<1> QED
  BY <1>2, <1>3, <1>4, <1>5 DEF HandoffNext

\* Only a confirmed start is committed.
THEOREM CommitsAreConfirmed == HandoffSpec => CommitIsConfirmed
<1>1. IInv /\ HandoffInv /\ [HandoffNext]_allVars =>
        [journal'.state = "Committed" /\ journal.state # "Committed"
           => mine \in acked]_allVars
  BY CommitStep DEF HandoffInv, ChildInv
<1> QED
  BY <1>1, HandoffInvariant, PTL DEF HandoffSpec, CommitIsConfirmed

\* What of InstallTransaction a user relies on, among processes that come and go: the
\* program files are updated atomically, the final states are true, no byte is one that
\* nobody vouched for, and no operation goes back to work it has done; the first three
\* unless something deletes files of a bundle's backup.
THEOREM HandoffIsAtomicUpdate ==
  HandoffSpec => /\ IntentFirst /\ LegalTransitions /\ WorkAdvances
                 /\ ~Trims => /\ ImplementsAtomicUpdate
                              /\ [](TerminalTruthful /\ OnlyVouchedBytes)
<1>1. HandoffSpec => Spec
  BY HandoffRefinement DEF ImplementsInstallTransaction
<1>2. HandoffSpec => IntentFirst /\ LegalTransitions /\ WorkAdvances
  BY <1>1, IntentIsWrittenFirst, TransitionsAreLegal, EveryStepAdvances, PTL
<1>3. ASSUME ~Trims
      PROVE  HandoffSpec => ImplementsAtomicUpdate /\ [](TerminalTruthful /\ OnlyVouchedBytes)
  <2>1. /\ Spec => ImplementsAtomicUpdate
        /\ Spec => []TerminalTruthful
        /\ Spec => []OnlyVouchedBytes
    BY <1>3, Refinement, TerminalStatesAreTrue, BytesAreVouchedFor
  <2> QED
    BY <1>1, <2>1, PTL
<1> QED
  BY <1>2, <1>3

\* Unless backups are lost, it can be undone whichever process dies.
THEOREM HandoffIsRestorable == ASSUME "lose" \notin Faults
                               PROVE  HandoffSpec => []Restorable
<1>1. HandoffSpec => Spec
  BY HandoffRefinement DEF ImplementsInstallTransaction
<1>2. Spec => []Restorable
  BY AlwaysRestorable
<1> QED
  BY <1>1, <1>2

-----------------------------------------------------------------------------
(* While a new application has not confirmed, nothing but its own helper works *)
(* on the transaction, and that only waits; recovery would, and is offline.    *)

LEMMA OneInit == HandoffInit => OneTransaction
  BY DEF HandoffInit, OneTransaction, Unconfirmed

LEMMA OneAppStep ==
  ASSUME IInv, HandoffInv, OneTransaction, NEW s \in Tokens, AppStep(s)
  PROVE  OneTransaction'
<1> USE DEF IInv, TypeOK, Point, HandoffInv, HandoffTypeOK, OneTransaction, Unconfirmed, Updated,
           LooksOn, vars, txn, proc, aux, hvars, procs, marks, past
<1>1. CASE Copies(s) \/ CopyFails(s) \/ LaunchReturns(s) \/ LaunchTimesOut(s) \/ Cancels(s)
             \/ CancelReturns(s) \/ Exits(s)
  BY <1>1 DEF Copies, LaunchCopy, CopyFails, LaunchEnds, LaunchReturns, LaunchTimesOut, Cancels,
     CancelReturns, Exits
<1>2. CASE LaunchKills(s)
  BY <1>2 DEF LaunchKills, LaunchEnds, Unlock
<1> QED
  BY <1>1, <1>2 DEF AppStep

LEMMA OneChildStep ==
  ASSUME IInv, HandoffInv, OneTransaction, NEW s \in Tokens, ChildStep(s)
  PROVE  OneTransaction'
  BY DEF IInv, TypeOK, HandoffInv, HandoffTypeOK, OneTransaction, Unconfirmed, Updated,
     vars, txn, proc, aux, past, ChildStep, LoadsPlan, HashesProgram, ReadsState, ConfirmFails, Acks,
     ChildExits

LEMMA OneHelperStep ==
  ASSUME IInv, HandoffInv, OneTransaction, HelperStep
  PROVE  OneTransaction'
<1> USE DEF IInv, TypeOK, Point, GoalInv, JournalInv, AwaitInv, HandoffInv, HandoffTypeOK, ChildInv,
           OneTransaction, Unconfirmed, Updated, Holds, LooksOn,
           vars, txn, proc, aux, hvars, procs, marks, past
<1>1. ASSUME NEW s \in Tokens, Locks(s) PROVE OneTransaction'
  BY <1>1 DEF Locks, HelperLock
<1>2. ASSUME NEW s \in Tokens, Refused(s) PROVE OneTransaction'
  BY <1>2 DEF Refused, LaunchEnds
<1>3. CASE TellsReady \/ SeesNoCancel \/ SeesExit \/ KeepsWaiting
  BY <1>3 DEF TellsReady, SeesNoCancel, SeesExit, KeepsWaiting, Waiting
<1>4. CASE SeesCancel \/ GivesUp
  BY <1>4 DEF SeesCancel, GivesUp, HelperStops, Unlock, Waiting
<1>5. CASE Installs
  BY <1>5 DEF Installs, ApplyBegin, Applicable, ApplyRejected
<1>6. CASE InstallDone
  BY <1>6 DEF InstallDone, ApplyFinish
<1>7. CASE Relaunches
  BY <1>7 DEF Relaunches
<1>8. CASE CannotRelaunch
  BY <1>8 DEF CannotRelaunch, RollbackBegin
<1>9. CASE SeesAck
  BY <1>9 DEF SeesAck, Conclude, Unlock
<1>10. CASE SeesNoAck \/ SeesChildRun \/ KeepsListening
  BY <1>10 DEF SeesNoAck, SeesChildRun, KeepsListening
<1>11. CASE SeesChildGone
  BY <1>11 DEF SeesChildGone, RollbackBegin
<1>12. CASE ConfirmTimesOut
  BY <1>12 DEF ConfirmTimesOut, Conclude, LastSave, SaveFails, Unlock, Journals
<1> QED
  BY <1>1, <1>2, <1>3, <1>4, <1>5, <1>6, <1>7, <1>8, <1>9, <1>10, <1>11, <1>12 DEF HelperStep

LEMMA OneRestStep ==
  ASSUME "online" \notin Faults, IInv, HandoffInv, OneTransaction,
         ArmDone \/ RemoveMarks \/ RemoveAll \/ Dies \/ Plain
  PROVE  OneTransaction'
<1> USE DEF IInv, TypeOK, Point, DirInv, NoJournal, HandoffInv, HandoffTypeOK,
           OneTransaction, Unconfirmed, Updated, LooksOn,
           vars, txn, proc, aux, hvars, procs, marks, past
<1>1. CASE ArmDone \/ RemoveMarks \/ RemoveAll \/ Dies
  BY <1>1 DEF ArmDone, ArmPlan, RemoveMarks, RemoveAll, RemoveDir, Dies, Crash, Unlock
<1>2. CASE Plain
  <2>1. UNCHANGED <<child, acked>>
    BY <1>2 DEF Plain
  <2>2. ASSUME NEW s \in Tokens, ArmBegin(s) \/ HelperLoad(s) PROVE OneTransaction'
    BY <1>2, <2>1, <2>2 DEF Plain, ArmBegin, HelperLoad
  <2>3. CASE ArmStage \/ ArmJournal \/ ArmFails \/ DiscardBegin \/ RemoveEntry \/ RemoveFails
    BY <1>2, <2>1, <2>3 DEF ArmStage, ArmJournal, ArmFails, DiscardBegin, Discardable,
       RemoveEntry, RemoveFails, Unlock
  <2>4. CASE ApplyStart \/ ApplyBackupFails \/ ApplyFails \/ Tamper \/
               \E i \in Items : \/ ApplyBackup(i) \/ ApplyBackupPart(i) \/ ApplyIntent(i)
                               \/ ApplyAside(i) \/ ApplyReplace(i) \/ LoseBackup(i)
    BY <1>2, <2>1, <2>4 DEF Plain, ApplyStart, ApplyBackupFails, ApplyFails, Tamper, ApplyBackup,
       ApplyBackupPart, ApplyIntent, ApplyAside, ApplyReplace, LoseBackup
  <2>5. CASE Rollback /\ RecoveryIsInTime
    BY <1>2, <2>1, <2>5 DEF Plain, Rollback, RecoveryIsInTime, RbSave, RbSaveFails, RbFinish, RbFails, Mark,
       RecoverBegin, RbRestore, RbRestorePart, RollbackEnds, Unlock, LastSave
  <2> QED
    BY <1>2, <2>2, <2>3, <2>4, <2>5 DEF Plain
<1> QED
  BY <1>1, <1>2

LEMMA OneStep ==
  ASSUME "online" \notin Faults
  PROVE  IInv /\ HandoffInv /\ OneTransaction /\ [HandoffNext]_allVars => OneTransaction'
<1> SUFFICES ASSUME IInv, HandoffInv, OneTransaction, [HandoffNext]_allVars PROVE OneTransaction'
  OBVIOUS
<1>1. CASE UNCHANGED allVars
  BY <1>1 DEF OneTransaction, Unconfirmed, Updated, allVars, vars, hvars, txn, proc, aux, procs,
     marks, past
<1>2. CASE HandoffNext
  BY <1>2, OneAppStep, OneChildStep, OneHelperStep, OneRestStep DEF HandoffNext
<1> QED
  BY <1>1, <1>2

\* Only Acks adds to acked, and only for an application that has not confirmed.
LEMMA AckStep ==
  ASSUME HandoffNext, NEW t \in Tokens, t \notin acked, t \in acked'
  PROVE  child[t] = "checked" /\ UNCHANGED vars
<1>1. ASSUME NEW s \in Tokens, ChildStep(s) PROVE child[t] = "checked" /\ UNCHANGED vars
  BY <1>1 DEF ChildStep, LoadsPlan, HashesProgram, ReadsState, ConfirmFails, Acks, ChildExits, past
<1>2. UNCHANGED acked \/ \E s \in Tokens : ChildStep(s)
  BY DEF HandoffNext, hvars, past, ArmDone, RemoveMarks, RemoveAll, Dies, Plain,
     HelperStep, Locks, Refused, TellsReady, SeesCancel, SeesNoCancel, SeesExit, KeepsWaiting,
     GivesUp, Installs, InstallDone, Relaunches, CannotRelaunch, SeesAck, SeesNoAck,
     SeesChildGone, SeesChildRun, ConfirmTimesOut, KeepsListening, AppStep, Copies, CopyFails,
     LaunchReturns, LaunchTimesOut, LaunchKills, Cancels, CancelReturns, Exits
<1> QED
  BY <1>1, <1>2

\* confirm_startup, which takes no lock, accepts only the start of a whole release, if
\* recovery is run offline, as its documentation asks.
THEOREM ConfirmationsAreOfWholeReleases ==
  ASSUME "online" \notin Faults PROVE HandoffSpec => ConfirmsWholeRelease
<1>1. IInv /\ HandoffInv /\ OneTransaction /\ [HandoffNext]_allVars =>
        [\A t \in Tokens : t \notin acked /\ t \in acked' =>
           plan = t /\ goal = ReleaseOf[t] /\ root = Updated]_allVars
  <2> SUFFICES ASSUME OneTransaction, HandoffNext, NEW t \in Tokens,
                      t \notin acked, t \in acked'
               PROVE  plan = t /\ goal = ReleaseOf[t] /\ root = Updated
    OBVIOUS
  <2>1. child[t] = "checked"
    BY AckStep
  <2> QED
    BY <2>1 DEF OneTransaction, Unconfirmed
<1>2. IInv /\ HandoffInv /\ OneTransaction /\ [HandoffNext]_allVars => OneTransaction'
  BY OneStep
<1> QED
  BY <1>1, <1>2, OneInit, HandoffInvariant, PTL DEF HandoffSpec, ConfirmsWholeRelease
=============================================================================
