--------------------- MODULE InstallTransactionProofs ---------------------
(***************************************************************************)
(* Theorems about InstallTransaction, for every set of items, releases and  *)
(* handoffs, both layouts and every choice of faults.  IInv is inductive;  *)
(* the steps of each operation preserve it (a lemma for each), and every   *)
(* property follows from it.                                               *)
(***************************************************************************)
EXTENDS InstallTransaction, FiniteSetTheorems, WellFoundedInduction, TLAPS

USE ItemsAssumption, NamesAssumption, BundleAssumption

LEMMA InitInv == Init => IInv
<1> SUFFICES ASSUME Init PROVE IInv
  OBVIOUS
<1> USE DEF Init
<1>1. Updated = original
  BY DEF Updated
<1>2. TypeOK
  BY DEF TypeOK, Point, Journals, States, NoJournal, Empty
<1>3. DirInv /\ GoalInv /\ BackupInv /\ ReplaceInv /\ AwaitInv /\ RollbackInv
  BY DEF DirInv, GoalInv, BackupInv, ReplaceInv, AwaitInv, RollbackInv
<1>4. JournalInv /\ ArmInv
  BY DEF JournalInv, ArmInv, NoJournal, Unfinished, Settled, RecoveryFailuresAreVisible
<1>5. OnlyVouchedBytes
  BY <1>1 DEF OnlyVouchedBytes
<1> QED
  BY <1>2, <1>3, <1>4, <1>5 DEF IInv

\* The steps of arm.
LEMMA ArmKeeps == IInv /\ Arm => IInv'
<1> SUFFICES ASSUME IInv, Arm PROVE IInv'
  OBVIOUS
<1> USE DEF IInv, TypeOK, Point, Journals, States, NoJournal, Empty, DirInv, GoalInv, JournalInv,
           RecoveryFailuresAreVisible, Unfinished, Settled, ArmInv, BackupInv, ReplaceInv, AwaitInv,
           RollbackInv, OnlyVouchedBytes, Consistent, Captured, BackedUp, Trims, Updated,
           txn, proc, aux
<1>1. ASSUME NEW t \in Tokens, ArmBegin(t) PROVE IInv'
  BY <1>1 DEF ArmBegin
<1>2. CASE ArmStage
  BY <1>2 DEF ArmStage
<1>3. CASE ArmJournal
  BY <1>3 DEF ArmJournal
<1>4. CASE ArmPlan
  BY <1>4 DEF ArmPlan, Unlock
<1>5. CASE ArmFails
  BY <1>5 DEF ArmFails
<1> QED
  BY <1>1, <1>2, <1>3, <1>4, <1>5 DEF Arm

\* The steps of discarding.
LEMMA DiscardKeeps == IInv /\ Discard => IInv'
<1> SUFFICES ASSUME IInv, Discard PROVE IInv'
  OBVIOUS
<1> USE DEF IInv, TypeOK, Point, Journals, States, NoJournal, Empty, DirInv, GoalInv, JournalInv,
           RecoveryFailuresAreVisible, Unfinished, Settled, ArmInv, BackupInv, ReplaceInv, AwaitInv,
           RollbackInv, OnlyVouchedBytes, Consistent, Captured, BackedUp, Trims, Updated,
           txn, proc, aux
<1>1. CASE DiscardBegin
  BY <1>1 DEF DiscardBegin, Discardable
<1>2. CASE RemoveEntry
  BY <1>2 DEF RemoveEntry
<1>3. CASE RemoveDir
  BY <1>3 DEF RemoveDir, Unlock
<1>4. CASE RemoveFails
  BY <1>4 DEF RemoveFails, Unlock
<1> QED
  BY <1>1, <1>2, <1>3, <1>4 DEF Discard

\* Starting a helper: what it loaded before it had the lock may be stale by
\* then, but the stage it verifies under the lock is the current one.
LEMMA LaunchKeeps == IInv /\ Launch => IInv'
<1> SUFFICES ASSUME IInv, Launch PROVE IInv'
  OBVIOUS
<1> USE DEF IInv, TypeOK, Point, Journals, States, NoJournal, Empty, DirInv, GoalInv, JournalInv,
           RecoveryFailuresAreVisible, Unfinished, Settled, ArmInv, BackupInv, ReplaceInv, AwaitInv,
           RollbackInv, OnlyVouchedBytes, Consistent, Captured, BackedUp, Trims, Updated,
           txn, proc, aux
<1>1. ASSUME NEW t \in Tokens, LaunchCopy(t) PROVE IInv'
  BY <1>1 DEF LaunchCopy
<1>2. ASSUME NEW t \in Tokens, HelperLoad(t) PROVE IInv'
  BY <1>2 DEF HelperLoad
<1>3. ASSUME NEW t \in Tokens, HelperLock(t) PROVE IInv'
  BY <1>3 DEF HelperLock
<1>4. ASSUME NEW t \in Tokens, LaunchEnds(t) PROVE IInv'
  BY <1>4 DEF LaunchEnds
<1> QED
  BY <1>1, <1>2, <1>3, <1>4 DEF Launch

\* The steps of apply.
LEMMA ApplyKeeps == IInv /\ Apply => IInv'
<1> SUFFICES ASSUME IInv, Apply PROVE IInv'
  OBVIOUS
<1> USE DEF IInv, TypeOK, Point, Journals, States, NoJournal, Empty, DirInv, GoalInv, JournalInv,
           RecoveryFailuresAreVisible, Unfinished, Settled, ArmInv, BackupInv, ReplaceInv, AwaitInv,
           RollbackInv, OnlyVouchedBytes, Consistent, Captured, BackedUp, Trims, Updated,
           txn, proc, aux
<1>1. CASE HelperStops
  BY <1>1 DEF HelperStops, Unlock
<1>2. CASE ApplyBegin
  BY <1>2 DEF ApplyBegin, Applicable
<1>3. CASE ApplyRejected
  BY <1>3 DEF ApplyRejected, Applicable
<1>4. ASSUME NEW i \in Items, ApplyBackup(i) PROVE IInv'
  BY <1>4 DEF ApplyBackup
<1>5. ASSUME NEW i \in Items, ApplyBackupPart(i) PROVE IInv'
  BY <1>5 DEF ApplyBackupPart
<1>6. CASE ApplyStart
  BY <1>6 DEF ApplyStart, Save, Applying
<1>7. CASE ApplyBackupFails
  BY <1>7 DEF ApplyBackupFails, Applying
<1>8. ASSUME NEW i \in Items, ApplyIntent(i) PROVE IInv'
  BY <1>8 DEF ApplyIntent, Current, Save, Touching
<1>9. ASSUME NEW i \in Items, ApplyAside(i) PROVE IInv'
  BY <1>9 DEF ApplyAside, Current
<1>10. ASSUME NEW i \in Items, ApplyReplace(i) PROVE IInv'
  BY <1>10 DEF ApplyReplace, Current
<1>11. CASE ApplyFinish
  BY <1>11 DEF ApplyFinish, Save, Awaiting
<1>12. CASE ApplyFails
  BY <1>12 DEF ApplyFails, Current, Touching, SaveFails, Awaiting
<1> QED
  BY <1>1, <1>2, <1>3, <1>4, <1>5, <1>6, <1>7, <1>8, <1>9, <1>10, <1>11, <1>12 DEF Apply

\* The end of the helper's work.
LEMMA ConfirmKeeps == IInv /\ Confirm => IInv'
<1> SUFFICES ASSUME IInv, Confirm PROVE IInv'
  OBVIOUS
<1> USE DEF IInv, TypeOK, Point, Journals, States, NoJournal, Empty, DirInv, GoalInv, JournalInv,
           RecoveryFailuresAreVisible, Unfinished, Settled, ArmInv, BackupInv, ReplaceInv, AwaitInv,
           RollbackInv, OnlyVouchedBytes, Consistent, Captured, BackedUp, Trims, Updated,
           txn, proc, aux
<1>1. CASE Conclude("Committed")
  BY <1>1 DEF Conclude, LastSave, SaveFails, Unlock
<1>2. CASE Conclude("Failed")
  BY <1>2 DEF Conclude, LastSave, SaveFails, Unlock
<1>3. CASE RollbackBegin
  BY <1>3 DEF RollbackBegin
<1> QED
  BY <1>1, <1>2, <1>3 DEF Confirm

\* Rolling back.
LEMMA RollbackKeeps == IInv /\ Rollback => IInv'
<1> SUFFICES ASSUME IInv, Rollback PROVE IInv'
  OBVIOUS
<1> USE DEF IInv, TypeOK, Point, Journals, States, NoJournal, Empty, DirInv, GoalInv, JournalInv,
           RecoveryFailuresAreVisible, Unfinished, Settled, ArmInv, BackupInv, ReplaceInv, AwaitInv,
           RollbackInv, OnlyVouchedBytes, Consistent, Captured, BackedUp, Trims, Updated,
           txn, proc, aux
<1>1. CASE RbSave
  BY <1>1 DEF RbSave, Save, RollingBack
<1>2. CASE RbSaveFails
  BY <1>2 DEF RbSaveFails, SaveFails, RollingBack, RollbackEnds, Unlock
<1>3. ASSUME NEW i \in Items, RbRestore(i) PROVE IInv'
  BY <1>3 DEF RbRestore, CanRestore, Before
<1>4. ASSUME NEW i \in Items, RbRestorePart(i) PROVE IInv'
  BY <1>4 DEF RbRestorePart, CanRestore, Before
<1>5. CASE RbFinish
  BY <1>5 DEF RbFinish, LastSave, SaveFails, RollbackEnds, Unlock
<1>6. CASE RbFails
  BY <1>6 DEF RbFails, CanRestore, RollbackEnds, Unlock
<1>7. CASE Mark
  BY <1>7 DEF Mark, RollingBack, LastSave, SaveFails, Unlock
<1>8. CASE RecoverBegin
  BY <1>8 DEF RecoverBegin
<1> QED
  BY <1>1, <1>2, <1>3, <1>4, <1>5, <1>6, <1>7, <1>8 DEF Rollback

\* Faults.
LEMMA EnvironmentKeeps == IInv /\ Environment => IInv'
<1> SUFFICES ASSUME IInv, Environment PROVE IInv'
  OBVIOUS
<1> USE DEF IInv, TypeOK, Point, Journals, States, NoJournal, Empty, DirInv, GoalInv, JournalInv,
           RecoveryFailuresAreVisible, Unfinished, Settled, ArmInv, BackupInv, ReplaceInv, AwaitInv,
           RollbackInv, OnlyVouchedBytes, Consistent, Captured, BackedUp, Trims, Updated,
           txn, proc, aux
<1>1. CASE Crash
  BY <1>1 DEF Crash, Unlock
<1>2. CASE Tamper
  BY <1>2 DEF Tamper
<1>3. ASSUME NEW i \in Items, LoseBackup(i) PROVE IInv'
  BY <1>3 DEF LoseBackup
<1> QED
  BY <1>1, <1>2, <1>3 DEF Environment

LEMMA NextInv == IInv /\ [Next]_vars => IInv'
<1>1. IInv /\ UNCHANGED vars => IInv'
  BY DEF vars, txn, proc, aux, IInv, TypeOK, Point, DirInv, GoalInv, JournalInv,
     RecoveryFailuresAreVisible, Unfinished, ArmInv, BackupInv, ReplaceInv, AwaitInv, RollbackInv,
     OnlyVouchedBytes, Consistent, Captured, BackedUp, Trims, Updated
<1> QED
  BY <1>1, ArmKeeps, DiscardKeeps, LaunchKeeps, ApplyKeeps, ConfirmKeeps, RollbackKeeps,
     EnvironmentKeeps DEF Next

\* The inductive invariant holds in every reachable state.
THEOREM Invariant == Spec => []IInv
  BY InitInv, NextInv, PTL DEF Spec

\* Every variable keeps its type.
THEOREM TypeCorrect == Spec => []TypeOK
  BY Invariant, PTL DEF IInv

\* Committed and RolledBack tell the truth about the program files, unless something
\* deletes files of a bundle's backup: of a portable installation for any faults, lost
\* backups among them.
THEOREM TerminalStatesAreTrue == ASSUME ~Trims PROVE Spec => []TerminalTruthful
<1>1. IInv => TerminalTruthful
  BY DEF IInv, JournalInv, TerminalTruthful
<1> QED
  BY <1>1, Invariant, PTL

\* Unless something deletes backups, the disk alone suffices for recovery,
\* wherever the update was interrupted.
THEOREM AlwaysRestorable == ASSUME "lose" \notin Faults
                            PROVE  Spec => []Restorable
<1>1. IInv => Restorable
  <2> SUFFICES ASSUME IInv, Unfinished
               PROVE  /\ goal \in Releases /\ journal.touched \subseteq Inventory[goal]
                      /\ RolledBackRoot(journal) = original
    BY DEF Restorable
  <2>1. Consistent(journal) /\ original \in [Items -> Contents]
    BY DEF IInv, JournalInv, TypeOK
  <2>2. \A i \in Items : RolledBackRoot(journal)[i] = original[i]
    BY <2>1 DEF Consistent, BackedUp, Trims, RolledBackRoot
  <2>3. RolledBackRoot(journal) = original
    BY <2>1, <2>2 DEF RolledBackRoot
  <2> QED
    BY <2>1, <2>3 DEF Consistent
<1> QED
  BY <1>1, Invariant, PTL

\* The program files hold nothing but the old bytes and the manifest's, unless
\* something deletes files of a bundle's backup.
THEOREM BytesAreVouchedFor == ASSUME ~Trims PROVE Spec => []OnlyVouchedBytes
<1>1. IInv => OnlyVouchedBytes
  BY DEF IInv
<1> QED
  BY <1>1, Invariant, PTL

LEMMA IntentStep ==
  IInv /\ [Next]_vars =>
    [\A i \in Items : root'[i] # root[i] =>
        op # "none" /\ Unfinished /\ i \in journal.touched]_vars
<1> SUFFICES ASSUME IInv, Next, NEW i \in Items, root'[i] # root[i]
             PROVE  op # "none" /\ Unfinished /\ i \in journal.touched
  OBVIOUS
<1> USE DEF IInv, TypeOK, Point, Unfinished, Settled
<1>1. CASE \E k \in Items : ApplyAside(k) \/ ApplyReplace(k)
  BY <1>1 DEF ApplyAside, ApplyReplace, Current, ReplaceInv
<1>2. CASE \E k \in Items : RbRestore(k) \/ RbRestorePart(k)
  BY <1>2 DEF RbRestore, RbRestorePart, RollbackInv
<1>3. CASE Arm \/ Discard \/ Launch \/ Confirm
  BY <1>3 DEF Arm, ArmBegin, ArmStage, ArmJournal, ArmPlan, ArmFails, Discard, DiscardBegin,
     RemoveEntry, RemoveDir, RemoveFails, Launch, LaunchCopy, HelperLoad, HelperLock,
     LaunchEnds, Confirm, Conclude, RollbackBegin
<1>4. CASE Environment
  BY <1>4 DEF Environment, Crash, Tamper, LoseBackup
<1>5. CASE Apply
  BY <1>1, <1>5 DEF Apply, HelperStops, ApplyBegin, ApplyRejected, ApplyStart,
     ApplyBackupFails, ApplyFinish, ApplyFails, ApplyBackup, ApplyBackupPart, ApplyIntent
<1>6. CASE Rollback
  BY <1>2, <1>6 DEF Rollback, RbSave, RbSaveFails, RbFinish, RbFails, Mark, RecoverBegin
<1> QED
  BY <1>3, <1>4, <1>5, <1>6 DEF Next

\* No program file changes before the journal on disk says that it will.
THEOREM IntentIsWrittenFirst == Spec => IntentFirst
  BY Invariant, IntentStep, PTL DEF Spec, IntentFirst

LEMMA TransitionStep ==
  IInv /\ [Next]_vars =>
    [journal'.state # journal.state => journal'.state \in Follows[journal.state]]_vars
<1> SUFFICES ASSUME IInv, Next, journal'.state # journal.state
             PROVE  journal'.state \in Follows[journal.state]
  OBVIOUS
<1> USE DEF IInv, TypeOK, Journals, States, Unfinished, Settled, NoJournal, Follows, txn
<1>1. CASE Arm
  BY <1>1 DEF Arm, ArmBegin, ArmStage, ArmJournal, ArmPlan, ArmFails, ArmInv
<1>2. CASE Discard
  BY <1>2 DEF Discard, DiscardBegin, RemoveEntry, RemoveDir, RemoveFails, ArmInv
<1>3. CASE Launch \/ Environment
  BY <1>3 DEF Launch, LaunchCopy, HelperLoad, HelperLock, LaunchEnds,
     Environment, Crash, Tamper, LoseBackup
<1>4. CASE Apply
  BY <1>4 DEF Apply, HelperStops, ApplyBegin, ApplyRejected, ApplyBackup, ApplyBackupPart,
     ApplyStart, ApplyBackupFails, ApplyIntent, ApplyAside, ApplyReplace, ApplyFinish,
     ApplyFails, Applying, Awaiting, Touching, Save, SaveFails, BackupInv, ReplaceInv
<1>5. CASE Confirm
  BY <1>5 DEF Confirm, Conclude, RollbackBegin, LastSave, SaveFails, AwaitInv
<1>6. CASE Rollback
  BY <1>6 DEF Rollback, RbSave, RbSaveFails, RbRestore, RbRestorePart, RbFinish, RbFails,
     Mark, RecoverBegin, RollingBack, Save, SaveFails, LastSave, RollbackInv
<1> QED
  BY <1>1, <1>2, <1>3, <1>4, <1>5, <1>6 DEF Next

\* A transaction moves through its states only along InstallState's edges.
THEOREM TransitionsAreLegal == Spec => LegalTransitions
  BY Invariant, TransitionStep, PTL DEF Spec, LegalTransitions

LEMMA AtomicInit == Init => Atomic!Init
  BY DEF Init, Atomic!Init, Updated, Unfinished, Settled, NoJournal

\* Each step offers an update, opens it, works on it, settles it or is invisible.
LEMMA AtomicStep == ASSUME ~Trims
                    PROVE  IInv /\ IInv' /\ [Next]_vars => [Atomic!Next]_Atomic!vars
<1> SUFFICES ASSUME IInv, IInv', [Next]_vars
             PROVE  Atomic!Next \/ UNCHANGED Atomic!vars
  OBVIOUS
<1> DEFINE Same == UNCHANGED <<root, aux>>
           Opens == Same /\ ~Unfinished /\ Unfinished' /\ root = original
           Works == UNCHANGED aux /\ Unfinished /\ Unfinished'
           Settles == Same /\ Unfinished /\ ~Unfinished' /\ root \in {original, Updated}
           Invisible == Same /\ (Unfinished <=> Unfinished')
<1>1. /\ Opens => Atomic!Open
      /\ Works => Atomic!Work
      /\ Settles => Atomic!Settle
      /\ Invisible => UNCHANGED Atomic!vars
  BY DEF Atomic!vars, Atomic!Open, Atomic!Work, Atomic!Settle, Updated, aux, IInv, TypeOK
<1>2. ASSUME NEW t \in Tokens, ArmBegin(t)
      PROVE  Atomic!Offer
  BY <1>2 DEF ArmBegin, IInv, TypeOK, DirInv, NoJournal, Unfinished, Settled, Updated,
     Atomic!Offer
<1>3. UNCHANGED vars => Invisible
  BY DEF vars, Unfinished, txn
<1>4. Launch \/ Environment => Invisible
  BY DEF Launch, LaunchCopy, HelperLoad, HelperLock, LaunchEnds,
     Environment, Crash, Tamper, LoseBackup, Unfinished, txn
<1>5. Discard => Invisible
  BY DEF Discard, DiscardBegin, RemoveEntry, RemoveDir, RemoveFails, IInv, ArmInv,
     Unfinished, Settled, NoJournal, txn
<1>6. ASSUME Arm PROVE (\E t \in Tokens : ArmBegin(t)) \/ Invisible
  BY <1>6 DEF Arm, ArmStage, ArmJournal, ArmPlan, ArmFails, IInv, ArmInv, Unfinished,
     Settled, NoJournal, aux
<1>7. ASSUME Apply PROVE Opens \/ Works \/ Invisible
  <2> USE DEF Unfinished, Settled, txn, aux, IInv
  <2>1. CASE HelperStops \/ ApplyBegin \/ ApplyRejected \/ \E i \in Items :
               ApplyBackup(i) \/ ApplyBackupPart(i)
    BY <2>1 DEF HelperStops, ApplyBegin, ApplyRejected, ApplyBackup, ApplyBackupPart
  <2>2. CASE ApplyStart \/ ApplyBackupFails
    BY <2>2 DEF ApplyStart, ApplyBackupFails, Applying, Save, BackupInv, JournalInv, TypeOK,
       Journals
  <2>3. CASE ApplyFinish \/ ApplyFails
    BY <2>3 DEF ApplyFinish, ApplyFails, Awaiting, Touching, Save, SaveFails, ReplaceInv,
       TypeOK, Journals
  <2>4. CASE \E i \in Items : ApplyIntent(i) \/ ApplyAside(i) \/ ApplyReplace(i)
    BY <2>4 DEF ApplyIntent, ApplyAside, ApplyReplace, Touching, Save, ReplaceInv, TypeOK,
       Journals
  <2> QED
    BY <1>7, <2>1, <2>2, <2>3, <2>4 DEF Apply
<1>8. Confirm => Works \/ Settles \/ Invisible
  BY DEF Confirm, Conclude, RollbackBegin, LastSave, SaveFails, IInv, AwaitInv, TypeOK,
     Journals, Unfinished, Settled, txn, aux
<1>9. ASSUME Rollback PROVE Opens \/ Works \/ Settles \/ Invisible
  <2> USE DEF Unfinished, Settled, txn, aux, IInv
  <2>1. CASE RbSave \/ RbSaveFails
    BY <2>1 DEF RbSave, RbSaveFails, RollingBack, Save, SaveFails, RollbackInv, JournalInv,
       TypeOK, Journals
  <2>2. CASE RbFinish
    <3>1. root = original
      BY <2>2 DEF RbFinish, RollbackInv, JournalInv, Consistent, TypeOK
    <3> QED
      BY <2>2, <3>1 DEF RbFinish, LastSave, SaveFails, RollbackInv, TypeOK, Journals
  <2>3. CASE RbFails \/ Mark \/ RecoverBegin
    BY <2>3 DEF RbFails, Mark, RecoverBegin, LastSave, SaveFails, TypeOK, Journals
  <2>4. CASE \E i \in Items : RbRestore(i) \/ RbRestorePart(i)
    BY <2>4 DEF RbRestore, RbRestorePart, RollbackInv
  <2> QED
    BY <1>9, <2>1, <2>2, <2>3, <2>4 DEF Rollback
<1>10. Arm => Atomic!Offer \/ Invisible
  BY <1>2, <1>6
<1> HIDE DEF Opens, Works, Settles, Invisible
<1> QED
  BY <1>1, <1>3, <1>4, <1>5, <1>7, <1>8, <1>9, <1>10 DEF Next, Atomic!Next

\* The journaled, interruptible installation is an atomic update, unless something
\* deletes files of a bundle's backup.
THEOREM Refinement == ASSUME ~Trims PROVE Spec => ImplementsAtomicUpdate
  BY Invariant, AtomicInit, AtomicStep, PTL DEF Spec, ImplementsAtomicUpdate, Atomic!Spec

-----------------------------------------------------------------------------
(* Every operation is finite: its measure falls with each step, and cannot    *)
(* fall for ever.                                                          *)

Pieces == (Items \cup Entries) \X {"copy", "intent", "aside", "entry"}
Measures == Nat \X ((SUBSET Items) \X (SUBSET Pieces))

LEMMA MeasureType == IInv => Measure \in Measures
<1> SUFFICES ASSUME IInv PROVE Measure \in Measures
  OBVIOUS
<1> USE DEF IInv, TypeOK
<1>1. Phase[pc] \in Nat
  BY DEF Point, Phase
<1>2. Left \in SUBSET Pieces
  BY DEF Left, Pieces
<1>3. todo \in SUBSET Items
  OBVIOUS
<1> DEFINE m == <<todo, Left>>
           W == (SUBSET Items) \X (SUBSET Pieces)
<1>4. m \in W
  BY <1>2, <1>3
<1> HIDE DEF m, W
<1>5. <<Phase[pc], m>> \in Nat \X W
  BY <1>1, <1>4
<1>6. Measure = <<Phase[pc], m>> /\ Measures = Nat \X W
  BY DEF Measure, Measures, m, W
<1> QED
  BY <1>5, <1>6, Zenon

LEMMA SmallerPairs == ASSUME NEW S, NEW T, NEW x, Smaller(S, T)
                      PROVE  Smaller(S \X {x}, T \X {x})
<1>1. PICK y \in T : y \notin S
  BY DEF Smaller
<1>2. <<y, x>> \in T \X {x} /\ <<y, x>> \notin S \X {x}
  BY <1>1
<1> QED
  BY <1>2 DEF Smaller

\* The three ways to get nearer to the end.
LEMMA PhaseFalls == ASSUME Phase[pc'] < Phase[pc] PROVE Lower(Measure', Measure)
  BY DEF Lower, Measure
LEMMA ItemIsDone == ASSUME pc' = pc, Smaller(todo', todo) PROVE Lower(Measure', Measure)
  BY DEF Lower, Measure
LEMMA PieceIsDone == ASSUME pc' = pc, todo' = todo, Smaller(Left', Left)
                     PROVE  Lower(Measure', Measure)
  BY DEF Lower, Measure

LEMMA ArmAdvances == ASSUME IInv, op # "none", Arm \/ Discard, vars' # vars
                     PROVE  Lower(Measure', Measure)
<1> USE DEF IInv, TypeOK, Point
<1>1. CASE Arm
  <2>1. Phase[pc'] < Phase[pc]
    BY <1>1 DEF Arm, ArmBegin, ArmStage, ArmJournal, ArmPlan, ArmFails, Unlock, Phase
  <2> QED
    BY <2>1, PhaseFalls
<1>2. CASE DiscardBegin \/ RemoveDir \/ RemoveFails
  <2>1. Phase[pc'] < Phase[pc]
    BY <1>2 DEF DiscardBegin, RemoveDir, RemoveFails, Unlock, Phase
  <2> QED
    BY <2>1, PhaseFalls
<1>3. CASE RemoveEntry
  <2> DEFINE E == {e \in Entries : Present(e)}
  <2>1. pc = "remove" /\ pc' = pc /\ todo' = todo
    BY <1>3 DEF RemoveEntry, proc
  <2>2. Smaller(E', E)
    <3>1. PICK e \in Entries : \A f \in Entries : Present(f)' <=> Present(f) /\ f # e
      BY <1>3 DEF RemoveEntry, Entries, Present
    <3>2. Present(e)
      BY <1>3, <3>1 DEF RemoveEntry, Entries, Present, vars, txn
    <3> QED
      BY <3>1, <3>2 DEF Smaller
  <2>3. Left = E \X {"entry"} /\ Left' = E' \X {"entry"}
    BY <2>1 DEF Left
  <2>4. Smaller(Left', Left)
    BY <2>2, <2>3, SmallerPairs
  <2> QED
    BY <2>1, <2>4, PieceIsDone
<1> QED
  BY <1>1, <1>2, <1>3 DEF Discard

LEMMA ApplyAdvances == ASSUME IInv, op # "none", Apply \/ Confirm, vars' # vars
                       PROVE  Lower(Measure', Measure)
<1> USE DEF IInv, TypeOK, Point
<1>1. CASE \/ HelperStops \/ ApplyBegin \/ ApplyRejected \/ ApplyStart
           \/ ApplyBackupFails \/ ApplyFinish \/ ApplyFails \/ Confirm
  <2>1. Phase[pc'] < Phase[pc]
    BY <1>1 DEF HelperStops, ApplyBegin, ApplyRejected, ApplyStart, ApplyBackupFails,
       ApplyFinish, ApplyFails, Confirm, Conclude, RollbackBegin, Save, Unlock, Phase
  <2> QED
    BY <2>1, PhaseFalls
<1>2. ASSUME NEW i \in Items, ApplyBackup(i) \/ ApplyReplace(i)
      PROVE  Lower(Measure', Measure)
  BY <1>2, ItemIsDone DEF ApplyBackup, ApplyReplace, Current, Smaller
<1>3. ASSUME NEW i \in Items, ApplyBackupPart(i)
      PROVE  Lower(Measure', Measure)
  <2> DEFINE L == {k \in todo : backup[k] # Damaged}
  <2>1. pc = "backup" /\ pc' = pc /\ todo' = todo /\ i \in todo
    BY <1>3 DEF ApplyBackupPart, proc
  <2>2. backup[i] # Damaged
    BY <1>3 DEF ApplyBackupPart, vars, txn
  <2>3. L' = L \ {i} /\ i \in L
    BY <1>3, <2>1, <2>2 DEF ApplyBackupPart
  <2>4. Left = L \X {"copy"} /\ Left' = L' \X {"copy"}
    BY <2>1 DEF Left
  <2>5. Smaller(L', L)
    BY <2>3 DEF Smaller
  <2>6. Smaller(Left', Left)
    BY <2>4, <2>5, SmallerPairs
  <2> QED
    BY <2>1, <2>6, PieceIsDone
<1>4. ASSUME NEW i \in Items, ApplyIntent(i) \/ ApplyAside(i)
      PROVE  Lower(Measure', Measure)
  <2> DEFINE L == todo \ mem.touched
             M == {k \in todo : root[k] # Absent}
  <2>1. pc = "replace" /\ pc' = pc /\ todo' = todo /\ i \in todo
    BY <1>4 DEF ApplyIntent, ApplyAside, Current, Save, proc
  <2>2. \/ L' = L \ {i} /\ i \in L /\ M' = M
        \/ M' = M \ {i} /\ i \in M /\ L' = L
    BY <1>4, <2>1 DEF ApplyIntent, ApplyAside, Current, Save, Touching, Journals, txn, proc
  <2>3. /\ Left = (L \X {"intent"}) \cup (M \X {"aside"})
        /\ Left' = (L' \X {"intent"}) \cup (M' \X {"aside"})
    BY <2>1 DEF Left
  <2>4. Smaller(Left', Left)
    <3>1. \E x \in Left : x \notin Left' /\ Left' \subseteq Left
      <4>1. CASE L' = L \ {i} /\ i \in L /\ M' = M
        <5>1. <<i, "intent">> \in Left /\ <<i, "intent">> \notin Left'
          BY <2>3, <4>1
        <5>2. Left' \subseteq Left
          BY <2>3, <4>1
        <5> QED
          BY <5>1, <5>2
      <4>2. CASE M' = M \ {i} /\ i \in M /\ L' = L
        <5>1. <<i, "aside">> \in Left /\ <<i, "aside">> \notin Left'
          BY <2>3, <4>2
        <5>2. Left' \subseteq Left
          BY <2>3, <4>2
        <5> QED
          BY <5>1, <5>2
      <4> QED
        BY <2>2, <4>1, <4>2
    <3> QED
      BY <3>1 DEF Smaller
  <2> QED
    BY <2>1, <2>4, PieceIsDone
<1> QED
  BY <1>1, <1>2, <1>3, <1>4 DEF Apply

LEMMA RollbackAdvances == ASSUME IInv, op # "none", Rollback, vars' # vars
                          PROVE  Lower(Measure', Measure)
<1> USE DEF IInv, TypeOK, Point
<1>1. CASE RbSave \/ RbSaveFails \/ RbFinish \/ RbFails \/ Mark \/ RecoverBegin
  <2>1. Phase[pc'] < Phase[pc]
    BY <1>1 DEF RbSave, RbSaveFails, RbFinish, RbFails, Mark, RecoverBegin, RollbackEnds,
       Save, Unlock, Phase
  <2> QED
    BY <2>1, PhaseFalls
<1>2. ASSUME NEW i \in Items, RbRestore(i)
      PROVE  Lower(Measure', Measure)
  BY <1>2, ItemIsDone DEF RbRestore, Smaller
<1>3. ASSUME NEW i \in Items, RbRestorePart(i)
      PROVE  Lower(Measure', Measure)
  <2> DEFINE L == {k \in todo : root[k] # Damaged}
  <2>1. pc = "restore" /\ pc' = pc /\ todo' = todo /\ i \in todo /\ root[i] # Damaged
    BY <1>3 DEF RbRestorePart, proc
  <2>2. Smaller(L', L)
    BY <1>3, <2>1 DEF RbRestorePart, Smaller
  <2>3. Left = L \X {"copy"} /\ Left' = L' \X {"copy"}
    BY <2>1 DEF Left
  <2>4. Smaller(Left', Left)
    BY <2>2, <2>3, SmallerPairs
  <2> QED
    BY <2>1, <2>4, PieceIsDone
<1> QED
  BY <1>1, <1>2, <1>3 DEF Rollback

\* Whoever holds update.lock gets nearer to giving it back with every step.
THEOREM EveryStepAdvances == Spec => WorkAdvances /\ [](Measure \in Measures)
<1>1. IInv /\ [Next]_vars =>
        [op # "none" /\ (Arm \/ Discard \/ Apply \/ Confirm \/ Rollback)
           => Lower(Measure', Measure)]_vars
  BY ArmAdvances, ApplyAdvances, RollbackAdvances
<1> QED
  BY <1>1, MeasureType, Invariant, PTL DEF Spec, WorkAdvances

LEMMA MeasureParts ==
  ASSUME NEW m \in Measures
  PROVE  \E a \in Nat, b \in SUBSET Items, c \in SUBSET Pieces : m = <<a, <<b, c>>>>
<1> DEFINE W == (SUBSET Items) \X (SUBSET Pieces)
<1>1. m \in Nat \X W
  BY DEF Measures
<1>2. \A w \in W : w = <<w[1], w[2]>> /\ w[1] \in SUBSET Items /\ w[2] \in SUBSET Pieces
  OBVIOUS
<1> HIDE DEF W
<1>3. m = <<m[1], m[2]>> /\ m[1] \in Nat /\ m[2] \in W
  BY <1>1
<1>4. m = <<m[1], <<m[2][1], m[2][2]>>>>
  BY <1>2, <1>3
<1> QED
  BY <1>2, <1>3, <1>4

\* And it does so only finitely often, without a fault in between: no sequence of measures
\* goes down for ever, however many items there are.
THEOREM NoOperationIsEndless ==
  ASSUME IsFiniteSet(Items), NEW f \in [Nat -> Measures]
  PROVE  ~ \A n \in Nat : Lower(f[n + 1], f[n])
<1> SUFFICES ASSUME \A n \in Nat : Lower(f[n + 1], f[n]) PROVE FALSE
  OBVIOUS
<1> DEFINE RN == OpToRel(<, Nat)
           RI == StrictSubsetOrdering(Items)
           RP == StrictSubsetOrdering(Pieces)
           RW == LexPairOrdering(RI, RP, SUBSET Items, SUBSET Pieces)
           R  == LexPairOrdering(RN, RW, Nat, (SUBSET Items) \X (SUBSET Pieces))
<1>1. IsWellFoundedOn(RN, Nat)
  BY NatLessThanWellFounded, Zenon
<1>2. IsWellFoundedOn(RI, SUBSET Items) /\ IsWellFoundedOn(RP, SUBSET Pieces)
  <2>1. IsFiniteSet(Pieces)
    <3>1. ASSUME NEW a, NEW b, NEW c, NEW d PROVE IsFiniteSet({a, b, c, d})
      <4>1. IsFiniteSet({a} \cup {b}) /\ IsFiniteSet({c} \cup {d})
        BY FS_Singleton, FS_Union
      <4>2. IsFiniteSet(({a} \cup {b}) \cup ({c} \cup {d}))
        BY <4>1, FS_Union
      <4>3. {a, b, c, d} = ({a} \cup {b}) \cup ({c} \cup {d})
        OBVIOUS
      <4> QED
        BY <4>2, <4>3, Zenon
    <3>2. IsFiniteSet(Entries) /\ IsFiniteSet({"copy", "intent", "aside", "entry"})
      BY <3>1, Zenon DEF Entries
    <3> QED
      BY <3>2, FS_Union, FS_Product DEF Pieces
  <2>2. FiniteSubsetsOf(Items) = SUBSET Items /\ FiniteSubsetsOf(Pieces) = SUBSET Pieces
    BY <2>1, FS_FiniteSubsetsOfFinite
  <2>3. /\ IsWellFoundedOn(RI, FiniteSubsetsOf(Items))
        /\ IsWellFoundedOn(RP, FiniteSubsetsOf(Pieces))
    BY FS_StrictSubsetOrderingWellFounded, Zenon
  <2> QED
    BY <2>2, <2>3, Zenon
<1>3. IsWellFoundedOn(RW, (SUBSET Items) \X (SUBSET Pieces))
  BY <1>2, WFLexPairOrdering, Zenon
<1>4. IsWellFoundedOn(R, Measures)
  <2> DEFINE W == (SUBSET Items) \X (SUBSET Pieces)
             RR == LexPairOrdering(RN, RW, Nat, W)
  <2>1. IsWellFoundedOn(RN, Nat) /\ IsWellFoundedOn(RW, W)
    BY <1>1, <1>3
  <2> HIDE DEF RN, RW, W
  <2>2. IsWellFoundedOn(RR, Nat \X W)
    BY <2>1, WFLexPairOrdering
  <2> QED
    BY <2>2 DEF Measures, W
<1>5. ASSUME NEW n \in Nat PROVE <<f[n + 1], f[n]>> \in R
  <2>1. f[n + 1] \in Measures /\ f[n] \in Measures /\ Lower(f[n + 1], f[n])
    OBVIOUS
  <2>2. PICK a \in Nat, b \in SUBSET Items, c \in SUBSET Pieces : f[n + 1] = <<a, <<b, c>>>>
    BY <2>1, MeasureParts
  <2>3. PICK x \in Nat, y \in SUBSET Items, z \in SUBSET Pieces : f[n] = <<x, <<y, z>>>>
    BY <2>1, MeasureParts
  <2>4. \/ a < x
        \/ a = x /\ (Smaller(b, y) \/ (b = y /\ Smaller(c, z)))
    BY <2>1, <2>2, <2>3 DEF Lower
  <2>5. /\ a < x => <<a, x>> \in RN
        /\ Smaller(b, y) => <<b, y>> \in RI
        /\ Smaller(c, z) => <<c, z>> \in RP
    BY DEF OpToRel, StrictSubsetOrdering, Smaller
  <2> HIDE DEF RN, RI, RP
  <2>6. Smaller(b, y) \/ (b = y /\ Smaller(c, z)) => <<<<b, c>>, <<y, z>>>> \in RW
    BY <2>5 DEF LexPairOrdering
  <2> HIDE DEF RW
  <2>7. <<<<a, <<b, c>>>>, <<x, <<y, z>>>>>> \in R
    BY <2>4, <2>5, <2>6 DEF LexPairOrdering
  <2> QED
    BY <2>2, <2>3, <2>7
<1> HIDE DEF R
<1> QED
  BY <1>4, <1>5, Zenon DEF IsWellFoundedOn
=============================================================================
