------------------------ MODULE InstallTransaction ------------------------
(***************************************************************************)
(* The installation transaction of src/src/install.rs: the directory       *)
(* .freshen/transaction (journal, plan, staged release, backups), the      *)
(* program files, and the one process at a time that holds update.lock.    *)
(*                                                                         *)
(* One action per step that another process, or the next boot, can see:    *)
(* every journal save, every item backed up, replaced or restored, every   *)
(* entry removed.  A crash may fall between any two of them.               *)
(***************************************************************************)
EXTENDS Integers, FiniteSets

CONSTANTS
  Items,        \* paths below the installation root, the user's own included
  Releases,     \* releases that can be offered; also the content of their items
  Inventory,    \* Inventory[r]: the items the signed manifest of r names
  Tokens,       \* handoffs: one fresh 32-byte token for each call of arm
  ReleaseOf,    \* the release a handoff installs
  Contents,     \* what an item can hold
  Installed,    \* what is installed at the start
  Absent,       \* no file or directory at this path
  Damaged,      \* bytes no manifest vouches for: half copied, or tampered with
  NoToken,
  NoRelease,
  Bundle,       \* TRUE: MacBundle layout, one directory; FALSE: Portable, files
  Faults        \* which of "io", "crash", "tamper", "lose" may happen

ASSUME ItemsAssumption ==
  /\ Inventory \in [Releases -> SUBSET Items]
  /\ ReleaseOf \in [Tokens -> Releases]
  /\ Installed \in [Items -> Contents]
  /\ Releases \cup {Absent, Damaged} \subseteq Contents
ASSUME NamesAssumption ==
  /\ Absent # Damaged
  /\ {Absent, Damaged, NoRelease} \cap Releases = {}
  /\ Damaged # NoRelease
  /\ NoToken \notin Tokens
  /\ Bundle \in BOOLEAN
\* A bundle is installed as one item, the bundle directory itself.
ASSUME BundleAssumption ==
  Bundle => \A r \in Releases : \A i, j \in Inventory[r] : i = j

VARIABLES
  root,         \* root[i]: the program file (or bundle) installed at i
  dir,          \* does .freshen/transaction exist?
  journal,      \* journal.json; its state is "None" while there is no such file
  plan,         \* token of plan.json, NoToken when there is none
  stage,        \* transaction/stage: a complete release, NoRelease or Damaged
  backup,       \* transaction/backup, per item
  op,           \* the operation holding update.lock; "none" when it is free
  pc,           \* where that operation is
  mem,          \* its copy of the journal in memory
  todo,         \* the items its current loop has not finished
  mine,         \* token of the plan it has loaded
  launch,       \* launch[t]: how far starting helper t, outside the lock, got
  original,     \* auxiliary: the program files when the transaction was made
  goal          \* auxiliary: the release the transaction is to install

txn  == <<dir, journal, plan, stage, backup>>
proc == <<op, pc, mem, todo, mine>>
aux  == <<original, goal>>
vars == <<root, txn, proc, launch, aux>>

States == {"None", "Prepared", "Applying", "AwaitingConfirmation", "Committed",
           "RollingBack", "RolledBack", "Failed"}
Journals == [state : States, touched : SUBSET Items, existing : SUBSET Items]
NoJournal == [state |-> "None", touched |-> {}, existing |-> {}]
Empty == [i \in Items |-> Absent]

Settled == {"None", "Prepared", "Committed", "RolledBack"}
Unfinished == journal.state \notin Settled

\* What the program files are once the transaction has succeeded.
Updated == IF goal = NoRelease THEN original
           ELSE [i \in Items |-> IF i \in Inventory[goal] THEN goal ELSE original[i]]

\* pc is a point of the operation op.
Point == \/ op = "none" /\ pc = "idle"
         \/ op = "arm" /\ pc \in {"stage", "journal", "plan", "remove"}
         \/ op = "apply" /\ pc \in {"wait", "backup", "replace", "rbSave", "restore",
                                  "mark"}
         \/ op = "confirm" /\ pc \in {"await", "rbSave", "restore"}
         \/ op = "recover" /\ pc \in {"rbSave", "restore"}
         \/ op = "discard" /\ pc = "remove"

\* Every variable has its type, and whoever holds the lock is inside an operation.
TypeOK ==
  /\ root \in [Items -> Contents] /\ original \in [Items -> Contents]
  /\ dir \in BOOLEAN
  /\ journal \in Journals /\ mem \in Journals
  /\ plan \in Tokens \cup {NoToken} /\ mine \in Tokens \cup {NoToken}
  /\ stage \in Releases \cup {NoRelease, Damaged}
  /\ goal \in Releases \cup {NoRelease}
  /\ backup \in [Items -> Contents]
  /\ Point
  /\ todo \in SUBSET Items
  /\ launch \in [Tokens -> {"new", "closed", "copying", "spawned", "loaded"}]

Init ==
  /\ root = Installed /\ original = Installed
  /\ goal = NoRelease
  /\ dir = FALSE /\ journal = NoJournal /\ plan = NoToken
  /\ stage = NoRelease /\ backup = Empty
  /\ op = "none" /\ pc = "idle" /\ mem = NoJournal /\ todo = {} /\ mine = NoToken
  /\ launch = [t \in Tokens |-> "new"]

-----------------------------------------------------------------------------
(* Locking and saving. *)

\* The holder of update.lock returns (or dies): the lock file is released.
Unlock == /\ op' = "none" /\ pc' = "idle"
          /\ mem' = NoJournal /\ todo' = {} /\ mine' = NoToken

\* atomic_write succeeds, and the caller goes on to step `next'.
Save(j, next) == /\ journal' = j /\ mem' = j /\ pc' = next

\* atomic_write reports an error: the rename may have happened all the same,
\* because the directory is synced after it.
SaveFails(j) == /\ "io" \in Faults
                /\ journal' \in {journal, j}

\* A last save whose error is only reported.
LastSave(j) == journal' = j \/ SaveFails(j)

-----------------------------------------------------------------------------
(* PreparedUpdate::arm, which runs in the application. *)

ArmBegin(t) ==
  /\ op = "none" /\ launch[t] = "new"
  /\ ~dir                             \* or "resolve or discard the previous ..."
  /\ dir' = TRUE
  /\ op' = "arm" /\ pc' = "stage" /\ mine' = t
  /\ launch' = [launch EXCEPT ![t] = "closed"]
  /\ original' = root /\ goal' = ReleaseOf[t]
  /\ UNCHANGED <<root, journal, plan, stage, backup, mem, todo>>

\* copy_tree of the staged files and verify_stage.
ArmStage == /\ op = "arm" /\ pc = "stage"
            /\ stage' = ReleaseOf[mine]
            /\ pc' = "journal"
            /\ UNCHANGED <<root, dir, journal, plan, backup, op, mem, todo, mine,
                           launch, aux>>

ArmJournal == /\ op = "arm" /\ pc = "journal"
              /\ journal' = [NoJournal EXCEPT !.state = "Prepared"]
              /\ pc' = "plan"
              /\ UNCHANGED <<root, dir, plan, stage, backup, op, mem, todo, mine,
                             launch, aux>>

\* The plan is written last; the lock is dropped before launch is called.
ArmPlan == /\ op = "arm" /\ pc = "plan"
           /\ plan' = mine
           /\ launch' = [launch EXCEPT ![mine] = "copying"]
           /\ Unlock
           /\ UNCHANGED <<root, dir, journal, stage, backup, aux>>

\* Any step fails, perhaps after taking effect: the directory is removed again.
ArmFails == /\ op = "arm" /\ pc \in {"stage", "journal", "plan"}
            /\ "io" \in Faults
            /\ pc' = "remove"
            /\ stage' \in {stage} \cup (IF pc = "stage" THEN {Damaged} ELSE {})
            /\ journal' \in {journal} \cup (IF pc = "journal"
                 THEN {[NoJournal EXCEPT !.state = "Prepared"]} ELSE {})
            /\ plan' \in {plan} \cup (IF pc = "plan" THEN {mine} ELSE {})
            /\ UNCHANGED <<root, dir, backup, op, mem, todo, mine, launch, aux>>

-----------------------------------------------------------------------------
(* discard_finished_installation, and remove_tree of the directory. *)

\* Mutant: a failed installation may be discarded too.
DiscardableAlsoFailed == {"Committed", "RolledBack", "Prepared", "Failed"}

Discardable == {"Committed", "RolledBack", "Prepared"}

DiscardBegin == /\ op = "none" /\ dir
                /\ journal.state \in Discardable
                /\ op' = "discard" /\ pc' = "remove"
                /\ UNCHANGED <<root, txn, mem, todo, mine, launch, aux>>

\* remove_dir_all deletes the entries one by one, in no particular order.
RemoveEntry ==
  /\ pc = "remove"
  /\ \/ journal' = NoJournal /\ UNCHANGED <<plan, stage, backup>>
     \/ plan' = NoToken /\ UNCHANGED <<journal, stage, backup>>
     \/ stage' = NoRelease /\ UNCHANGED <<journal, plan, backup>>
     \/ backup' = Empty /\ UNCHANGED <<journal, plan, stage>>
  /\ UNCHANGED <<root, dir, proc, launch, aux>>

RemoveDir == /\ pc = "remove"
             /\ journal = NoJournal /\ plan = NoToken
             /\ stage = NoRelease /\ backup = Empty
             /\ dir' = FALSE
             /\ Unlock
             /\ UNCHANGED <<root, journal, plan, stage, backup, launch, aux>>

\* arm ignores the error, discard reports it; either way what is left stays.
RemoveFails == /\ pc = "remove" /\ "io" \in Faults
               /\ Unlock
               /\ UNCHANGED <<root, txn, launch, aux>>

-----------------------------------------------------------------------------
(* helper::launch and the start of run_helper, both outside the lock. *)

\* copy_file creates the directory again if it was discarded meanwhile.
LaunchCopy(t) == /\ launch[t] = "copying"
                 /\ dir' = TRUE
                 /\ launch' = [launch EXCEPT ![t] = "spawned"]
                 /\ UNCHANGED <<root, journal, plan, stage, backup, proc, aux>>

\* load_plan and the token check ...
HelperLoad(t) == /\ launch[t] = "spawned"
                 /\ plan = t
                 /\ launch' = [launch EXCEPT ![t] = "loaded"]
                 /\ UNCHANGED <<root, txn, proc, aux>>

\* Mutant: the stage is not verified under the lock.
HelperLockUnverified(t) == /\ launch[t] = "loaded" /\ op = "none"
                           /\ op' = "apply" /\ pc' = "wait" /\ mine' = t
                           /\ launch' = [launch EXCEPT ![t] = "closed"]
                           /\ UNCHANGED <<root, txn, mem, todo, aux>>

\* ... come before the lock and the first verify_stage.
HelperLock(t) == /\ launch[t] = "loaded"
                 /\ op = "none"
                 /\ stage = ReleaseOf[t]
                 /\ op' = "apply" /\ pc' = "wait" /\ mine' = t
                 /\ launch' = [launch EXCEPT ![t] = "closed"]
                 /\ UNCHANGED <<root, txn, mem, todo, aux>>

\* The copy or the spawn fails, the plan is not there or has another token, the
\* lock is busy, the stage does not verify, or launch kills a late helper.
LaunchEnds(t) == /\ launch[t] \in {"copying", "spawned", "loaded"}
                 /\ launch' = [launch EXCEPT ![t] = "closed"]
                 /\ UNCHANGED <<root, txn, proc, aux>>

-----------------------------------------------------------------------------
(* helper::execute up to the relaunch: apply. *)

\* Cancelled, past its deadline, or unable to watch the application.
HelperStops == /\ pc = "wait"
               /\ Unlock
               /\ UNCHANGED <<root, txn, launch, aux>>

\* What verify_stage and the check of the journal let through.
Applicable == stage = ReleaseOf[mine] /\ journal.state = "Prepared"

ApplyBegin == /\ pc = "wait" /\ Applicable
              /\ pc' = "backup" /\ mem' = journal
              /\ todo' = Inventory[ReleaseOf[mine]]
              /\ UNCHANGED <<root, txn, op, mine, launch, aux>>

ApplyRejected == /\ pc = "wait" /\ ~Applicable
                 /\ pc' = "mark"
                 /\ UNCHANGED <<root, txn, op, mem, todo, mine, launch, aux>>

\* An item that exists is copied; one that does not is only noted as missing.
ApplyBackup(i) ==
  /\ pc = "backup" /\ i \in todo
  /\ todo' = todo \ {i}
  /\ backup' = IF root[i] = Absent THEN backup ELSE [backup EXCEPT ![i] = root[i]]
  /\ mem' = IF root[i] = Absent THEN mem ELSE [mem EXCEPT !.existing = @ \cup {i}]
  /\ UNCHANGED <<root, dir, journal, plan, stage, op, pc, mine, launch, aux>>

\* A bundle is copied file by file.
ApplyBackupPart(i) ==
  /\ pc = "backup" /\ Bundle /\ i \in todo
  /\ root[i] # Absent /\ backup[i] # root[i]
  /\ backup' = [backup EXCEPT ![i] = Damaged]
  /\ UNCHANGED <<root, dir, journal, plan, stage, proc, launch, aux>>

\* Nothing is installed before this save has succeeded.
Applying == [mem EXCEPT !.state = "Applying"]
\* Mutant: applying starts before every item is backed up.
ApplyStartEarly == /\ pc = "backup"
                   /\ Save(Applying, "replace")
                   /\ todo' = Inventory[ReleaseOf[mine]]
                   /\ UNCHANGED <<root, dir, plan, stage, backup, op, mine, launch, aux>>

ApplyStart == /\ pc = "backup" /\ todo = {}
              /\ Save(Applying, "replace")
              /\ todo' = Inventory[ReleaseOf[mine]]
              /\ UNCHANGED <<root, dir, plan, stage, backup, op, mine, launch, aux>>

\* A backup fails, or that save does: apply returns without a rollback.
ApplyBackupFails == /\ pc = "backup"
                    /\ "io" \in Faults
                    /\ journal' \in {journal} \cup (IF todo = {} THEN {Applying} ELSE {})
                    /\ pc' = "mark"
                    /\ UNCHANGED <<root, dir, plan, stage, backup, op, mem, todo,
                                   mine, launch, aux>>

\* The item being replaced: touched and not done.
Current == todo \cap mem.touched
Touching(i) == [mem EXCEPT !.touched = @ \cup {i}]

\* Mutant: the intent is only noted in memory.
ApplyIntentUnsaved(i) == /\ pc = "replace" /\ Current = {} /\ i \in todo
                         /\ mem' = Touching(i)
                         /\ UNCHANGED <<root, txn, op, pc, todo, mine, launch, aux>>

ApplyIntent(i) == /\ pc = "replace" /\ Current = {} /\ i \in todo
                  /\ Save(Touching(i), pc)
                  /\ UNCHANGED <<root, dir, plan, stage, backup, op, todo, mine,
                                 launch, aux>>

\* A bundle is first renamed out of the way, to previous-bundle.
ApplyAside(i) == /\ pc = "replace" /\ Bundle /\ i \in Current
                 /\ root[i] # Absent
                 /\ root' = [root EXCEPT ![i] = Absent]
                 /\ UNCHANGED <<txn, proc, launch, aux>>

\* The staged bundle is renamed in, so it leaves the stage; files are copied.
ApplyReplace(i) == /\ pc = "replace" /\ i \in Current
                   /\ Bundle => root[i] = Absent
                   /\ root' = [root EXCEPT ![i] = stage]
                   /\ stage' = IF Bundle THEN NoRelease ELSE stage
                   /\ todo' = todo \ {i}
                   /\ UNCHANGED <<dir, journal, plan, backup, op, pc, mem, mine,
                                  launch, aux>>

Awaiting == [mem EXCEPT !.state = "AwaitingConfirmation"]
ApplyFinish == /\ pc = "replace" /\ todo = {}
               /\ Save(Awaiting, "await")
               /\ op' = "confirm"
               /\ UNCHANGED <<root, dir, plan, stage, backup, todo, mine, launch, aux>>

\* A failure once the journal says Applying: roll back with what memory says.
ApplyFails == /\ pc = "replace"
              /\ \/ /\ "io" \in Faults /\ mem' = mem /\ UNCHANGED journal
                 \/ \E i \in todo : /\ Current = {} /\ mem' = Touching(i)
                                    /\ SaveFails(Touching(i))
                 \/ todo = {} /\ mem' = Awaiting /\ SaveFails(Awaiting)
              /\ pc' = "rbSave"
              /\ UNCHANGED <<root, dir, plan, stage, backup, op, todo, mine, launch, aux>>

-----------------------------------------------------------------------------
(* helper::execute from the relaunch on. *)

\* install::finish: Committed on the acknowledgement, Failed on the deadline.
Conclude(s) == /\ pc = "await"
               /\ LastSave([journal EXCEPT !.state = s])
               /\ Unlock
               /\ UNCHANGED <<root, dir, plan, stage, backup, launch, aux>>

\* The new application could not be started, or exited without a confirmation.
RollbackBegin == /\ pc = "await"
                 /\ pc' = "rbSave" /\ mem' = journal
                 /\ UNCHANGED <<root, txn, op, todo, mine, launch, aux>>

-----------------------------------------------------------------------------
(* rollback_inner, called by apply, by rollback and by recover_installation. *)

\* After an error apply's caller looks at the journal once more.
RollbackEnds == IF op = "apply"
                THEN pc' = "mark" /\ UNCHANGED <<op, mem, todo, mine>>
                ELSE Unlock

RollingBack == [mem EXCEPT !.state = "RollingBack"]
RbSave == /\ pc = "rbSave"
          /\ Save(RollingBack, "restore")
          /\ todo' = mem.touched
          /\ UNCHANGED <<root, dir, plan, stage, backup, op, mine, launch, aux>>

RbSaveFails == /\ pc = "rbSave"
               /\ SaveFails(RollingBack)
               /\ RollbackEnds
               /\ UNCHANGED <<root, dir, plan, stage, backup, launch, aux>>

\* Mutant: a missing backup is taken for a missing file.
CanRestoreAnyway(i) == i \in Inventory[ReleaseOf[mine]]

\* The item is one of the plan's, and its backup is there if it needs one.
CanRestore(i) == /\ i \in Inventory[ReleaseOf[mine]]
                 /\ i \in mem.existing => backup[i] # Absent

Before(i) == IF i \in mem.existing THEN backup[i] ELSE Absent
\* Mutant: the loop retries an item that it has restored.
RbRestoreAgain(i) == /\ pc = "restore" /\ i \in todo /\ CanRestore(i)
                     /\ root' = [root EXCEPT ![i] = Before(i)]
                     /\ UNCHANGED <<txn, proc, launch, aux>>

RbRestore(i) == /\ pc = "restore" /\ i \in todo /\ CanRestore(i)
                /\ root' = [root EXCEPT ![i] = Before(i)]
                /\ todo' = todo \ {i}
                /\ UNCHANGED <<txn, op, pc, mem, mine, launch, aux>>

\* A bundle is deleted and copied back file by file.
RbRestorePart(i) == /\ pc = "restore" /\ Bundle /\ i \in todo /\ CanRestore(i)
                    /\ root[i] # Damaged /\ {root[i], Before(i)} # {Absent}
                    /\ root' = [root EXCEPT ![i] = Damaged]
                    /\ UNCHANGED <<txn, proc, launch, aux>>

\* Mutant: an item that cannot be restored is skipped.
RbFinishEarly == /\ pc = "restore"
                 /\ LastSave([mem EXCEPT !.state = "RolledBack"])
                 /\ RollbackEnds
                 /\ UNCHANGED <<root, dir, plan, stage, backup, launch, aux>>

RbFinish == /\ pc = "restore" /\ todo = {}
            /\ LastSave([mem EXCEPT !.state = "RolledBack"])
            /\ RollbackEnds
            /\ UNCHANGED <<root, dir, plan, stage, backup, launch, aux>>

\* Mutant: a rollback that fails begins again.
RbFailsRetries == /\ pc = "restore"
                  /\ "io" \in Faults \/ \E i \in todo : ~CanRestore(i)
                  /\ pc' = "rbSave"
                  /\ UNCHANGED <<root, txn, op, mem, todo, mine, launch, aux>>

RbFails == /\ pc = "restore"
           /\ "io" \in Faults \/ \E i \in todo : ~CanRestore(i)
           /\ RollbackEnds
           /\ UNCHANGED <<root, txn, launch, aux>>

\* A rollback that did not end is marked Failed, if that save succeeds.
Mark == /\ pc = "mark"
        /\ IF journal.state = "RollingBack"
           THEN LastSave([journal EXCEPT !.state = "Failed"])
           ELSE UNCHANGED journal
        /\ Unlock
        /\ UNCHANGED <<root, dir, plan, stage, backup, launch, aux>>

\* Mutant: no early return for a transaction that is over.
RecoverBeginAlways == /\ op = "none" /\ plan # NoToken /\ journal.state # "None"
                      /\ op' = "recover" /\ pc' = "rbSave"
                      /\ mine' = plan /\ mem' = journal
                      /\ UNCHANGED <<root, txn, todo, launch, aux>>

\* Mutant: Failed is taken for a final state too.
RecoverBeginUnlessFailed == /\ op = "none" /\ plan # NoToken
                            /\ journal.state \notin {"None", "Committed", "RolledBack",
                                                     "Failed"}
                            /\ op' = "recover" /\ pc' = "rbSave"
                            /\ mine' = plan /\ mem' = journal
                            /\ UNCHANGED <<root, txn, todo, launch, aux>>

\* recover_installation, on a later boot.
RecoverBegin == /\ op = "none"
                /\ plan # NoToken
                /\ journal.state \notin {"None", "Committed", "RolledBack"}
                /\ op' = "recover" /\ pc' = "rbSave" /\ mine' = plan /\ mem' = journal
                /\ UNCHANGED <<root, txn, todo, launch, aux>>

-----------------------------------------------------------------------------
(* What the machine and other programs do. *)

\* The process holding the lock dies, and its lock with it.
Crash == /\ op # "none" /\ "crash" \in Faults
         /\ Unlock
         /\ UNCHANGED <<root, txn, launch, aux>>

\* Something writes into the stage while nobody is reading it.
Tamper == /\ op = "none" \/ pc = "wait"
          /\ "tamper" \in Faults /\ stage # NoRelease
          /\ stage' = Damaged
          /\ UNCHANGED <<root, dir, journal, plan, backup, proc, launch, aux>>

\* Something deletes a backup: all of it, or some of the files of a bundle.
LoseBackup(i) == /\ "lose" \in Faults /\ backup[i] # Absent
                 /\ \E left \in {Absent} \cup (IF Bundle THEN {Damaged} ELSE {}) :
                       backup' = [backup EXCEPT ![i] = left]
                 /\ UNCHANGED <<root, dir, journal, plan, stage, proc, launch, aux>>

Arm == (\E t \in Tokens : ArmBegin(t)) \/ ArmStage \/ ArmJournal \/ ArmPlan \/ ArmFails
Discard == DiscardBegin \/ RemoveEntry \/ RemoveDir \/ RemoveFails
Launch == \E t \in Tokens :
            LaunchCopy(t) \/ HelperLoad(t) \/ HelperLock(t) \/ LaunchEnds(t)
Apply == \/ HelperStops \/ ApplyBegin \/ ApplyRejected \/ ApplyStart
         \/ ApplyBackupFails \/ ApplyFinish \/ ApplyFails
         \/ \E i \in Items : \/ ApplyBackup(i) \/ ApplyBackupPart(i) \/ ApplyIntent(i)
                             \/ ApplyAside(i) \/ ApplyReplace(i)
Confirm == Conclude("Committed") \/ Conclude("Failed") \/ RollbackBegin
Rollback == \/ RbSave \/ RbSaveFails \/ RbFinish \/ RbFails \/ Mark \/ RecoverBegin
            \/ \E i \in Items : RbRestore(i) \/ RbRestorePart(i)
Environment == Crash \/ Tamper \/ \E i \in Items : LoseBackup(i)

Next == Arm \/ Discard \/ Launch \/ Apply \/ Confirm \/ Rollback \/ Environment

Spec == Init /\ [][Next]_vars

\* Whoever holds the lock goes on, unless it fails: the waits of execute end at their
\* deadlines, and every retry loop gives up after ten seconds.
IoFailure == \/ ArmFails \/ RemoveFails \/ ApplyBackupFails \/ ApplyFails \/ RbSaveFails
             \/ RbFails /\ \A i \in todo : CanRestore(i)
Holder == op # "none" /\ (Arm \/ Discard \/ Apply \/ Confirm \/ Rollback) /\ ~IoFailure

\* "Run before normal startup when status is Applying/RollingBack/Failed"
\* (recover_installation): a host does so in these states, and may in others.
RecoveryNeeded == journal.state \in {"Applying", "RollingBack", "Failed"}
FairSpec == Spec /\ WF_vars(Holder) /\ WF_vars(RecoverBegin /\ RecoveryNeeded)

-----------------------------------------------------------------------------
(* Properties. *)

\* What finish and rollback_inner report is so: a transaction that says it is
\* committed has installed every item of its release and no other, one that says
\* it is rolled back has left the program files exactly as arm found them.
\* rollback_inner only asks whether a backup exists, so this is said of files, whose
\* backups are there or not, and of bundles whose backups are left alone (~Trims).
\* "Recovery failures remain visible rather than reporting success" (README): what is
\* reported as rolled back is rolled back.
RecoveryFailuresAreVisible == journal.state = "RolledBack" => root = original
TerminalTruthful == /\ journal.state = "Committed" => root = Updated
                    /\ RecoveryFailuresAreVisible

\* The program files that recovery from journal j would produce.
RolledBackRoot(j) == [i \in Items |-> IF i \notin j.touched THEN root[i]
                                     ELSE IF i \in j.existing THEN backup[i]
                                     ELSE Absent]

\* "Backups are durable beforehand" (Journal): as soon as the journal on disk is
\* unfinished, and for as long as it is, the journal and the backups on disk are
\* enough to get the original files back, whoever dies and wherever.
Restorable ==
  Unfinished => /\ goal \in Releases /\ journal.touched \subseteq Inventory[goal]
                /\ RolledBackRoot(journal) = original

\* arm refuses a second transaction and says to "resolve or discard the previous"
\* one: with nothing running, discard or recover_installation can do that.
RefusedArmCanBeResolved ==
  dir /\ op = "none" =>
     journal.state \in Discardable \/ (Unfinished /\ plan # NoToken)

\* Program files never hold anything but what was there or what the manifest
\* names; a bundle may be absent or half copied, but only while the journal says
\* that the update is unfinished.  (Its backup being left alone, as above.)
OnlyVouchedBytes ==
  \A i \in Items : root[i] \in {original[i], Updated[i]} \/ (Bundle /\ Unfinished)

\* "Write intent before changing any target" (Journal): a program file changes
\* only while the journal on disk is unfinished and names it, and only while
\* update.lock is held.
IntentFirst ==
  [][\A i \in Items : root'[i] # root[i] =>
        op # "none" /\ Unfinished /\ i \in journal.touched]_vars

\* The life of a transaction as the states of InstallState tell it.  A terminal
\* state is left only by discarding, and a helper that comes late (its plan was
\* loaded before it had the lock) cannot start or undo a transaction twice.
Follows == [None                 |-> {"Prepared"},
            Prepared             |-> {"Applying", "RollingBack", "None"},
            Applying             |-> {"AwaitingConfirmation", "RollingBack"},
            AwaitingConfirmation |-> {"Committed", "Failed", "RollingBack"},
            Committed            |-> {"None"},
            RollingBack          |-> {"RolledBack", "Failed"},
            RolledBack           |-> {"None"},
            Failed               |-> {"RollingBack"}]
LegalTransitions ==
  [][journal'.state # journal.state => journal'.state \in Follows[journal.state]]_vars

\* The transaction is an atomic update of the program files.
Atomic == INSTANCE AtomicUpdate
            WITH FileSets <- [Items -> Contents],
                 files <- root, before <- original, after <- Updated,
                 phase <- IF Unfinished THEN "open" ELSE "settled"
ImplementsAtomicUpdate == Atomic!Spec

\* No operation holds update.lock for ever, so Error::Busy is not for ever either.
OperationsEnd == op # "none" ~> op = "none"

\* Once machines stop failing, a host that recovers in the states it is told to gets
\* an update out of them, from whatever point it was interrupted at (as long as
\* recovery finds its plan: a helper reads it before it has the lock, and discard may
\* then remove the plan, fail, and leave the helper to install without).
RecoveryFails == /\ op = "recover"
                 /\ RbSaveFails \/ RbFails \/ (RbFinish /\ journal'.state # "RolledBack")
RecoverySettles ==
  <>[][~(Crash \/ RecoveryFails)]_vars
    => ((RecoveryNeeded /\ plan # NoToken) ~> ~RecoveryNeeded)

\* How far the holder of update.lock is from giving it back: the phases before it, the
\* items its loop has not done, and what it has not done of them.
Phase == [idle |-> 0, remove |-> 1, mark |-> 1, restore |-> 2, rbSave |-> 3, await |-> 4,
          replace |-> 5, backup |-> 6, wait |-> 7, plan |-> 2, journal |-> 3, stage |-> 4]
Entries == {"journal", "plan", "stage", "backup"}
Present(e) == CASE e = "journal" -> journal # NoJournal
                [] e = "plan" -> plan # NoToken
                [] e = "stage" -> stage # NoRelease
                [] e = "backup" -> backup # Empty
Left == CASE pc = "backup" -> {i \in todo : backup[i] # Damaged} \X {"copy"}
          [] pc = "replace" -> ((todo \ mem.touched) \X {"intent"})
                                 \cup ({i \in todo : root[i] # Absent} \X {"aside"})
          [] pc = "restore" -> {i \in todo : root[i] # Damaged} \X {"copy"}
          [] pc = "remove" -> {e \in Entries : Present(e)} \X {"entry"}
          [] OTHER -> {}
Measure == <<Phase[pc], <<todo, Left>>>>

Smaller(S, T) == S \subseteq T /\ S # T
Lower(m, n) == \/ m[1] < n[1]
               \/ m[1] = n[1] /\ \/ Smaller(m[2][1], n[2][1])
                                 \/ m[2][1] = n[2][1] /\ Smaller(m[2][2], n[2][2])

\* Nothing the holder of update.lock does, failing or not, takes it back to work it has
\* done: every step brings it nearer to giving the lock back.
WorkAdvances ==
  [][op # "none" /\ (Arm \/ Discard \/ Apply \/ Confirm \/ Rollback)
       => Lower(Measure', Measure)]_vars

-----------------------------------------------------------------------------
(* Why it is correct: the inductive invariant behind those properties. *)

\* A backup can have lost files and still exist: only a bundle's.
Trims == Bundle /\ "lose" \in Faults

\* A backup is the original, unless something else deleted from it.
BackedUp(i) == \/ backup[i] = original[i]
               \/ "lose" \in Faults /\ backup[i] = Absent
               \/ Trims /\ backup[i] = Damaged

\* The original can be told from journal j: what j does not name is untouched,
\* and what it names is backed up or was not there.
Consistent(j) ==
  /\ goal \in Releases /\ j.touched \subseteq Inventory[goal]
  /\ \A i \in Items \ j.touched : root[i] = original[i]
  /\ \A i \in j.touched : IF i \in j.existing THEN BackedUp(i)
                          ELSE original[i] = Absent

\* The rollback set of j is complete for the items in S.
Captured(j, S) == \A i \in S : IF i \in j.existing THEN BackedUp(i)
                               ELSE original[i] = Absent

DirInv == ~dir => /\ journal = NoJournal /\ plan = NoToken /\ stage = NoRelease
                  /\ op = "none"

GoalInv == /\ stage \in {NoRelease, Damaged, goal}
           /\ plan # NoToken => ReleaseOf[plan] = goal
           /\ op \in {"arm", "apply", "confirm", "recover"} =>
                 mine \in Tokens /\ ReleaseOf[mine] = goal

JournalInv == /\ journal.state = "None" => journal = NoJournal
              /\ journal.state = "Prepared" =>
                    /\ goal \in Releases /\ root = original
                    /\ journal.touched = {} /\ journal.existing = {}
              /\ Unfinished => Consistent(journal)
              /\ journal.state = "AwaitingConfirmation" => root = Updated
              /\ journal.state = "Committed" => root = Updated
              /\ Trims \/ RecoveryFailuresAreVisible

ArmInv == /\ op = "arm" => root = original /\ journal.state \in {"None", "Prepared"}
          /\ pc \in {"stage", "journal"} => journal.state = "None"
          /\ pc = "remove" => ~Unfinished

BackupInv == pc = "backup" =>
  /\ journal.state = "Prepared" /\ stage = goal /\ mem.touched = {}
  /\ todo \subseteq Inventory[goal] /\ mem.existing \cap todo = {}
  /\ Captured(mem, Inventory[goal] \ todo)

ReplaceInv == pc = "replace" =>
  /\ journal = mem /\ mem.state = "Applying"
  /\ todo \subseteq Inventory[goal] /\ Captured(mem, Inventory[goal])
  /\ \A i \in Inventory[goal] \ todo : i \in mem.touched /\ root[i] = goal
  /\ stage = goal \/ todo = {}

AwaitInv == pc = "await" => journal.state = "AwaitingConfirmation" /\ root = Updated

RollbackInv ==
  /\ pc = "rbSave" => Consistent(mem) /\ (Unfinished \/ journal.state = "Prepared")
  /\ pc = "restore" => /\ journal = mem /\ mem.state = "RollingBack"
                       /\ todo \subseteq mem.touched
                       /\ Trims \/ (\A i \in mem.touched \ todo : root[i] = original[i])

IInv == /\ TypeOK /\ DirInv /\ GoalInv /\ JournalInv /\ ArmInv /\ BackupInv
        /\ ReplaceInv /\ AwaitInv /\ RollbackInv /\ (Trims \/ OnlyVouchedBytes)
=============================================================================
