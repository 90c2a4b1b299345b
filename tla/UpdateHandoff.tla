--------------------------- MODULE UpdateHandoff ---------------------------
(***************************************************************************)
(* The processes around one installation (src/src/helper.rs): the          *)
(* application that arms an update, the helper it launches, and the new     *)
(* application the helper starts.  They share the lock, the journal and     *)
(* three files of the transaction directory: ready, cancel and confirmed.   *)
(*                                                                         *)
(* Every step of InstallTransaction is a step here, with what the protocol *)
(* adds to its guard; a helper looks at one thing at a time, so that every  *)
(* other process may move between two of its looks.                        *)
(***************************************************************************)
EXTENDS InstallTransaction

CONSTANTS
  Executable,   \* the item with the program that is started (InstallPolicy)
  HoldsProgram  \* HoldsProgram[r]: the contents in which it is the program of r

ASSUME ProgramAssumption ==
  /\ \A r \in Releases : Executable \in Inventory[r]
  /\ HoldsProgram \in [Releases -> SUBSET Contents]
  /\ \A r \in Releases : r \in HoldsProgram[r] /\ Absent \notin HoldsProgram[r]

VARIABLES
  app,          \* app[t]: the process that called arm for t
  look,         \* what the helper holding the lock is about to look at or do
  ready,        \* token in the ready file
  cancel,       \* does the cancel file exist?  It holds no token.
  confirmed,    \* token in the confirmed file
  child,        \* child[t]: the new application that helper t started
  succeeded,    \* the helpers that ended with exit status 0
  acked,        \* auxiliary: the children whose confirm_startup returned true
  asked         \* auxiliary: the applications that called cancel

marks    == <<ready, cancel, confirmed>>
procs    == <<app, child>>
past     == <<succeeded, acked, asked>>
hvars    == <<procs, look, marks, past>>
allVars  == <<vars, hvars>>

HandoffTypeOK ==
  /\ TypeOK
  /\ app \in [Tokens -> {"running", "launching", "killing", "armed", "cancelling",
                         "cancelled", "exited"}]
  /\ look \in {"nothing", "verify", "cancel", "parent", "again", "go",
               "spawn", "ack", "child", "deadline"}
  /\ ready \in Tokens \cup {NoToken} /\ confirmed \in Tokens \cup {NoToken}
  /\ cancel \in BOOLEAN
  /\ child \in [Tokens -> {"none", "running", "planned", "hashed", "checked",
                           "acked", "exited"}]
  /\ succeeded \subseteq Tokens /\ acked \subseteq Tokens /\ asked \subseteq Tokens

HandoffInit ==
  /\ Init
  /\ app = [t \in Tokens |-> "running"] /\ child = [t \in Tokens |-> "none"]
  /\ look = "nothing"
  /\ ready = NoToken /\ cancel = FALSE /\ confirmed = NoToken
  /\ succeeded = {} /\ acked = {} /\ asked = {}

\* The lock is held by helper t; and: there is a process that is helper t.
Holds(t) == op \in {"apply", "confirm"} /\ mine = t
Alive(t) == launch[t] \in {"spawned", "loaded"} \/ Holds(t)

\* A helper that has ended looks at nothing.
LooksOn == look' = IF op' = "none" THEN "nothing" ELSE look

-----------------------------------------------------------------------------
(* The application: arm, launch, Handoff. *)

\* arm goes on into launch after it dropped the lock.
ArmDone == /\ ArmPlan
           /\ app' = [app EXCEPT ![mine] = "launching"]
           /\ UNCHANGED <<look, marks, child, past>>

Copies(t) == LaunchCopy(t) /\ UNCHANGED hvars

\* launch cannot copy or spawn the helper.
CopyFails(t) == /\ launch[t] = "copying" /\ LaunchEnds(t)
                /\ app' = [app EXCEPT ![t] = "running"]
                /\ UNCHANGED <<look, marks, child, past>>

\* The poll of launch: the ready file first, then the helper's exit.
LaunchReturns(t) == /\ app[t] = "launching" /\ launch[t] # "copying"
                    /\ \/ ready = t /\ app' = [app EXCEPT ![t] = "armed"]
                       \/ ready # t /\ ~Alive(t) /\ app' = [app EXCEPT ![t] = "running"]
                    /\ UNCHANGED <<vars, look, marks, child, past>>

\* After 30 seconds, without another look at the ready file: write the cancel
\* file (if that fails, return at once and leave the helper alone) ...
LaunchTimesOut(t) == /\ app[t] = "launching" /\ launch[t] # "copying"
                     /\ cancel' = (cancel \/ dir)
                     /\ app' = [app EXCEPT ![t] = IF dir THEN "killing" ELSE "running"]
                     /\ UNCHANGED <<vars, look, ready, confirmed, child, past>>

\* Mutant: launch waits for a helper that has ended already.
LaunchKillsOnlyAlive(t) == /\ app[t] = "killing"
                           /\ launch[t] \in {"spawned", "loaded"} /\ LaunchEnds(t)
                           /\ app' = [app EXCEPT ![t] = "running"]
                           /\ UNCHANGED <<look, marks, child, past>>

\* ... and kill the helper, wherever it is.
LaunchKills(t) == /\ app[t] = "killing"
                  /\ \/ launch[t] \in {"spawned", "loaded"} /\ LaunchEnds(t)
                     \/ Holds(t) /\ Unlock /\ UNCHANGED <<root, txn, launch, aux>>
                     \/ ~Alive(t) /\ UNCHANGED vars
                  /\ app' = [app EXCEPT ![t] = "running"]
                  /\ LooksOn
                  /\ UNCHANGED <<marks, child, past>>

\* Handoff::cancel fails at once when the directory is gone, else waits.
Cancels(t) == /\ app[t] = "armed"
              /\ cancel' = (cancel \/ dir)
              /\ app' = [app EXCEPT ![t] = IF dir THEN "cancelling" ELSE "running"]
              /\ asked' = IF dir THEN asked \cup {t} ELSE asked
              /\ UNCHANGED <<vars, look, ready, confirmed, child, succeeded, acked>>

\* Mutant: cancel keeps waiting unless the helper reports success.
CancelReturnsOnSuccess(t) == /\ app[t] = "cancelling" /\ t \in succeeded
                             /\ app' = [app EXCEPT ![t] = "cancelled"]
                             /\ UNCHANGED <<vars, look, marks, child, past>>

CancelReturns(t) ==
  /\ app[t] = "cancelling" /\ ~Alive(t)
  /\ app' = [app EXCEPT ![t] = IF t \in succeeded THEN "cancelled" ELSE "running"]
  /\ UNCHANGED <<vars, look, marks, child, past>>

\* The application ends, as it should or not; inside arm that is a Crash.
Exits(t) == /\ app[t] # "exited" /\ launch[t] # "new" /\ ~(op = "arm" /\ mine = t)
            /\ app' = [app EXCEPT ![t] = "exited"]
            /\ IF launch[t] = "copying" THEN LaunchEnds(t) ELSE UNCHANGED vars
            /\ UNCHANGED <<look, marks, child, past>>

-----------------------------------------------------------------------------
(* The helper: run_helper and execute. *)

Locks(t) == /\ HelperLock(t)
            /\ look' = "verify"
            /\ UNCHANGED <<marks, procs, past>>

\* The plan or the lock is refused, or the helper is killed before it has it.
Refused(t) == /\ launch[t] \in {"spawned", "loaded"} /\ LaunchEnds(t)
              /\ UNCHANGED hvars

Waiting == op = "apply" /\ pc = "wait"

\* Mutant: the ready file is written before the lock is taken.
TellsReadyUnlocked == \E t \in Tokens : /\ launch[t] = "loaded"
                                       /\ ready' = t
                                       /\ UNCHANGED <<vars, cancel, confirmed, look, procs, past>>

TellsReady == /\ Waiting /\ look = "verify"
              /\ ready' = mine /\ look' = "cancel"
              /\ UNCHANGED <<vars, cancel, confirmed, procs, past>>

\* The cancel file is looked at before the application and once more after it.
SeesCancel == /\ Waiting /\ look \in {"cancel", "again"} /\ cancel
              /\ HelperStops
              /\ LooksOn
              /\ succeeded' = succeeded \cup {mine}
              /\ UNCHANGED <<marks, procs, acked, asked>>

SeesNoCancel == /\ Waiting /\ look \in {"cancel", "again"} /\ ~cancel
                /\ look' = IF look = "cancel" THEN "parent" ELSE "go"
                /\ UNCHANGED <<vars, marks, procs, past>>

\* Mutant: no second look at the cancel file.
SeesExitAndGoes == /\ Waiting /\ look = "parent" /\ app[mine] = "exited"
                   /\ look' = "go"
                   /\ UNCHANGED <<vars, marks, procs, past>>

\* Mutant: a process that may not be signalled is taken for an exited one.
SeesExitAnyway == /\ Waiting /\ look = "parent"
                  /\ look' = "again"
                  /\ UNCHANGED <<vars, marks, procs, past>>

SeesExit == /\ Waiting /\ look = "parent"
            /\ app[mine] = "exited"
            /\ look' = "again"
            /\ UNCHANGED <<vars, marks, procs, past>>

\* It is still running, or its process number has been taken by another one.
KeepsWaiting == /\ Waiting /\ look = "parent"
                /\ look' = "cancel"
                /\ UNCHANGED <<vars, marks, procs, past>>

\* Mutant: no deadline for the application's exit.
GivesUpEarlyOnly == /\ Waiting /\ look = "verify"
                    /\ HelperStops
                    /\ LooksOn /\ UNCHANGED <<marks, procs, past>>

\* The deadline, or an error on the way.
GivesUp == /\ Waiting /\ look \in {"verify", "parent"}
           /\ HelperStops
           /\ LooksOn /\ UNCHANGED <<marks, procs, past>>

Installs == /\ look = "go"
            /\ ApplyBegin \/ ApplyRejected
            /\ UNCHANGED hvars

\* apply returns Ok.
InstallDone == /\ ApplyFinish
              /\ look' = "spawn"
              /\ UNCHANGED <<marks, procs, past>>

Relaunches == /\ pc = "await" /\ look = "spawn"
              /\ child' = [child EXCEPT ![mine] = "running"]
              /\ look' = "ack"
              /\ UNCHANGED <<vars, app, marks, past>>

CannotRelaunch == /\ look = "spawn" /\ RollbackBegin
                  /\ UNCHANGED hvars

\* The loop after the relaunch: the acknowledgement, the process, the clock.
SeesAck == /\ look = "ack" /\ confirmed = mine
           /\ Conclude("Committed")
           /\ LooksOn
           /\ succeeded' = IF journal' = journal THEN succeeded ELSE succeeded \cup {mine}
           /\ UNCHANGED <<marks, procs, acked, asked>>

SeesNoAck == /\ pc = "await" /\ look = "ack" /\ confirmed # mine
             /\ look' = "child"
             /\ UNCHANGED <<vars, marks, procs, past>>

SeesChildGone == /\ look = "child" /\ child[mine] = "exited"
                 /\ RollbackBegin
                 /\ UNCHANGED hvars

SeesChildRun == /\ pc = "await" /\ look = "child" /\ child[mine] # "exited"
                /\ look' = "deadline"
                /\ UNCHANGED <<vars, marks, procs, past>>

\* Mutant: the deadline rolls back under the running application.
ConfirmTimeoutRollsBack == /\ look = "deadline" /\ RollbackBegin
                           /\ UNCHANGED hvars

\* Mutant: an application that still runs at the deadline is taken to be well.
ConfirmTimeoutCommits == /\ look = "deadline" /\ Conclude("Committed")
                         /\ LooksOn /\ UNCHANGED <<marks, procs, past>>

ConfirmTimesOut == /\ look = "deadline" /\ Conclude("Failed")
                   /\ LooksOn /\ UNCHANGED <<marks, procs, past>>

KeepsListening == /\ pc = "await" /\ look = "deadline"
                  /\ look' = "ack"
                  /\ UNCHANGED <<vars, marks, procs, past>>

-----------------------------------------------------------------------------
(* The new application: confirm_startup, without the lock. *)

\* Three reads, one after another: the plan has its token, ...
LoadsPlan(t) == /\ child[t] = "running" /\ plan = t
                /\ child' = [child EXCEPT ![t] = "planned"]
                /\ UNCHANGED <<vars, app, look, marks, past>>

\* ... the program has the hash that the plan's manifest gives it, ...
HashesProgram(t) == /\ child[t] = "planned"
                    /\ root[Executable] \in HoldsProgram[ReleaseOf[t]]
                    /\ child' = [child EXCEPT ![t] = "hashed"]
                    /\ UNCHANGED <<vars, app, look, marks, past>>

\* ... and the journal, whoever's it is by then, awaits a confirmation ...
ReadsState(t) == /\ child[t] = "hashed" /\ journal.state = "AwaitingConfirmation"
                 /\ child' = [child EXCEPT ![t] = "checked"]
                 /\ UNCHANGED <<vars, app, look, marks, past>>

\* One of these is not so, a read fails, or the directory has gone: confirm_startup
\* returns an error, and may be called again.
ConfirmFails(t) ==
  /\ \/ child[t] = "planned" /\ root[Executable] \notin HoldsProgram[ReleaseOf[t]]
     \/ child[t] = "hashed" /\ journal.state # "AwaitingConfirmation"
     \/ child[t] = "checked" /\ ~dir
     \/ child[t] \in {"planned", "hashed", "checked"} /\ "io" \in Faults
  /\ child' = [child EXCEPT ![t] = "running"]
  /\ UNCHANGED <<vars, app, look, marks, past>>

\* ... and only then the acknowledgement is written.
Acks(t) == /\ child[t] = "checked" /\ dir
           /\ confirmed' = t
           /\ child' = [child EXCEPT ![t] = "acked"]
           /\ acked' = acked \cup {t}
           /\ UNCHANGED <<vars, app, look, ready, cancel, succeeded, asked>>

ChildExits(t) == /\ child[t] \notin {"none", "exited"}
                 /\ child' = [child EXCEPT ![t] = "exited"]
                 /\ UNCHANGED <<vars, app, look, marks, past>>

-----------------------------------------------------------------------------
(* Everything else. *)

\* The three files go with the transaction directory.
RemoveMarks == /\ pc = "remove"
               /\ ready' = NoToken /\ cancel' = FALSE /\ confirmed' = NoToken
               /\ UNCHANGED <<vars, look, procs, past>>

\* Mutant: the directory is renamed away with all that is in it.
RemoveAllAtOnce == /\ pc = "remove" /\ dir' = FALSE
                   /\ Unlock
                   /\ UNCHANGED <<root, journal, plan, stage, backup, launch, aux, hvars>>

RemoveAll == /\ ready = NoToken /\ ~cancel /\ confirmed = NoToken
             /\ RemoveDir
             /\ UNCHANGED hvars

Dies == /\ Crash
        /\ app' = IF op = "arm" THEN [app EXCEPT ![mine] = "exited"] ELSE app
        /\ LooksOn /\ UNCHANGED <<marks, child, past>>

\* "The installation must be offline" (recover_installation), which nothing enforces:
\* with "online", it is run under an application that a helper has started.
RecoveryIsInTime == \/ "online" \in Faults \/ op # "none"
                    \/ \A t \in Tokens : child[t] \in {"none", "exited"}

\* Steps that the protocol adds nothing to.
Plain == /\ \/ \E t \in Tokens : ArmBegin(t) \/ HelperLoad(t)
            \/ ArmStage \/ ArmJournal \/ ArmFails
            \/ DiscardBegin \/ RemoveEntry \/ RemoveFails
            \/ ApplyStart \/ ApplyBackupFails \/ ApplyFails
            \/ \E i \in Items : \/ ApplyBackup(i) \/ ApplyBackupPart(i) \/ ApplyIntent(i)
                                \/ ApplyAside(i) \/ ApplyReplace(i)
            \/ Rollback /\ RecoveryIsInTime
            \/ Tamper \/ \E i \in Items : LoseBackup(i)
         /\ LooksOn /\ UNCHANGED <<marks, procs, past>>

AppStep(t) == \/ Copies(t) \/ CopyFails(t) \/ LaunchReturns(t) \/ LaunchTimesOut(t)
              \/ LaunchKills(t) \/ Cancels(t) \/ CancelReturns(t) \/ Exits(t)
HelperStep == \/ \E t \in Tokens : Locks(t) \/ Refused(t)
              \/ TellsReady \/ SeesCancel \/ SeesNoCancel \/ SeesExit \/ KeepsWaiting
              \/ GivesUp \/ Installs \/ InstallDone \/ Relaunches \/ CannotRelaunch
              \/ SeesAck \/ SeesNoAck \/ SeesChildGone \/ SeesChildRun
              \/ ConfirmTimesOut \/ KeepsListening
ChildStep(t) == \/ LoadsPlan(t) \/ HashesProgram(t) \/ ReadsState(t) \/ ConfirmFails(t)
                \/ Acks(t) \/ ChildExits(t)

HandoffNext == \/ ArmDone \/ RemoveMarks \/ RemoveAll \/ Dies \/ Plain \/ HelperStep
               \/ \E t \in Tokens : AppStep(t) \/ ChildStep(t)

HandoffSpec == HandoffInit /\ [][HandoffNext]_allVars

\* Processes go on; the polls read a clock, so a loop cannot go round for ever
\* without its deadline; and cancel waits for the helper without one.
HandoffFairness ==
  /\ WF_allVars(ArmDone) /\ WF_allVars(Plain /\ op \notin {"none"}) /\ WF_allVars(HelperStep)
  /\ WF_allVars(RemoveMarks) /\ WF_allVars(RemoveAll)
  /\ SF_allVars(GivesUp) /\ SF_allVars(ConfirmTimesOut)
  /\ \A t \in Tokens :
       /\ WF_allVars(Copies(t)) /\ WF_allVars(LaunchReturns(t))
       /\ WF_allVars(LaunchTimesOut(t)) /\ WF_allVars(LaunchKills(t))
       /\ WF_allVars(CancelReturns(t))

FairHandoffSpec == HandoffSpec /\ HandoffFairness

-----------------------------------------------------------------------------
(* Properties. *)

\* "A helper is ready, but installation will not start until this process exits"
\* (Handoff): a helper touches program files only once the application that
\* armed it is gone.
InstallsOffline == [][root' # root /\ op = "apply" => app[mine] = "exited"]_allVars

\* An application that asked to cancel and then exits at once is not updated:
\* the helper that sees it gone looks for the cancel file once more.
CancelIsFinal == [][pc = "wait" /\ pc' = "backup" => mine \notin asked]_allVars

\* arm "returns only after the helper holds the installation lock": as long as
\* an application holds a Handoff, its helper has the lock or has ended.
ArmedIsLocked == \A t \in Tokens : app[t] = "armed" /\ Alive(t) => Holds(t)

\* "Parent is still alive, so the helper cannot be modifying program files"
\* (launch): the helper it kills is not at work.
KillIsHarmless == \A t \in Tokens : app[t] = "killing" /\ Holds(t) => pc = "wait"

\* Committed is only ever written for a new application that was told that its
\* confirmation was accepted.
CommitIsConfirmed ==
  [][journal'.state = "Committed" /\ journal.state # "Committed" => mine \in acked]_allVars

\* confirm_startup reads the plan, the program and the journal one after another, without
\* the lock, and then writes.  As long as recovery is run offline, the three reads and the
\* write fall into one transaction, whatever has happened to the helper: what is accepted
\* is the start of the handoff the token stands for, and not of a later one, with every
\* item of its release installed.
ConfirmsWholeRelease ==
  [][\A t \in Tokens : t \notin acked /\ t \in acked' =>
        plan = t /\ goal = ReleaseOf[t] /\ root = Updated]_allVars

\* "it does not overwrite or kill that process" (README): the helper restores no
\* file while the application it started runs.
RunningChildIsLeftAlone ==
  [][root' # root /\ op \in {"apply", "confirm"} => child[mine] \in {"none", "exited"}]_allVars

\* Whatever the processes do to each other, the transaction is the one of
\* InstallTransaction.
ImplementsInstallTransaction == Spec

\* "stale helper launch token" (run_helper): a helper with the lock works on the
\* transaction of its own handoff.
HelperIsNotStale == Waiting => plan = mine

\* "If it exits without confirmation, the helper rolls back" (README): a helper
\* does not roll back what the new application has confirmed.
ConfirmedIsNotRolledBack == [][pc = "await" /\ pc' = "rbSave" => confirmed # mine]_allVars

\* No helper lives for ever, nor does a call of launch, or of Handoff::cancel, which waits
\* for its helper without a deadline of its own: []<>~P says that P does not last.
HelpersEnd == \A t \in Tokens : []<>~Alive(t)
LaunchCallsEnd == \A t \in Tokens : []<>(app[t] \notin {"launching", "killing"})
CancelEnds == \A t \in Tokens : []<>(app[t] # "cancelling")

-----------------------------------------------------------------------------
(* The inductive invariant behind the safety properties. *)

\* Where the application is while its helper is being started.
AppInv == \A t \in Tokens :
  /\ launch[t] = "new" => app[t] = "running"
  /\ launch[t] = "copying" => app[t] = "launching"
  /\ op = "arm" /\ mine = t => /\ app[t] = "running" /\ launch[t] = "closed"
                              /\ ready # t /\ t \notin asked
  /\ ready = t \/ app[t] \in {"armed", "cancelling"} \/ t \in asked => launch[t] = "closed"
  /\ Holds(t) => launch[t] = "closed"

\* A helper whose application has not exited has not got past its wait ...
WaitInv == \A t \in Tokens :
  /\ Holds(t) /\ app[t] # "exited" =>
        pc = "wait" /\ look \in {"verify", "cancel", "parent"}
\* ... and one whose application has asked it to stop will find out.
  /\ Holds(t) /\ pc = "wait" /\ t \in asked => cancel /\ look # "go"

\* The new application is started by its helper alone, and before a rollback it
\* has gone.
ChildInv == \A t \in Tokens :
  /\ confirmed = t => t \in acked
  /\ launch[t] # "closed" \/ (op = "arm" /\ mine = t) => child[t] = "none"
  /\ Holds(t) /\ (op = "apply" \/ look = "spawn") => child[t] = "none"
  /\ Holds(t) /\ pc \in {"rbSave", "restore"} => child[t] \in {"none", "exited"}

\* While a new application has not confirmed, no step changes the transaction that
\* started it, but for its helper marking it Failed.
Unconfirmed(t) == child[t] \in {"running", "planned", "hashed", "checked"}
OneTransaction == \A t \in Tokens :
  /\ t \in acked => child[t] \in {"acked", "exited"}
  /\ child[t] \in {"planned", "hashed", "checked"} => plan = t
  /\ Unconfirmed(t) =>
        /\ ReleaseOf[t] = goal /\ root = Updated
        /\ journal.state \in {"AwaitingConfirmation", "Failed"}
        /\ \/ pc \in {"idle", "wait", "mark"}
           \/ pc = "await" /\ mine = t /\ look # "spawn"

HandoffInv == HandoffTypeOK /\ AppInv /\ WaitInv /\ ChildInv
=============================================================================
