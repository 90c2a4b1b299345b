----------------------------- MODULE HostInterface -----------------------------
(***************************************************************************)
(* The C interface (src/ffi/src): the handles a host holds, what the calls   *)
(* on them create, use up and release, and the message of a thread's last    *)
(* failure.  The host keeps to the contract of src/ffi/src/lib.rs: it uses   *)
(* no handle after freeing it, and none from two threads at once, save for   *)
(* a cancellation.                                                         *)
(***************************************************************************)
EXTENDS Integers

CONSTANTS
  Threads, Handles,
  Flags,        \* what cancellations share with their clones
  Faults,       \* "panic": the library may panic; "nostate": the host may pass no
                \* place for an installation's state
  MaxStrings    \* bound on the strings in being

Null == "null"                     \* no handle, or no flag
Kinds == {"updater", "cancel", "candidate", "prepared", "handoff"}
Codes == {"ok", "argument", "error", "panic"}    \* "error": whatever the library reports

ASSUME HostAssumption == /\ MaxStrings \in Nat
                         /\ Null \notin Handles /\ Null \notin Flags

VARIABLES
  object,       \* the kind of object at a handle, Null when there is none
  whole,        \* the handles whose Option still holds its update or handoff
  flagOf,       \* the flag of a cancellation
  raised,       \* the flags that are set
  known,        \* the handles the host was given and has not freed
  staged,       \* the prepared handles whose update has files on disk
  call,         \* the blocking call a thread is in
  returned,     \* the status of its last call
  message,      \* LAST_ERROR
  strings,      \* strings allocated and not freed
  handed        \* those of them the host was given

objects == <<object, whole, flagOf, known, staged>>
errors == <<returned, message>>
vars == <<objects, raised, call, errors, strings, handed>>

Idle == [fn |-> "none", uses |-> {}, flag |-> Null, late |-> FALSE, out |-> TRUE]

TypeOK ==
  /\ object \in [Handles -> Kinds \cup {Null}] /\ whole \subseteq Handles
  /\ flagOf \in [Handles -> Flags \cup {Null}] /\ raised \subseteq Flags
  /\ known \subseteq Handles /\ staged \subseteq Handles
  /\ call \in [Threads -> [fn : {"none", "check", "prepare", "arm", "cancel"},
                           uses : SUBSET Handles, flag : Flags \cup {Null},
                           late : BOOLEAN, out : BOOLEAN]]
  /\ returned \in [Threads -> Codes] /\ message \in [Threads -> Codes]
  /\ strings \in Nat /\ handed \in Nat

Init ==
  /\ object = [h \in Handles |-> Null] /\ whole = {}
  /\ flagOf = [h \in Handles |-> Null] /\ raised = {}
  /\ known = {} /\ staged = {}
  /\ call = [t \in Threads |-> Idle]
  /\ returned = [t \in Threads |-> "ok"] /\ message = returned
  /\ strings = 0 /\ handed = 0

Used == UNION {call[t].uses : t \in Threads}
\* What the host may pass to a function.
Usable(h, kind) == h \in known \ Used /\ object[h] = kind

\* Mutant: one message for all threads.
EveryThread(t) == Threads
\* The message is the calling thread's own.
Hears(t) == {t}

Fails(t, code) == message' = [s \in Threads |-> IF s \in Hears(t) THEN code ELSE message[s]]

\* A status function returns; every error has recorded its message.
Returns(t, code) == /\ returned' = [returned EXCEPT ![t] = code]
                    /\ IF code = "ok" THEN UNCHANGED message ELSE Fails(t, code)

\* Mutant: the out-pointer is not written before the end.
StoresAtTheEnd(out) == TRUE
\* A call first writes null through the pointer for its result, and stops if there is none.
Stores(out) == out

\* Box::into_raw, and the result written, if there is a pointer for it.
Creates(h, kind, f, out) ==
  /\ object[h] = Null
  /\ object' = [object EXCEPT ![h] = kind] /\ known' = IF out THEN known \cup {h} ELSE known
  /\ flagOf' = [flagOf EXCEPT ![h] = f]
  /\ whole' = IF kind \in {"prepared", "handoff"} THEN whole \cup {h} ELSE whole

-----------------------------------------------------------------------------
(* Calls that end at once. *)

\* A null or malformed argument, no pointer for the result, an unknown kind, a list too
\* long, a handle that was used up: the call has done nothing, and has set the handle it
\* would have returned to null.
Refuses(t) == /\ call[t] = Idle /\ Returns(t, "argument")
              /\ UNCHANGED <<objects, raised, call, strings, handed>>

\* A panic where there is no status to return, or a failing call from a callback, which
\* runs on the thread of the call that is under way.
FailsWithin(t, code) ==
  /\ \/ code = "panic" /\ "panic" \in Faults
     \/ code \in {"argument", "error"} /\ call[t].fn \in {"check", "prepare"}
  /\ Fails(t, code)
  /\ UNCHANGED <<objects, raised, call, returned, strings, handed>>

Outcome(out) == IF out THEN "ok" ELSE "argument"

NewUpdater(t, h, out) == /\ call[t] = Idle /\ Stores(out)
                         /\ Creates(h, "updater", Null, out) /\ Returns(t, Outcome(out))
                         /\ UNCHANGED <<staged, raised, call, strings, handed>>

\* An unused flag, or that of another handle; neither call has a status.
NewCancel(t, h, f) == /\ call[t] = Idle
                      /\ \A g \in Handles : flagOf[g] # f
                      /\ \A s \in Threads : call[s].flag # f
                      /\ Creates(h, "cancel", f, TRUE) /\ raised' = raised \ {f}
                      /\ UNCHANGED <<staged, call, errors, strings, handed>>

CloneCancel(t, h, c) == /\ call[t] = Idle /\ Usable(c, "cancel")
                        /\ Creates(h, "cancel", flagOf[c], TRUE)
                        /\ UNCHANGED <<staged, raised, call, errors, strings, handed>>

\* From any thread, while another is in a call with it.
CancelCancel(c) == /\ c \in known /\ object[c] = "cancel"
                   /\ raised' = raised \cup {flagOf[c]}
                   /\ UNCHANGED <<objects, call, errors, strings, handed>>

\* With what is inside; the files of an update that was not armed are deleted.  A handoff
\* is not cancelled by this.
Free(t, h) == /\ call[t] = Idle /\ h \in known \ Used
              /\ object' = [object EXCEPT ![h] = Null] /\ known' = known \ {h}
              /\ whole' = whole \ {h} /\ flagOf' = [flagOf EXCEPT ![h] = Null]
              /\ staged' = staged \ {h}
              /\ UNCHANGED <<raised, call, errors, strings, handed>>

\* The accessors; those of a prepared update that was used up return null.
TakesString(t, h) == /\ call[t] = Idle /\ strings < MaxStrings
                     /\ Usable(h, "candidate") \/ (Usable(h, "prepared") /\ h \in whole)
                     /\ strings' = strings + 1 /\ handed' = handed + 1
                     /\ UNCHANGED <<objects, raised, call, errors>>

FreesString == /\ handed > 0 /\ strings' = strings - 1 /\ handed' = handed - 1
               /\ UNCHANGED <<objects, raised, call, errors>>

\* report_status makes two strings, and frees those the host has no place for; but with no
\* place for the state it fails before that.
ReportsStatus(t, state, outs) ==
  /\ call[t] = Idle /\ strings + 2 <= MaxStrings
  /\ state \/ "nostate" \in Faults
  /\ strings' = strings + (IF state THEN outs ELSE 2)
  /\ handed' = handed + (IF state THEN outs ELSE 0)
  /\ Returns(t, IF state THEN "ok" ELSE "argument")
  /\ UNCHANGED <<objects, raised, call>>

\* Installation status, recovery, discarding, confirmation and the helper, which touch no
\* handle: without a transaction to report on, or failing.
PlainCall(t, code) == /\ call[t] = Idle /\ code \in {"ok", "error"} \cup Faults
                      /\ Returns(t, code)
                      /\ UNCHANGED <<objects, raised, call, strings, handed>>

-----------------------------------------------------------------------------
(* Calls that block. *)

Begins(t, fn, hs, f, out) ==
  /\ call[t] = Idle /\ Stores(out)
  /\ call' = [call EXCEPT ![t] = [fn |-> fn, uses |-> hs, flag |-> f,
                                  late |-> f \in raised, out |-> out]]

\* The call keeps a clone of the cancellation: the handle is used only while it begins.
FlagFor(f) == f = Null \/ \E c \in known \ Used : object[c] = "cancel" /\ flagOf[c] = f

BeginsCheck(t, u, f, out) == /\ Usable(u, "updater") /\ FlagFor(f)
                        /\ Begins(t, "check", {u}, f, out)
                        /\ UNCHANGED <<objects, raised, errors, strings, handed>>

BeginsPrepare(t, u, c, f, out) ==
                             /\ Usable(u, "updater") /\ Usable(c, "candidate") /\ FlagFor(f)
                             /\ Begins(t, "prepare", {u, c}, f, out)
                             /\ UNCHANGED <<objects, raised, errors, strings, handed>>

Ends(t, fn) == call[t].fn = fn /\ call' = [call EXCEPT ![t] = Idle]

Finds(t, h) == /\ Ends(t, "check") /\ ~call[t].late
               /\ Creates(h, "candidate", Null, call[t].out)
               /\ Returns(t, Outcome(call[t].out))
               /\ UNCHANGED <<staged, raised, strings, handed>>

FindsNothing(t) == /\ Ends(t, "check") /\ ~call[t].late /\ Returns(t, "ok")
                   /\ UNCHANGED <<objects, raised, strings, handed>>

Prepares(t, h) == /\ Ends(t, "prepare") /\ ~call[t].late
                  /\ Creates(h, "prepared", Null, call[t].out)
                  /\ staged' = staged \cup {h} /\ Returns(t, Outcome(call[t].out))
                  /\ UNCHANGED <<raised, strings, handed>>

\* Nothing is created; prepare's temporary directory has gone with it.
EndsInVain(t, code) ==
  /\ call[t].fn \in {"check", "prepare"} /\ call' = [call EXCEPT ![t] = Idle]
  /\ code \in {"error"} \cup Faults /\ Returns(t, code)
  /\ UNCHANGED <<objects, raised, strings, handed>>

BeginsArm(t, p, out) ==
  /\ Usable(p, "prepared") /\ p \in whole /\ whole' = whole \ {p}
  /\ Begins(t, "arm", {p}, Null, out)
  /\ UNCHANGED <<object, flagOf, known, staged, raised, errors, strings, handed>>

Arms(t, h) == /\ Ends(t, "arm") /\ Creates(h, "handoff", Null, call[t].out)
              /\ staged' = staged \ call[t].uses /\ Returns(t, Outcome(call[t].out))
              /\ UNCHANGED <<raised, strings, handed>>

FilesAfter(t) == staged \ call[t].uses

\* The policy, the helper's path or an argument is rejected, or the installation fails.
ArmFails(t, code) == /\ Ends(t, "arm") /\ code \in {"argument", "error"} \cup Faults
                     /\ staged' = FilesAfter(t) /\ Returns(t, code)
                     /\ UNCHANGED <<object, whole, flagOf, known, raised, strings, handed>>

\* freshen_handoff_cancel, which uses the handoff up even when it fails.
BeginsCancel(t, h) == /\ Usable(h, "handoff") /\ h \in whole /\ whole' = whole \ {h}
                      /\ Begins(t, "cancel", {h}, Null, TRUE)
                      /\ UNCHANGED <<object, flagOf, known, staged, raised, errors, strings, handed>>

\* Mutant: a cancellation that fails gives the handoff back, to be tried again.
EndsCancelKeeping(t, code) ==
  /\ Ends(t, "cancel") /\ code \in {"ok", "error"} \cup Faults
  /\ whole' = IF code = "ok" THEN whole ELSE whole \cup call[t].uses
  /\ Returns(t, code)
  /\ UNCHANGED <<object, flagOf, known, staged, raised, strings, handed>>

EndsCancel(t, code) == /\ Ends(t, "cancel") /\ code \in {"ok", "error"} \cup Faults
                       /\ Returns(t, code)
                       /\ UNCHANGED <<objects, raised, strings, handed>>

-----------------------------------------------------------------------------
Step(t) ==
  \/ Refuses(t) \/ FindsNothing(t)
  \/ \E code \in Codes : FailsWithin(t, code) \/ PlainCall(t, code) \/ EndsInVain(t, code)
                           \/ ArmFails(t, code) \/ EndsCancel(t, code)
  \/ \E h \in Handles :
       \/ Free(t, h) \/ TakesString(t, h) \/ CancelCancel(h)
       \/ Finds(t, h) \/ Prepares(t, h) \/ Arms(t, h) \/ BeginsCancel(t, h)
       \/ \E c \in Handles : CloneCancel(t, h, c)
       \/ \E f \in Flags : NewCancel(t, h, f)
       \/ \E out \in BOOLEAN :
            \/ NewUpdater(t, h, out) \/ BeginsArm(t, h, out)
            \/ \E f \in Flags \cup {Null} :
                 \/ BeginsCheck(t, h, f, out)
                 \/ \E c \in Handles : BeginsPrepare(t, h, c, f, out)
  \/ \E state \in BOOLEAN, outs \in 0 .. 2 : ReportsStatus(t, state, outs)
  \/ FreesString

Next == \E t \in Threads : Step(t)

Spec == Init /\ [][Next]_vars

-----------------------------------------------------------------------------
\* Every object the library keeps for the host is one the host can free: none is created
\* and then not handed over.
HandlesAreKnown == known = {h \in Handles : object[h] # Null}

\* The files of an update are on disk as long as a handle or a call of freshen_arm holds it,
\* and no longer: whatever freshen_arm returns, it has used the update up and deleted them,
\* and no second call finds one half used.
Held == whole \cap {h \in known : object[h] = "prepared"}
Arming == UNION {call[t].uses : t \in {s \in Threads : call[s].fn = "arm"}}
UpdatesAreHeldOnce == staged = Held \cup Arming /\ Held \cap Arming = {}

\* The life of a handle that is good for one use, as SingleUse has it.
Cancelling == UNION {call[t].uses : t \in {s \in Threads : call[s].fn = "cancel"}}
LifeOf(h) ==
  IF object[h] \notin {"prepared", "handoff"} THEN "none"
  ELSE IF h \in whole THEN IF object[h] = "prepared" THEN "update" ELSE "handoff"
  ELSE IF h \in Arming THEN "arming"
  ELSE IF h \in Cancelling THEN "cancelling" ELSE "spent"

Once == INSTANCE SingleUse WITH life <- [h \in Handles |-> LifeOf(h)], files <- staged

\* freshen_arm and freshen_handoff_cancel, once they have accepted their handle (and
\* freshen_arm its place for the handoff), take what they use out of it before anything else
\* can fail, so that an update is armed once, a handoff comes of one update and is cancelled
\* once, from whatever threads and in whatever order the calls are made, and nothing that
\* was tried comes back (src/ffi/src/install.rs:118, 168).
UsesEachOnce == Once!Spec

\* freshen_last_error_message tells the thread why its last call failed, whatever fails on
\* other threads in the meantime, and in the callbacks of that call before.  (Only a panic
\* in a call that has no status to return replaces the message afterwards.)
FailureIsExplained ==
  \A t \in Threads : call[t] = Idle /\ returned[t] # "ok" => message[t] \in {returned[t], "panic"}

=============================================================================
