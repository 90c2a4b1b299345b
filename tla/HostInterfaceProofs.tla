-------------------------- MODULE HostInterfaceProofs --------------------------
(***************************************************************************)
(* What the C interface keeps for any number of threads and handles: no     *)
(* object is lost to the host, an update is in one pair of hands, and a      *)
(* failure's message is its own.                                            *)
(***************************************************************************)
EXTENDS HostInterface, TLAPS

HeldBy(h) == h \in whole /\ object[h] = "prepared"
ArmedBy(h) == \E s \in Threads : call[s].fn = "arm" /\ h \in call[s].uses

\* A blocking call has handles the host cannot free under it, and a place for its result.
CallsHoldHandles == \A t \in Threads : call[t].uses \subseteq known /\ call[t].out
CallsAreApart == \A s, t \in Threads : s # t => call[s].uses \cap call[t].uses = {}
UpdatesInOneHand ==
  \A h \in Handles : /\ h \in staged <=> HeldBy(h) \/ ArmedBy(h)
                     /\ ~(HeldBy(h) /\ ArmedBy(h))

CancelsHaveFlags == \A h \in Handles : object[h] = "cancel" => flagOf[h] \in Flags

Shape == /\ HandlesAreKnown /\ whole \subseteq known /\ CancelsHaveFlags /\ handed <= strings
         /\ CallsHoldHandles /\ CallsAreApart /\ UpdatesInOneHand

HostInv == TypeOK /\ Shape /\ FailureIsExplained

\* What is said of every handle is what the invariant says of the sets.
LEMMA HeldOnce == ASSUME HostInv PROVE UpdatesAreHeldOnce
<1>1. \A h : h \in Held <=> h \in Handles /\ HeldBy(h)
  BY DEF Held, HeldBy, HostInv, Shape, HandlesAreKnown, TypeOK
<1>2. \A h : h \in Arming <=> h \in Handles /\ ArmedBy(h)
  <2>1. \A t \in Threads : call[t].uses \subseteq Handles
    BY DEF HostInv, Shape, CallsHoldHandles, TypeOK
  <2> QED BY <2>1 DEF Arming, ArmedBy
<1> QED BY <1>1, <1>2 DEF HostInv, Shape, TypeOK, UpdatesInOneHand, UpdatesAreHeldOnce

\* The handles in use are those of some call.
LEMMA UsedByACall == \A h : h \in Used <=> \E t \in Threads : h \in call[t].uses
  BY DEF Used

\* A call that ends explains its own failure and leaves the others' messages alone.
LEMMA ReturnsExplained ==
  ASSUME TypeOK, FailureIsExplained, NEW t \in Threads, NEW code \in Codes, Returns(t, code),
         \A s \in Threads \ {t} : call'[s] = call[s]
  PROVE FailureIsExplained' /\ (returned \in [Threads -> Codes] /\ message \in [Threads -> Codes])'
<1>1. returned' = [returned EXCEPT ![t] = code] /\ returned' \in [Threads -> Codes]
  BY DEF Returns, TypeOK
<1>2. message' \in [Threads -> Codes] /\ \A s \in Threads \ {t} : message'[s] = message[s]
  BY DEF Returns, Fails, Hears, TypeOK
<1>3. code # "ok" => message'[t] = code
  BY DEF Returns, Fails, Hears, TypeOK
<1> QED BY <1>1, <1>2, <1>3 DEF FailureIsExplained, TypeOK

\* A call that begins leaves the messages alone.
LEMMA BeginsExplained ==
  ASSUME TypeOK, FailureIsExplained, UNCHANGED errors,
         \A s \in Threads : call'[s] = Idle => call[s] = Idle
  PROVE FailureIsExplained' /\ (returned \in [Threads -> Codes] /\ message \in [Threads -> Codes])'
  BY DEF FailureIsExplained, errors, TypeOK

\* Every step keeps the types, and the messages of the failures.
LEMMA TypesKept ==
  ASSUME TypeOK, FailureIsExplained, Shape, NEW t \in Threads, Step(t)
  PROVE  TypeOK' /\ FailureIsExplained'
<1>1. ASSUME Refuses(t) PROVE TypeOK' /\ FailureIsExplained'
  BY <1>1, HostAssumption, ReturnsExplained DEF Refuses, objects, Idle, TypeOK, Codes, Outcome
<1>2. ASSUME NEW code \in Codes, FailsWithin(t, code) PROVE TypeOK' /\ FailureIsExplained'
  BY <1>2, HostAssumption, HostAssumption DEF FailsWithin, objects, Fails, Hears,
     FailureIsExplained, Idle, TypeOK, Codes, Outcome
<1>3. ASSUME NEW h \in Handles, NEW out \in BOOLEAN, NewUpdater(t, h, out)
      PROVE TypeOK' /\ FailureIsExplained'
  BY <1>3, HostAssumption, ReturnsExplained DEF NewUpdater, objects, Creates, Kinds, Idle, TypeOK,
     Codes, Outcome
<1>4. ASSUME NEW h \in Handles, NEW f \in Flags, NewCancel(t, h, f)
      PROVE TypeOK' /\ FailureIsExplained'
  BY <1>4, HostAssumption, BeginsExplained DEF NewCancel, objects, Creates, Kinds, Idle, TypeOK,
     Codes, Outcome
<1>5. ASSUME NEW h \in Handles, NEW c \in Handles, CloneCancel(t, h, c)
      PROVE TypeOK' /\ FailureIsExplained'
  BY <1>5, HostAssumption, BeginsExplained DEF CloneCancel, objects, Creates, Kinds, Idle, TypeOK,
     Codes, Outcome
<1>6. ASSUME NEW h \in Handles, CancelCancel(h) PROVE TypeOK' /\ FailureIsExplained'
  BY <1>6, HostAssumption, BeginsExplained DEF CancelCancel, objects, Idle, TypeOK, Codes,
     Outcome, Shape, CancelsHaveFlags
<1>7. ASSUME NEW h \in Handles, Free(t, h) PROVE TypeOK' /\ FailureIsExplained'
  BY <1>7, HostAssumption, BeginsExplained DEF Free, objects, Idle, TypeOK, Codes, Outcome
<1>8. ASSUME NEW h \in Handles, TakesString(t, h) PROVE TypeOK' /\ FailureIsExplained'
  BY <1>8, HostAssumption, BeginsExplained DEF TakesString, objects, Idle, TypeOK, Codes, Outcome
<1>9. ASSUME FreesString PROVE TypeOK' /\ FailureIsExplained'
  BY <1>9, HostAssumption, BeginsExplained DEF FreesString, objects, Idle, TypeOK, Codes, Outcome,
     Shape, CancelsHaveFlags
<1>10. ASSUME NEW state \in BOOLEAN, NEW outs \in 0 .. 2, ReportsStatus(t, state, outs)
      PROVE TypeOK' /\ FailureIsExplained'
  BY <1>10, HostAssumption, ReturnsExplained DEF ReportsStatus, objects, Idle, TypeOK, Codes,
     Outcome
<1>11. ASSUME NEW code \in Codes, PlainCall(t, code) PROVE TypeOK' /\ FailureIsExplained'
  BY <1>11, HostAssumption, ReturnsExplained DEF PlainCall, objects, Idle, TypeOK, Codes, Outcome
<1>12. ASSUME NEW h \in Handles, NEW f \in Flags \cup {Null}, NEW out \in BOOLEAN, BeginsCheck(t, h, f, out)
      PROVE TypeOK' /\ FailureIsExplained'
  BY <1>12, HostAssumption, BeginsExplained DEF BeginsCheck, objects, Begins, Idle, TypeOK, Codes,
     Outcome
<1>13. ASSUME NEW h \in Handles, NEW c \in Handles, NEW f \in Flags \cup {Null}, NEW out \in BOOLEAN, BeginsPrepare(t, h, c, f, out)
      PROVE TypeOK' /\ FailureIsExplained'
  BY <1>13, HostAssumption, BeginsExplained DEF BeginsPrepare, objects, Begins, Idle, TypeOK,
     Codes, Outcome
<1>14. ASSUME NEW h \in Handles, Finds(t, h) PROVE TypeOK' /\ FailureIsExplained'
  BY <1>14, HostAssumption, ReturnsExplained DEF Finds, objects, Creates, Kinds, Ends, Idle,
     TypeOK, Codes, Outcome
<1>15. ASSUME FindsNothing(t) PROVE TypeOK' /\ FailureIsExplained'
  BY <1>15, HostAssumption, ReturnsExplained DEF FindsNothing, objects, Ends, Idle, TypeOK, Codes,
     Outcome
<1>16. ASSUME NEW h \in Handles, Prepares(t, h) PROVE TypeOK' /\ FailureIsExplained'
  BY <1>16, HostAssumption, ReturnsExplained DEF Prepares, objects, Creates, Kinds, Ends, Idle,
     TypeOK, Codes, Outcome
<1>17. ASSUME NEW code \in Codes, EndsInVain(t, code) PROVE TypeOK' /\ FailureIsExplained'
  BY <1>17, HostAssumption, ReturnsExplained DEF EndsInVain, objects, Ends, Idle, TypeOK, Codes,
     Outcome
<1>19. ASSUME NEW h \in Handles, NEW out \in BOOLEAN, BeginsArm(t, h, out)
      PROVE TypeOK' /\ FailureIsExplained'
  BY <1>19, HostAssumption, BeginsExplained DEF BeginsArm, objects, Begins, Idle, TypeOK, Codes,
     Outcome
<1>20. ASSUME NEW h \in Handles, Arms(t, h) PROVE TypeOK' /\ FailureIsExplained'
  BY <1>20, HostAssumption, ReturnsExplained DEF Arms, objects, Creates, Kinds, Ends, Idle,
     TypeOK, Codes, Outcome
<1>21. ASSUME NEW code \in Codes, ArmFails(t, code) PROVE TypeOK' /\ FailureIsExplained'
  BY <1>21, HostAssumption, ReturnsExplained DEF ArmFails, objects, Ends, FilesAfter, Idle,
     TypeOK, Codes, Outcome
<1>22. ASSUME NEW h \in Handles, BeginsCancel(t, h) PROVE TypeOK' /\ FailureIsExplained'
  BY <1>22, HostAssumption, BeginsExplained DEF BeginsCancel, objects, Begins, Idle, TypeOK,
     Codes, Outcome
<1>23. ASSUME NEW code \in Codes, EndsCancel(t, code) PROVE TypeOK' /\ FailureIsExplained'
  BY <1>23, HostAssumption, ReturnsExplained DEF EndsCancel, objects, Ends, Idle, TypeOK, Codes,
     Outcome
<1> QED BY <1>1, <1>2, <1>3, <1>4, <1>5, <1>6, <1>7, <1>8, <1>9, <1>10, <1>11, <1>12,
     <1>13, <1>14, <1>15, <1>16, <1>17, <1>19, <1>20, <1>21, <1>22, <1>23 DEF Step

\* Every step keeps the handles, the calls and the updates as they should be.
LEMMA ShapeKept ==
  ASSUME TypeOK, Shape, NEW t \in Threads, Step(t)
  PROVE  Shape'
<1>1. ASSUME Refuses(t) PROVE Shape'
  BY <1>1, UsedByACall DEF Refuses, Idle, objects, Shape, CancelsHaveFlags, HandlesAreKnown,
     CallsHoldHandles, CallsAreApart, UpdatesInOneHand, HeldBy, ArmedBy, TypeOK
<1>2. ASSUME NEW code \in Codes, FailsWithin(t, code) PROVE Shape'
  BY <1>2, UsedByACall DEF FailsWithin, Idle, objects, Shape, CancelsHaveFlags, HandlesAreKnown,
     CallsHoldHandles, CallsAreApart, UpdatesInOneHand, HeldBy, ArmedBy, TypeOK
<1>3. ASSUME NEW h \in Handles, NEW out \in BOOLEAN, NewUpdater(t, h, out) PROVE Shape'
  <2>1. out = TRUE /\ h \notin known /\ known' = known \cup {h}
    BY <1>3 DEF NewUpdater, Creates, Stores, Shape, HandlesAreKnown, CallsHoldHandles, TypeOK
  <2>2. \A s \in Threads : h \notin call[s].uses
    BY <2>1 DEF Shape, CallsHoldHandles
  <2>3. h \notin staged /\ h \notin whole
    BY <2>1, <2>2 DEF Shape, UpdatesInOneHand, HeldBy, ArmedBy
  <2>4. /\ object' = [object EXCEPT ![h] = "updater"] /\ flagOf' = [flagOf EXCEPT ![h] = Null]
        /\ whole' \subseteq whole \cup {h} /\ UNCHANGED <<strings, handed>>
    BY <1>3 DEF NewUpdater, Creates
  <2>7. HandlesAreKnown' /\ (whole \subseteq known /\ handed <= strings)'
    BY <2>1, <2>4 DEF Shape, HandlesAreKnown, TypeOK, Kinds, Null
  <2>8. CancelsHaveFlags'
    BY <1>3, <2>4 DEF NewUpdater, Shape, CancelsHaveFlags, TypeOK
  <2>5. (CallsHoldHandles /\ CallsAreApart)'
    BY <1>3, <2>1 DEF NewUpdater, Idle, Shape, CallsHoldHandles, CallsAreApart, TypeOK
  <2>6. UpdatesInOneHand'
    BY <1>3, <2>1, <2>2, <2>3 DEF NewUpdater, Creates, Idle, Shape, UpdatesInOneHand, HeldBy,
       ArmedBy,
       CallsAreApart, HandlesAreKnown, TypeOK
  <2> QED BY <2>5, <2>6, <2>7, <2>8 DEF Shape
<1>4. ASSUME NEW h \in Handles, NEW f \in Flags, NewCancel(t, h, f) PROVE Shape'
  <2>1. TRUE = TRUE /\ h \notin known /\ known' = known \cup {h}
    BY <1>4 DEF NewCancel, Creates, Stores, Shape, HandlesAreKnown, CallsHoldHandles, TypeOK
  <2>2. \A s \in Threads : h \notin call[s].uses
    BY <2>1 DEF Shape, CallsHoldHandles
  <2>3. h \notin staged /\ h \notin whole
    BY <2>1, <2>2 DEF Shape, UpdatesInOneHand, HeldBy, ArmedBy
  <2>4. /\ object' = [object EXCEPT ![h] = "cancel"] /\ flagOf' = [flagOf EXCEPT ![h] = f]
        /\ whole' \subseteq whole \cup {h} /\ UNCHANGED <<strings, handed>>
    BY <1>4 DEF NewCancel, Creates
  <2>7. HandlesAreKnown' /\ (whole \subseteq known /\ handed <= strings)'
    BY <2>1, <2>4 DEF Shape, HandlesAreKnown, TypeOK, Kinds, Null
  <2>8. CancelsHaveFlags'
    BY <1>4, <2>4 DEF NewCancel, Shape, CancelsHaveFlags, TypeOK
  <2>5. (CallsHoldHandles /\ CallsAreApart)'
    BY <1>4, <2>1 DEF NewCancel, Idle, Shape, CallsHoldHandles, CallsAreApart, TypeOK
  <2>6. UpdatesInOneHand'
    BY <1>4, <2>1, <2>2, <2>3 DEF NewCancel, Creates, Idle, Shape, UpdatesInOneHand, HeldBy,
       ArmedBy,
       CallsAreApart, HandlesAreKnown, TypeOK
  <2> QED BY <2>5, <2>6, <2>7, <2>8 DEF Shape
<1>5. ASSUME NEW h \in Handles, NEW c \in Handles, CloneCancel(t, h, c) PROVE Shape'
  <2>1. TRUE = TRUE /\ h \notin known /\ known' = known \cup {h}
    BY <1>5 DEF CloneCancel, Creates, Stores, Shape, HandlesAreKnown, CallsHoldHandles, TypeOK
  <2>2. \A s \in Threads : h \notin call[s].uses
    BY <2>1 DEF Shape, CallsHoldHandles
  <2>3. h \notin staged /\ h \notin whole
    BY <2>1, <2>2 DEF Shape, UpdatesInOneHand, HeldBy, ArmedBy
  <2>4. /\ object' = [object EXCEPT ![h] = "cancel"] /\ flagOf' = [flagOf EXCEPT ![h] = flagOf[c]]
        /\ whole' \subseteq whole \cup {h} /\ UNCHANGED <<strings, handed>>
    BY <1>5 DEF CloneCancel, Creates
  <2>7. HandlesAreKnown' /\ (whole \subseteq known /\ handed <= strings)'
    BY <2>1, <2>4 DEF Shape, HandlesAreKnown, TypeOK, Kinds, Null
  <2>8. CancelsHaveFlags'
    BY <1>5, <2>4 DEF CloneCancel, Usable, Shape, CancelsHaveFlags, TypeOK
  <2>5. (CallsHoldHandles /\ CallsAreApart)'
    BY <1>5, <2>1 DEF CloneCancel, Idle, Shape, CallsHoldHandles, CallsAreApart, TypeOK
  <2>6. UpdatesInOneHand'
    BY <1>5, <2>1, <2>2, <2>3 DEF CloneCancel, Creates, Idle, Shape, UpdatesInOneHand, HeldBy,
       ArmedBy,
       CallsAreApart, HandlesAreKnown, TypeOK
  <2> QED BY <2>5, <2>6, <2>7, <2>8 DEF Shape
<1>6. ASSUME NEW h \in Handles, CancelCancel(h) PROVE Shape'
  BY <1>6, UsedByACall DEF CancelCancel, Idle, objects, Shape, CancelsHaveFlags, HandlesAreKnown,
     CallsHoldHandles, CallsAreApart, UpdatesInOneHand, HeldBy, ArmedBy, TypeOK
<1>7. ASSUME NEW h \in Handles, Free(t, h) PROVE Shape'
  <2>1. /\ h \in known /\ known' = known \ {h} /\ object' = [object EXCEPT ![h] = Null]
        /\ flagOf' = [flagOf EXCEPT ![h] = Null] /\ whole' = whole \ {h} /\ staged' = staged \ {h}
        /\ UNCHANGED <<call, strings, handed>>
    BY <1>7 DEF Free
  <2>2. \A s \in Threads : h \notin call[s].uses
    BY <1>7, UsedByACall DEF Free
  <2>3. (HandlesAreKnown /\ whole \subseteq known /\ handed <= strings)'
    BY <2>1 DEF Shape, HandlesAreKnown, TypeOK, Kinds
  <2>4. CancelsHaveFlags'
    BY <2>1 DEF Shape, CancelsHaveFlags, TypeOK, Null
  <2>5. (CallsHoldHandles /\ CallsAreApart)'
    BY <2>1, <2>2 DEF Shape, CallsHoldHandles, CallsAreApart, TypeOK
  <2>6. UpdatesInOneHand'
    BY <2>1, <2>2 DEF Shape, UpdatesInOneHand, HeldBy, ArmedBy, TypeOK
  <2> QED BY <2>3, <2>4, <2>5, <2>6 DEF Shape
<1>8. ASSUME NEW h \in Handles, TakesString(t, h) PROVE Shape'
  BY <1>8, UsedByACall DEF TakesString, Idle, objects, Shape, CancelsHaveFlags, HandlesAreKnown,
     CallsHoldHandles, CallsAreApart, UpdatesInOneHand, HeldBy, ArmedBy, TypeOK
<1>9. ASSUME FreesString PROVE Shape'
  BY <1>9, UsedByACall DEF FreesString, Idle, objects, Shape, CancelsHaveFlags, HandlesAreKnown,
     CallsHoldHandles, CallsAreApart, UpdatesInOneHand, HeldBy, ArmedBy, TypeOK
<1>10. ASSUME NEW state \in BOOLEAN, NEW outs \in 0 .. 2, ReportsStatus(t, state, outs) PROVE Shape'
  BY <1>10, UsedByACall DEF ReportsStatus, Idle, objects, Shape, CancelsHaveFlags,
     HandlesAreKnown, CallsHoldHandles, CallsAreApart, UpdatesInOneHand, HeldBy, ArmedBy, TypeOK,
     Outcome
<1>11. ASSUME NEW code \in Codes, PlainCall(t, code) PROVE Shape'
  BY <1>11, UsedByACall DEF PlainCall, Idle, objects, Shape, CancelsHaveFlags, HandlesAreKnown,
     CallsHoldHandles, CallsAreApart, UpdatesInOneHand, HeldBy, ArmedBy, TypeOK
<1>12. ASSUME NEW h \in Handles, NEW f \in Flags \cup {Null}, NEW out \in BOOLEAN, BeginsCheck(t, h, f, out)
      PROVE Shape'
  BY <1>12, UsedByACall DEF BeginsCheck, Begins, Stores, Usable, Idle, objects, Shape,
     CancelsHaveFlags, HandlesAreKnown, CallsHoldHandles, CallsAreApart, UpdatesInOneHand, HeldBy,
     ArmedBy, TypeOK
<1>13. ASSUME NEW h \in Handles, NEW c \in Handles, NEW f \in Flags \cup {Null}, NEW out \in BOOLEAN, BeginsPrepare(t, h, c, f, out)
      PROVE Shape'
  BY <1>13, UsedByACall DEF BeginsPrepare, Begins, Stores, Usable, Idle, objects, Shape,
     CancelsHaveFlags, HandlesAreKnown, CallsHoldHandles, CallsAreApart, UpdatesInOneHand, HeldBy,
     ArmedBy, TypeOK
<1>14. ASSUME NEW h \in Handles, Finds(t, h) PROVE Shape'
  <2>1. call[t].out = TRUE /\ h \notin known /\ known' = known \cup {h}
    BY <1>14 DEF Finds, Creates, Stores, Shape, HandlesAreKnown, CallsHoldHandles, TypeOK
  <2>2. \A s \in Threads : h \notin call[s].uses
    BY <2>1 DEF Shape, CallsHoldHandles
  <2>3. h \notin staged /\ h \notin whole
    BY <2>1, <2>2 DEF Shape, UpdatesInOneHand, HeldBy, ArmedBy
  <2>4. /\ object' = [object EXCEPT ![h] = "candidate"] /\ flagOf' = [flagOf EXCEPT ![h] = Null]
        /\ whole' \subseteq whole \cup {h} /\ UNCHANGED <<strings, handed>>
    BY <1>14 DEF Finds, Creates
  <2>7. HandlesAreKnown' /\ (whole \subseteq known /\ handed <= strings)'
    BY <2>1, <2>4 DEF Shape, HandlesAreKnown, TypeOK, Kinds, Null
  <2>8. CancelsHaveFlags'
    BY <1>14, <2>4 DEF Finds, Shape, CancelsHaveFlags, TypeOK
  <2>5. (CallsHoldHandles /\ CallsAreApart)'
    BY <1>14, <2>1 DEF Finds, Ends, Idle, Shape, CallsHoldHandles, CallsAreApart, TypeOK
  <2>6. UpdatesInOneHand'
    BY <1>14, <2>1, <2>2, <2>3 DEF Finds, Ends, Creates, Idle, Shape, UpdatesInOneHand, HeldBy,
       ArmedBy,
       CallsAreApart, HandlesAreKnown, TypeOK
  <2> QED BY <2>5, <2>6, <2>7, <2>8 DEF Shape
<1>15. ASSUME FindsNothing(t) PROVE Shape'
  BY <1>15, UsedByACall DEF FindsNothing, Ends, Idle, objects, Shape, CancelsHaveFlags,
     HandlesAreKnown, CallsHoldHandles, CallsAreApart, UpdatesInOneHand, HeldBy, ArmedBy, TypeOK
<1>16. ASSUME NEW h \in Handles, Prepares(t, h) PROVE Shape'
  <2>1. call[t].out = TRUE /\ h \notin known /\ known' = known \cup {h}
    BY <1>16 DEF Prepares, Creates, Stores, Shape, HandlesAreKnown, CallsHoldHandles, TypeOK
  <2>2. \A s \in Threads : h \notin call[s].uses
    BY <2>1 DEF Shape, CallsHoldHandles
  <2>3. h \notin staged /\ h \notin whole
    BY <2>1, <2>2 DEF Shape, UpdatesInOneHand, HeldBy, ArmedBy
  <2>4. /\ object' = [object EXCEPT ![h] = "prepared"] /\ flagOf' = [flagOf EXCEPT ![h] = Null]
        /\ whole' \subseteq whole \cup {h} /\ UNCHANGED <<strings, handed>>
    BY <1>16 DEF Prepares, Creates
  <2>7. HandlesAreKnown' /\ (whole \subseteq known /\ handed <= strings)'
    BY <2>1, <2>4 DEF Shape, HandlesAreKnown, TypeOK, Kinds, Null
  <2>8. CancelsHaveFlags'
    BY <1>16, <2>4 DEF Prepares, Shape, CancelsHaveFlags, TypeOK
  <2>5. (CallsHoldHandles /\ CallsAreApart)'
    BY <1>16, <2>1 DEF Prepares, Ends, Idle, Shape, CallsHoldHandles, CallsAreApart, TypeOK
  <2>6. UpdatesInOneHand'
    BY <1>16, <2>1, <2>2, <2>3 DEF Prepares, Ends, Creates, Idle, Shape, UpdatesInOneHand, HeldBy,
       ArmedBy,
       CallsAreApart, HandlesAreKnown, TypeOK
  <2> QED BY <2>5, <2>6, <2>7, <2>8 DEF Shape
<1>17. ASSUME NEW code \in Codes, EndsInVain(t, code) PROVE Shape'
  BY <1>17, UsedByACall DEF EndsInVain, Ends, Idle, objects, Shape, CancelsHaveFlags,
     HandlesAreKnown, CallsHoldHandles, CallsAreApart, UpdatesInOneHand, HeldBy, ArmedBy, TypeOK
<1>19. ASSUME NEW h \in Handles, NEW out \in BOOLEAN, BeginsArm(t, h, out) PROVE Shape'
  BY <1>19, UsedByACall DEF BeginsArm, Begins, Stores, Usable, Idle, objects, Shape,
     CancelsHaveFlags, HandlesAreKnown, CallsHoldHandles, CallsAreApart, UpdatesInOneHand, HeldBy,
     ArmedBy, TypeOK
<1>20. ASSUME NEW h \in Handles, Arms(t, h) PROVE Shape'
  <2>1. call[t].out = TRUE /\ h \notin known /\ known' = known \cup {h}
    BY <1>20 DEF Arms, Creates, Stores, Shape, HandlesAreKnown, CallsHoldHandles, TypeOK
  <2>2. \A s \in Threads : h \notin call[s].uses
    BY <2>1 DEF Shape, CallsHoldHandles
  <2>3. h \notin staged /\ h \notin whole
    BY <2>1, <2>2 DEF Shape, UpdatesInOneHand, HeldBy, ArmedBy
  <2>4. /\ object' = [object EXCEPT ![h] = "handoff"] /\ flagOf' = [flagOf EXCEPT ![h] = Null]
        /\ whole' \subseteq whole \cup {h} /\ UNCHANGED <<strings, handed>>
    BY <1>20 DEF Arms, Creates
  <2>7. HandlesAreKnown' /\ (whole \subseteq known /\ handed <= strings)'
    BY <2>1, <2>4 DEF Shape, HandlesAreKnown, TypeOK, Kinds, Null
  <2>8. CancelsHaveFlags'
    BY <1>20, <2>4 DEF Arms, Shape, CancelsHaveFlags, TypeOK
  <2>5. (CallsHoldHandles /\ CallsAreApart)'
    BY <1>20, <2>1 DEF Arms, Ends, Idle, Shape, CallsHoldHandles, CallsAreApart, TypeOK
  <2>6. UpdatesInOneHand'
    BY <1>20, <2>1, <2>2, <2>3 DEF Arms, Ends, Creates, Idle, Shape, UpdatesInOneHand, HeldBy,
       ArmedBy,
       CallsAreApart, HandlesAreKnown, TypeOK
  <2> QED BY <2>5, <2>6, <2>7, <2>8 DEF Shape
<1>21. ASSUME NEW code \in Codes, ArmFails(t, code) PROVE Shape'
  BY <1>21, UsedByACall DEF ArmFails, Ends, FilesAfter, Idle, objects, Shape, CancelsHaveFlags,
     HandlesAreKnown, CallsHoldHandles, CallsAreApart, UpdatesInOneHand, HeldBy, ArmedBy, TypeOK
<1>22. ASSUME NEW h \in Handles, BeginsCancel(t, h) PROVE Shape'
  BY <1>22, UsedByACall DEF BeginsCancel, Begins, Stores, Usable, Idle, objects, Shape,
     CancelsHaveFlags, HandlesAreKnown, CallsHoldHandles, CallsAreApart, UpdatesInOneHand, HeldBy,
     ArmedBy, TypeOK
<1>23. ASSUME NEW code \in Codes, EndsCancel(t, code) PROVE Shape'
  BY <1>23, UsedByACall DEF EndsCancel, Ends, Idle, objects, Shape, CancelsHaveFlags,
     HandlesAreKnown, CallsHoldHandles, CallsAreApart, UpdatesInOneHand, HeldBy, ArmedBy, TypeOK
<1> QED BY <1>1, <1>2, <1>3, <1>4, <1>5, <1>6, <1>7, <1>8, <1>9, <1>10, <1>11, <1>12,
     <1>13, <1>14, <1>15, <1>16, <1>17, <1>19, <1>20, <1>21, <1>22, <1>23 DEF Step

LEMMA HostInvStep == HostInv /\ [Next]_vars => HostInv'
<1> SUFFICES ASSUME HostInv, [Next]_vars PROVE HostInv'
  OBVIOUS
<1>1. CASE Next
  BY <1>1, TypesKept, ShapeKept DEF Next, HostInv
<1>2. CASE UNCHANGED vars
  BY <1>2 DEF vars, objects, errors, HostInv, TypeOK, Shape, CancelsHaveFlags, HandlesAreKnown,
              CallsHoldHandles, CallsAreApart, UpdatesInOneHand, HeldBy, ArmedBy, FailureIsExplained
<1> QED BY <1>1, <1>2

LEMMA HostInvInit == Init => HostInv
<1> SUFFICES ASSUME Init PROVE HostInv
  OBVIOUS
<1>1. TypeOK /\ FailureIsExplained
  BY HostAssumption DEF Init, TypeOK, Idle, Codes, FailureIsExplained
<1>2. HandlesAreKnown /\ CancelsHaveFlags /\ UpdatesInOneHand
  BY DEF Init, HandlesAreKnown, CancelsHaveFlags, UpdatesInOneHand, HeldBy, ArmedBy, Idle, Null
<1>3. CallsHoldHandles /\ CallsAreApart
  BY DEF Init, CallsHoldHandles, CallsAreApart, Idle
<1> QED BY <1>1, <1>2, <1>3 DEF HostInv, Shape, Init

\* Every object in being is one the host was given and can free: no call creates what it
\* cannot hand over (src/ffi/src/updater.rs, install.rs).
THEOREM ObjectsReachTheHost == Spec => []HandlesAreKnown
  BY HostInvInit, HostInvStep, PTL DEF Spec, HostInv, Shape

\* The files of an update exist exactly as long as one handle, or one call of freshen_arm,
\* holds it (src/ffi/src/install.rs:124-153).
THEOREM UpdatesInOnePlace == Spec => []UpdatesAreHeldOnce
  BY HostInvInit, HostInvStep, HeldOnce, PTL DEF Spec

\* A thread that was refused reads the message of that refusal (src/ffi/src/error.rs).
THEOREM FailuresExplained == Spec => []FailureIsExplained
  BY HostInvInit, HostInvStep, PTL DEF Spec, HostInv
-----------------------------------------------------------------------------
(* The life of what a host may use once: HostInterface implements SingleUse. *)

\* A call of freshen_arm or freshen_handoff_cancel has taken what it uses out of one handle.
HasTaken(t, kind) == \E p \in Handles : /\ call[t].uses = {p} /\ object[p] = kind
                                        /\ p \notin whole
CallsHaveTaken == \A t \in Threads : /\ call[t].fn = "arm" => HasTaken(t, "prepared")
                                     /\ call[t].fn = "cancel" => HasTaken(t, "handoff")

UseInv == HostInv /\ CallsHaveTaken

CancelledBy(h) == \E s \in Threads : call[s].fn = "cancel" /\ h \in call[s].uses
Life == [h \in Handles |-> LifeOf(h)]

\* In the terms of one handle, before a step and after it.
LEMMA LifeByCalls ==
  /\ \A h : (h \in Arming <=> ArmedBy(h)) /\ (h \in Cancelling <=> CancelledBy(h))
  /\ (\A h : (h \in Arming <=> ArmedBy(h)) /\ (h \in Cancelling <=> CancelledBy(h)))'
  BY DEF Arming, Cancelling, ArmedBy, CancelledBy

\* While a call has a handle, nothing happens to what is behind it.
LEMMA UsedStay ==
  ASSUME TypeOK, Shape, NEW t \in Threads, Step(t)
  PROVE  \A s \in Threads : \A p \in call[s].uses :
           object'[p] = object[p] /\ (p \in whole' => p \in whole)
<1> SUFFICES ASSUME NEW s \in Threads, NEW p \in call[s].uses
             PROVE  object'[p] = object[p] /\ (p \in whole' => p \in whole)
  OBVIOUS
<1>1. p \in Handles /\ p \in known /\ object[p] # Null /\ p \in Used
  BY UsedByACall DEF Shape, CallsHoldHandles, HandlesAreKnown, TypeOK
<1>2. ASSUME NEW h \in Handles, NEW kind \in Kinds, NEW f, NEW out, Creates(h, kind, f, out)
      PROVE  object'[p] = object[p] /\ (p \in whole' => p \in whole)
  BY <1>1, <1>2 DEF Creates, TypeOK
<1>3. ASSUME NEW h \in Handles, Free(t, h)
      PROVE  object'[p] = object[p] /\ (p \in whole' => p \in whole)
  BY <1>1, <1>3 DEF Free, TypeOK
<1>4. ASSUME NEW h \in Handles, Finds(t, h) \/ Prepares(t, h) \/ Arms(t, h)
      PROVE  object'[p] = object[p] /\ (p \in whole' => p \in whole)
  BY <1>2, <1>4 DEF Finds, Prepares, Arms, Kinds
<1>5. ASSUME NEW h \in Handles, NEW c \in Handles, CloneCancel(t, h, c)
      PROVE  object'[p] = object[p] /\ (p \in whole' => p \in whole)
  BY <1>2, <1>5 DEF CloneCancel, Kinds
<1>6. ASSUME NEW h \in Handles, NEW f \in Flags, NewCancel(t, h, f)
      PROVE  object'[p] = object[p] /\ (p \in whole' => p \in whole)
  BY <1>2, <1>6 DEF NewCancel, Kinds
<1>7. ASSUME NEW h \in Handles, NEW out \in BOOLEAN, NewUpdater(t, h, out)
      PROVE  object'[p] = object[p] /\ (p \in whole' => p \in whole)
  BY <1>2, <1>7 DEF NewUpdater, Kinds
<1> QED
  BY <1>3, <1>4, <1>5, <1>6, <1>7
     DEF Step, Refuses, FindsNothing, FailsWithin, PlainCall, EndsInVain, ArmFails, EndsCancel,
         TakesString, CancelCancel, BeginsCancel, BeginsArm, BeginsCheck, BeginsPrepare,
         ReportsStatus, FreesString, objects

\* What a step does to the calls of arming and cancelling.
LEMMA CallsChange ==
  ASSUME TypeOK, NEW t \in Threads, Step(t)
  PROVE  \A s \in Threads :
           \/ call'[s] = call[s] \/ call'[s].fn \notin {"arm", "cancel"}
           \/ \E h \in Handles : /\ call'[s].fn = "arm" /\ call'[s].uses = {h}
                                 /\ object'[h] = "prepared" /\ h \notin whole'
           \/ \E h \in Handles : /\ call'[s].fn = "cancel" /\ call'[s].uses = {h}
                                 /\ object'[h] = "handoff" /\ h \notin whole'
<1> DEFINE Good(s) ==
             \/ call'[s] = call[s] \/ call'[s].fn \notin {"arm", "cancel"}
             \/ \E h \in Handles : /\ call'[s].fn = "arm" /\ call'[s].uses = {h}
                                   /\ object'[h] = "prepared" /\ h \notin whole'
             \/ \E h \in Handles : /\ call'[s].fn = "cancel" /\ call'[s].uses = {h}
                                   /\ object'[h] = "handoff" /\ h \notin whole'
<1> SUFFICES ASSUME NEW s \in Threads PROVE Good(s)
  OBVIOUS
<1>1. ASSUME NEW fn, Ends(t, fn) PROVE Good(s)
  BY <1>1 DEF Ends, Idle, TypeOK
<1>2. ASSUME NEW h \in Handles, NEW out \in BOOLEAN, BeginsArm(t, h, out) PROVE Good(s)
  BY <1>2 DEF BeginsArm, Begins, Usable, TypeOK
<1>3. ASSUME NEW h \in Handles, BeginsCancel(t, h) PROVE Good(s)
  BY <1>3 DEF BeginsCancel, Begins, Usable, TypeOK
<1>4. ASSUME NEW h \in Handles, NEW c \in Handles, NEW f \in Flags \cup {Null},
             NEW out \in BOOLEAN, BeginsCheck(t, h, f, out) \/ BeginsPrepare(t, h, c, f, out)
      PROVE  Good(s)
  BY <1>4 DEF BeginsCheck, BeginsPrepare, Begins, TypeOK
<1>5. ASSUME NEW h \in Handles, Finds(t, h) \/ Prepares(t, h) \/ Arms(t, h) PROVE Good(s)
  BY <1>1, <1>5 DEF Finds, Prepares, Arms
<1>6. ASSUME NEW code \in Codes, EndsInVain(t, code) \/ ArmFails(t, code) \/ EndsCancel(t, code)
      PROVE  Good(s)
  BY <1>1, <1>6 DEF EndsInVain, ArmFails, EndsCancel, Idle, TypeOK
<1>7. ASSUME FindsNothing(t) PROVE Good(s)
  BY <1>1, <1>7 DEF FindsNothing
<1>8. ASSUME UNCHANGED call PROVE Good(s)
  BY <1>8
<1> HIDE DEF Good
<1> QED
  BY <1>2, <1>3, <1>4, <1>5, <1>6, <1>7, <1>8
     DEF Step, Refuses, FailsWithin, PlainCall, Free, TakesString, CancelCancel, CloneCancel,
         NewCancel, NewUpdater, ReportsStatus, FreesString

LEMMA TakenStep == UseInv /\ [Next]_vars => UseInv'
<1> SUFFICES ASSUME UseInv, [Next]_vars PROVE UseInv'
  OBVIOUS
<1>1. HostInv'
  BY HostInvStep DEF UseInv
<1>2. ASSUME NEW t \in Threads, Step(t), NEW s \in Threads, call'[s] = call[s], NEW kind,
             HasTaken(s, kind)
      PROVE  HasTaken(s, kind)'
  BY <1>2, UsedStay DEF HasTaken, UseInv, HostInv
<1>3. ASSUME NEW t \in Threads, Step(t) PROVE CallsHaveTaken'
  <2> SUFFICES ASSUME NEW s \in Threads
               PROVE  /\ call'[s].fn = "arm" => HasTaken(s, "prepared")'
                      /\ call'[s].fn = "cancel" => HasTaken(s, "handoff")'
    BY DEF CallsHaveTaken
  <2>1. CASE call'[s] = call[s]
    BY <1>2, <1>3, <2>1 DEF UseInv, CallsHaveTaken
  <2>2. CASE call'[s] # call[s]
    BY <1>3, <2>2, CallsChange DEF UseInv, HostInv, HasTaken
  <2> QED BY <2>1, <2>2
<1>4. ASSUME UNCHANGED vars PROVE CallsHaveTaken'
  BY <1>4 DEF vars, objects, CallsHaveTaken, HasTaken, UseInv
<1> QED BY <1>1, <1>3, <1>4 DEF Next, UseInv

\* No call of the two begins or ends.
CallsStand == \A s \in Threads : \/ call'[s] = call[s]
                                 \/ {call[s].fn, call'[s].fn} \cap {"arm", "cancel"} = {}

\* Calls other than these two leave every life as it was, unless they create.
LEMMA QuietLife ==
  ASSUME UNCHANGED <<object, whole>>,
         CallsStand
  PROVE  UNCHANGED Life
<1>1. \A h : (ArmedBy(h)' <=> ArmedBy(h)) /\ (CancelledBy(h)' <=> CancelledBy(h))
  BY DEF ArmedBy, CancelledBy, CallsStand
<1>2. \A h \in Handles : LifeOf(h)' = LifeOf(h)
  BY <1>1, LifeByCalls DEF LifeOf
<1> QED BY <1>2 DEF Life

\* A new object is good for one use when it is an update or a handoff.
LEMMA CreatedLife ==
  ASSUME HostInv, NEW h \in Handles, NEW kind \in Kinds, NEW f, Creates(h, kind, f, TRUE),
         CallsStand
  PROVE  /\ Life[h] = "none"
         /\ Life' = [Life EXCEPT ![h] = IF kind = "prepared" THEN "update"
                                        ELSE IF kind = "handoff" THEN "handoff" ELSE "none"]
<1>1. \A g : (ArmedBy(g)' <=> ArmedBy(g)) /\ (CancelledBy(g)' <=> CancelledBy(g))
  BY DEF ArmedBy, CancelledBy, CallsStand
<1>2. \A g \in Handles \ {h} : LifeOf(g)' = LifeOf(g)
  BY <1>1, LifeByCalls DEF LifeOf, Creates, HostInv, TypeOK
<1>3. LifeOf(h)' = IF kind = "prepared" THEN "update"
                   ELSE IF kind = "handoff" THEN "handoff" ELSE "none"
  BY DEF LifeOf, Creates, HostInv, TypeOK
<1>4. LifeOf(h) = "none"
  BY DEF LifeOf, Creates, Null
<1> QED BY <1>2, <1>3, <1>4 DEF Life

LEMMA LifeStep == ASSUME UseInv, [Next]_vars PROVE [Once!Next]_(Once!vars)
<1> USE DEF UseInv
<1>a. HostInv' /\ TypeOK /\ Shape
  BY HostInvStep DEF HostInv
<1>0. \A h \in Handles : Life[h] = LifeOf(h) /\ Life'[h] = LifeOf(h)'
  BY DEF Life
<1>1. ASSUME UNCHANGED <<Life, staged>> PROVE [Once!Next]_(Once!vars)
  BY <1>1 DEF Life, Once!vars
<1>2. ASSUME NEW t \in Threads, NEW h \in Handles, Prepares(t, h) PROVE Once!Next
  <2>1. call[t].out = TRUE /\ "prepared" \in Kinds
    BY <1>a DEF Shape, CallsHoldHandles, TypeOK, Kinds
  <2>a. CallsStand
    BY <1>2, <1>a DEF CallsStand, Prepares, Ends, Idle, TypeOK
  <2>b. Creates(h, "prepared", Null, TRUE)
    BY <1>2, <2>1 DEF Prepares
  <2>2. Life[h] = "none" /\ Life' = [Life EXCEPT ![h] = "update"]
    BY <2>1, <2>a, <2>b, CreatedLife
  <2>3. Once!Prepare(h)
    BY <1>2, <2>2 DEF Prepares, Once!Prepare, Once!Becomes, Life
  <2> QED BY <2>3 DEF Once!Next
<1>3. ASSUME NEW t \in Threads, NEW h \in Handles, NEW out \in BOOLEAN, BeginsArm(t, h, out)
      PROVE  Once!Next
  <2>1. \A g : (ArmedBy(g)' <=> ArmedBy(g) \/ g = h) /\ (CancelledBy(g)' <=> CancelledBy(g))
    BY <1>3, <1>a DEF BeginsArm, Begins, Idle, ArmedBy, CancelledBy, TypeOK
  <2>2. \A g \in Handles \ {h} : LifeOf(g)' = LifeOf(g)
    BY <1>3, <2>1, LifeByCalls DEF LifeOf, BeginsArm
  <2>3. LifeOf(h) = "update" /\ LifeOf(h)' = "arming"
    BY <1>3, <2>1, LifeByCalls DEF LifeOf, BeginsArm, Usable
  <2>4. Once!Arm(h)
    BY <1>3, <2>2, <2>3 DEF BeginsArm, Once!Arm, Once!Becomes, Life
  <2> QED BY <2>4 DEF Once!Next
<1>4. ASSUME NEW t \in Threads, call[t].fn = "arm", call' = [call EXCEPT ![t] = Idle],
             NEW p \in Handles, call[t].uses = {p}
      PROVE  \A g : (ArmedBy(g)' <=> ArmedBy(g) /\ g # p) /\ (CancelledBy(g)' <=> CancelledBy(g))
  BY <1>4, <1>a DEF Idle, ArmedBy, CancelledBy, Shape, CallsAreApart, TypeOK
<1>5. ASSUME NEW t \in Threads, NEW h \in Handles, Arms(t, h) PROVE Once!Next
  <2>1. PICK p \in Handles : call[t].uses = {p} /\ object[p] = "prepared" /\ p \notin whole
    BY <1>5 DEF CallsHaveTaken, HasTaken, Arms, Ends
  <2>2. \A g : (ArmedBy(g)' <=> ArmedBy(g) /\ g # p) /\ (CancelledBy(g)' <=> CancelledBy(g))
    BY <1>5, <2>1, <1>4 DEF Arms, Ends
  <2>3. ~CancelledBy(p) /\ ArmedBy(p)
    BY <1>5, <2>1, <1>a DEF CancelledBy, ArmedBy, Arms, Ends, Shape, CallsAreApart
  <2>4. object[h] = Null /\ object' = [object EXCEPT ![h] = "handoff"] /\ whole' = whole \cup {h}
    BY <1>5 DEF Arms, Creates
  <2>5. p # h
    BY <2>1, <2>4 DEF Null
  <2>6. \A g \in Handles \ {h, p} : LifeOf(g)' = LifeOf(g)
    BY <2>2, <2>4, <1>a, LifeByCalls DEF LifeOf, TypeOK
  <2>7. LifeOf(p) = "arming" /\ LifeOf(p)' = "spent"
    BY <2>1, <2>2, <2>3, <2>4, <2>5, <1>a, LifeByCalls DEF LifeOf, TypeOK
  <2>8. LifeOf(h) = "none" /\ LifeOf(h)' = "handoff"
    BY <2>4, <1>a DEF LifeOf, TypeOK, Null
  <2>9. Life' = [Life EXCEPT ![p] = "spent", ![h] = "handoff"]
    BY <2>5, <2>6, <2>7, <2>8 DEF Life
  <2>10. Once!ArmSucceeds(p, h)
    BY <1>5, <2>1, <2>7, <2>8, <2>9 DEF Arms, Once!ArmSucceeds, Life
  <2> QED BY <2>10 DEF Once!Next
<1>6. ASSUME NEW t \in Threads, NEW code \in Codes, ArmFails(t, code) PROVE Once!Next
  <2>1. PICK p \in Handles : call[t].uses = {p} /\ object[p] = "prepared" /\ p \notin whole
    BY <1>6 DEF CallsHaveTaken, HasTaken, ArmFails, Ends
  <2>2. \A g : (ArmedBy(g)' <=> ArmedBy(g) /\ g # p) /\ (CancelledBy(g)' <=> CancelledBy(g))
    BY <1>6, <2>1, <1>4 DEF ArmFails, Ends
  <2>3. ~CancelledBy(p) /\ ArmedBy(p)
    BY <1>6, <2>1, <1>a DEF CancelledBy, ArmedBy, ArmFails, Ends, Shape, CallsAreApart
  <2>4. \A g \in Handles \ {p} : LifeOf(g)' = LifeOf(g)
    BY <1>6, <2>2, LifeByCalls DEF LifeOf, ArmFails
  <2>5. LifeOf(p) = "arming" /\ LifeOf(p)' = "spent"
    BY <1>6, <2>1, <2>2, <2>3, LifeByCalls DEF LifeOf, ArmFails
  <2>6. Once!ArmFails(p)
    BY <1>6, <2>1, <2>4, <2>5 DEF ArmFails, FilesAfter, Once!ArmFails, Once!Becomes, Life
  <2> QED BY <2>6 DEF Once!Next
<1>7. ASSUME NEW t \in Threads, NEW h \in Handles, BeginsCancel(t, h) PROVE Once!Next
  <2>1. \A g : (ArmedBy(g)' <=> ArmedBy(g)) /\ (CancelledBy(g)' <=> CancelledBy(g) \/ g = h)
    BY <1>7, <1>a DEF BeginsCancel, Begins, Idle, ArmedBy, CancelledBy, TypeOK
  <2>2. \A g \in Handles \ {h} : LifeOf(g)' = LifeOf(g)
    BY <1>7, <2>1, LifeByCalls DEF LifeOf, BeginsCancel
  <2>3. ~ArmedBy(h)
    BY <1>7, UsedByACall DEF BeginsCancel, Usable, ArmedBy
  <2>4. LifeOf(h) = "handoff" /\ LifeOf(h)' = "cancelling"
    BY <1>7, <2>1, <2>3, LifeByCalls DEF LifeOf, BeginsCancel, Usable
  <2>5. Once!Cancel(h)
    BY <1>7, <2>2, <2>4 DEF BeginsCancel, Once!Cancel, Once!Becomes, Life
  <2> QED BY <2>5 DEF Once!Next
<1>8. ASSUME NEW t \in Threads, NEW code \in Codes, EndsCancel(t, code) PROVE Once!Next
  <2>1. PICK p \in Handles : call[t].uses = {p} /\ object[p] = "handoff" /\ p \notin whole
    BY <1>8 DEF CallsHaveTaken, HasTaken, EndsCancel, Ends
  <2>2. \A g : (ArmedBy(g)' <=> ArmedBy(g)) /\ (CancelledBy(g)' <=> CancelledBy(g) /\ g # p)
    BY <1>8, <2>1, <1>a DEF EndsCancel, Ends, Idle, ArmedBy, CancelledBy, Shape, CallsAreApart,
                            TypeOK
  <2>3. ~ArmedBy(p) /\ CancelledBy(p)
    BY <1>8, <2>1, <1>a DEF CancelledBy, ArmedBy, EndsCancel, Ends, Shape, CallsAreApart
  <2>4. \A g \in Handles \ {p} : LifeOf(g)' = LifeOf(g)
    BY <1>8, <2>2, LifeByCalls DEF LifeOf, EndsCancel, objects
  <2>5. LifeOf(p) = "cancelling" /\ LifeOf(p)' = "spent"
    BY <1>8, <2>1, <2>2, <2>3, LifeByCalls DEF LifeOf, EndsCancel, objects
  <2>6. Once!CancelEnds(p)
    BY <1>8, <2>4, <2>5 DEF EndsCancel, objects, Once!CancelEnds, Once!Becomes, Life
  <2> QED BY <2>6 DEF Once!Next
<1>9. ASSUME NEW t \in Threads, NEW h \in Handles, Free(t, h) PROVE [Once!Next]_(Once!vars)
  <2>1. \A g : (ArmedBy(g)' <=> ArmedBy(g)) /\ (CancelledBy(g)' <=> CancelledBy(g))
    BY <1>9 DEF Free, ArmedBy, CancelledBy
  <2>2. \A g \in Handles \ {h} : LifeOf(g)' = LifeOf(g)
    BY <1>9, <1>a, <2>1, LifeByCalls DEF LifeOf, Free, TypeOK
  <2>3. ~ArmedBy(h) /\ ~CancelledBy(h)
    BY <1>9, UsedByACall DEF Free, ArmedBy, CancelledBy
  <2>4. LifeOf(h) \in {"none", "update", "handoff", "spent"} /\ LifeOf(h)' = "none"
    BY <1>9, <1>a, <2>3, LifeByCalls DEF LifeOf, Free, TypeOK, Null
  <2>5. Life' = [Life EXCEPT ![h] = "none"] /\ staged' = staged \ {h}
    BY <1>9, <2>2, <2>4 DEF Free, Life
  <2>6. CASE LifeOf(h) # "none"
    BY <2>4, <2>5, <2>6 DEF Once!Next, Once!Free, Once!Becomes, Life
  <2>7. CASE LifeOf(h) = "none"
    <3>1. h \notin staged
      BY <2>3, <2>7, <1>a DEF LifeOf, Shape, UpdatesInOneHand, HeldBy
    <3> QED BY <1>0, <1>1, <2>5, <2>7, <3>1 DEF Life
  <2> QED BY <2>6, <2>7
<1>10. ASSUME NEW h \in Handles, NEW kind \in {"updater", "cancel", "candidate"}, NEW f,
              Creates(h, kind, f, TRUE), UNCHANGED staged, CallsStand
       PROVE  [Once!Next]_(Once!vars)
  <2>1. kind \in Kinds /\ kind \notin {"prepared", "handoff"}
    BY DEF Kinds
  <2>2. /\ Life[h] = "none"
        /\ Life' = [Life EXCEPT ![h] = IF kind = "prepared" THEN "update"
                                       ELSE IF kind = "handoff" THEN "handoff" ELSE "none"]
    BY <1>10, <2>1, CreatedLife
  <2> QED BY <1>1, <1>10, <2>1, <2>2 DEF Life
<1>11. ASSUME NEW t \in Threads, NEW h \in Handles, NEW out \in BOOLEAN, NewUpdater(t, h, out)
       PROVE  [Once!Next]_(Once!vars)
  BY <1>10, <1>11 DEF NewUpdater, Stores, CallsStand
<1>12. ASSUME NEW t \in Threads, NEW h \in Handles, NEW f \in Flags, NewCancel(t, h, f)
       PROVE  [Once!Next]_(Once!vars)
  BY <1>10, <1>12 DEF NewCancel, CallsStand
<1>13. ASSUME NEW t \in Threads, NEW h \in Handles, NEW c \in Handles, CloneCancel(t, h, c)
       PROVE  [Once!Next]_(Once!vars)
  BY <1>10, <1>13 DEF CloneCancel, CallsStand
<1>14. ASSUME NEW t \in Threads, NEW h \in Handles, Finds(t, h) PROVE [Once!Next]_(Once!vars)
  <2>1. call[t].out = TRUE
    BY <1>a DEF Shape, CallsHoldHandles, TypeOK
  <2>2. CallsStand
    BY <1>14, <1>a DEF CallsStand, Finds, Ends, Idle, TypeOK
  <2> QED BY <1>10, <1>14, <2>1, <2>2 DEF Finds
<1>15. ASSUME UNCHANGED <<objects, call>> PROVE [Once!Next]_(Once!vars)
  BY <1>1, <1>15, QuietLife DEF objects, CallsStand
<1>16. ASSUME CallsStand, UNCHANGED objects PROVE [Once!Next]_(Once!vars)
  BY <1>1, <1>16, QuietLife DEF objects
<1>17. ASSUME NEW t \in Threads, FindsNothing(t) \/ \E code \in Codes : EndsInVain(t, code)
       PROVE  [Once!Next]_(Once!vars)
  <2>1. CallsStand /\ UNCHANGED objects
    BY <1>17, <1>a DEF FindsNothing, EndsInVain, Ends, CallsStand, Idle, TypeOK
  <2> QED BY <1>16, <2>1
<1>18. ASSUME NEW t \in Threads, NEW h \in Handles, NEW c \in Handles,
              NEW f \in Flags \cup {Null}, NEW out \in BOOLEAN,
              BeginsCheck(t, h, f, out) \/ BeginsPrepare(t, h, c, f, out)
       PROVE  [Once!Next]_(Once!vars)
  <2>1. CallsStand /\ UNCHANGED objects
    BY <1>18, <1>a DEF BeginsCheck, BeginsPrepare, Begins, CallsStand, Idle, TypeOK
  <2> QED BY <1>16, <2>1
<1>19. ASSUME NEW t \in Threads, Step(t) PROVE [Once!Next]_(Once!vars)
  <2>1. ASSUME NEW h \in Handles,
               \/ Free(t, h) \/ TakesString(t, h) \/ CancelCancel(h)
               \/ Finds(t, h) \/ Prepares(t, h) \/ Arms(t, h) \/ BeginsCancel(t, h)
        PROVE  [Once!Next]_(Once!vars)
    BY <1>2, <1>5, <1>7, <1>9, <1>14, <1>15, <2>1 DEF TakesString, CancelCancel
  <2>2. ASSUME Refuses(t) \/ FreesString \/ \E code \in Codes : FailsWithin(t, code) \/ PlainCall(t, code)
        PROVE  [Once!Next]_(Once!vars)
    BY <1>15, <2>2 DEF Refuses, FreesString, FailsWithin, PlainCall
  <2>3. ASSUME NEW state \in BOOLEAN, NEW outs \in 0 .. 2, ReportsStatus(t, state, outs)
        PROVE  [Once!Next]_(Once!vars)
    BY <1>15, <2>3 DEF ReportsStatus
  <2> QED
    BY <1>3, <1>6, <1>8, <1>11, <1>12, <1>13, <1>17, <1>18, <1>19, <2>1, <2>2, <2>3 DEF Step
<1>20. CASE UNCHANGED vars
  BY <1>15, <1>20 DEF vars
<1> QED BY <1>19, <1>20 DEF Next

LEMMA UseInit == Init => UseInv /\ Once!Init
<1> SUFFICES ASSUME Init PROVE UseInv /\ Once!Init
  OBVIOUS
<1>1. UseInv
  BY HostInvInit DEF Init, Idle, UseInv, CallsHaveTaken
<1>2. \A h \in Handles : LifeOf(h) = "none"
  BY DEF Init, LifeOf, Null
<1> QED BY <1>1, <1>2 DEF Once!Init, Init

\* Whatever calls are made from whatever threads, an update is armed at most once, a handoff
\* comes of one update and is cancelled at most once, and neither comes back when that fails
\* (src/ffi/src/install.rs:124-153, 173-182).
THEOREM HostKeepsSingleUse == Spec => UsesEachOnce
  BY UseInit, TakenStep, LifeStep, PTL DEF Spec, UsesEachOnce, Once!Spec
================================================================================
