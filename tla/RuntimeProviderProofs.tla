------------------------ MODULE RuntimeProviderProofs ------------------------
(***************************************************************************)
(* What TLAPS proves of the runtime provider, for any number of concurrent *)
(* calls and of createRuntime() attempts.                                  *)
(***************************************************************************)
EXTENDS RuntimeProvider, FiniteSetTheorems, TLAPS

Operating == {c \in Calls : pc[c] = "operating"}

\* The counter counts the operations that run.
ActiveOperationsCount == activeOperations = Cardinality(Operating)

\* Who waits waits for a creation, and what a shutdown() awaits is still to be done: the
\* callback it has chained waits for a creation that is under way, or is about to run.
ShutdownsContinue ==
  /\ \A s \in Sessions : chain[s] = "registered" => attempt[s] \in {"pending", "fulfilling", "rejecting"}
  /\ \A s \in Sessions : shutdownPromise = s => chain[s] # "none"
  /\ \A c \in Calls : pc[c] \notin {"idle", "operating"} => on[c] \in Sessions
  /\ \A c \in Calls : pc[c] = "shutdown" => chain[on[c]] \in {"registered", "queued"}

\* Inductive: the invariants of the runs, the meaning of the counter, and that every
\* shutdown() that waits will be answered.
IInv ==
  /\ TypeOK
  /\ PublishedIsLive
  /\ AwaitedIsUnsettled
  /\ ShuttingDownIsOwed
  /\ ActiveOperationsCount
  /\ ShutdownsContinue

USE ProviderAssumption

-----------------------------------------------------------------------------
\* What the counter says about emptiness, and how it moves.
LEMMA OperatingIsFinite == IsFiniteSet(Operating) /\ Cardinality(Operating) \in Nat
  BY FS_Subset, FS_CardinalityType DEF Operating

LEMMA NothingOperates ==
  ASSUME ActiveOperationsCount, activeOperations = 0
  PROVE  Operating = {}
  BY OperatingIsFinite, FS_EmptySet DEF ActiveOperationsCount

LEMMA OperationStarts ==
  ASSUME TypeOK, ActiveOperationsCount, NEW c \in Calls,
         pc[c] # "operating", pc' = [pc EXCEPT ![c] = "operating"],
         activeOperations' = activeOperations + 1
  PROVE  ActiveOperationsCount'
<1>1. Operating' = Operating \cup {c} /\ c \notin Operating
  BY DEF Operating, TypeOK
<1>2. QED
  BY <1>1, OperatingIsFinite, FS_AddElement DEF ActiveOperationsCount

LEMMA OperationEnds ==
  ASSUME TypeOK, ActiveOperationsCount, NEW c \in Calls,
         pc[c] = "operating", pc' = [pc EXCEPT ![c] = "idle"],
         activeOperations' = activeOperations - 1
  PROVE  ActiveOperationsCount' /\ activeOperations' \in Nat
<1>1. Operating' = Operating \ {c} /\ c \in Operating
  BY DEF Operating, TypeOK
<1>2. Cardinality(Operating') = Cardinality(Operating) - 1
  BY <1>1, OperatingIsFinite, FS_RemoveElement
<1>3. IsFiniteSet(Operating') /\ Cardinality(Operating') \in Nat
  BY <1>1, OperatingIsFinite, FS_Subset, FS_CardinalityType
<1>4. QED
  BY <1>2, <1>3 DEF ActiveOperationsCount

LEMMA NothingCounts ==
  ASSUME activeOperations' = 0, Operating' = {}
  PROVE  ActiveOperationsCount'
  BY FS_EmptySet DEF ActiveOperationsCount

\* Steps of calls that start or stop waiting leave the set of operations alone.
LEMMA OperatingUnchanged ==
  ASSUME ActiveOperationsCount, UNCHANGED activeOperations,
         \A c \in Calls : pc'[c] = "operating" <=> pc[c] = "operating"
  PROVE  ActiveOperationsCount'
<1>1. Operating' = Operating
  BY DEF Operating
<1>2. QED
  BY <1>1 DEF ActiveOperationsCount

-----------------------------------------------------------------------------
LEMMA InitEstablishes == Init => IInv
<1>1. Init => Operating = {}
  BY DEF Init, Operating
<1>2. Init => ActiveOperationsCount
  BY <1>1, FS_EmptySet DEF Init, ActiveOperationsCount
<1>3. Init => TypeOK
  BY DEF Init, TypeOK, States, Attempts, Phases, Replies
<1>4. QED
  BY <1>2, <1>3 DEF Init, IInv, PublishedIsLive, AwaitedIsUnsettled, ShuttingDownIsOwed,
     ShutdownsContinue

LEMMA ShutdownsContinueAtCalls ==
  ASSUME TypeOK, AwaitedIsUnsettled, ShutdownsContinue, NEW c \in Calls, Call(c)
  PROVE  ShutdownsContinue'
<1> USE DEF TypeOK, ShutdownsContinue
<1>1. CASE \/ OpenRejected(c) \/ OpenAlreadyOpen(c) \/ CloseRejected(c) \/ CloseNow(c)
           \/ ShutdownNothingOpen(c) \/ ShutdownNow(c) \/ WithRuntimeRejected(c)
  BY <1>1 DEF OpenRejected, OpenAlreadyOpen, CloseRejected, CloseNow, ShutdownNothingOpen,
     ShutdownNow, WithRuntimeRejected, Return, closure, outside
<1>2. CASE OpenJoins(c) \/ CloseJoins(c) \/ WithRuntimeStarts(c)
  BY <1>2 DEF OpenJoins, CloseJoins, WithRuntimeStarts, Suspend, closure, outside
<1>3. CASE OpenCreates(c)
  BY <1>3 DEF OpenCreates, FirstUnused, Suspend
<1>4. CASE ShutdownJoins(c)
  BY <1>4 DEF ShutdownJoins, Return, Suspend, closure, outside
<1>5. CASE ShutdownDefers(c)
  BY <1>5 DEF ShutdownDefers, AwaitedIsUnsettled, Suspend
<1>6. QED
  BY <1>1, <1>2, <1>3, <1>4, <1>5 DEF Call

LEMMA ShutdownsContinueAtReactions ==
  ASSUME TypeOK, ShutdownsContinue, NEW s \in Sessions,
         CreateSettles(s) \/ OpenPromiseSettles(s) \/ ShutdownContinues(s)
  PROVE  ShutdownsContinue'
<1> USE DEF TypeOK, ShutdownsContinue
<1>1. CASE CreateSettles(s)
  BY <1>1 DEF CreateSettles, CreateResolves, CreateRejects, calls
<1>2. CASE OpenPromiseSettles(s)
  BY <1>2 DEF OpenPromiseSettles, ReturnAll, Awaiting
<1>3. CASE ShutdownContinues(s)
  BY <1>3 DEF ShutdownContinues, FinalizeShutdown, ReturnAll
<1>4. QED
  BY <1>1, <1>2, <1>3

LEMMA CallPreserves ==
  ASSUME IInv, NEW c \in Calls, Call(c)
  PROVE  IInv'
<1> USE DEF IInv
<1>0. ShutdownsContinue'
  BY ShutdownsContinueAtCalls DEF IInv
<1>1. ActiveOperationsCount'
  <2>1. CASE WithRuntimeStarts(c)
    BY <2>1, OperationStarts DEF WithRuntimeStarts, Suspend
  <2>2. CASE ~WithRuntimeStarts(c)
    <3>1. UNCHANGED activeOperations
      BY <2>2 DEF Call, OpenRejected, OpenAlreadyOpen, OpenJoins, OpenCreates,
            CloseRejected, CloseJoins, CloseNow, ShutdownJoins, ShutdownDefers,
            ShutdownNothingOpen, ShutdownNow, WithRuntimeRejected, closure
    <3>2. \E p \in {"idle", "opening", "openingBehindClose", "closing", "shutdown"} :
            pc' = [pc EXCEPT ![c] = p] /\ pc[c] = "idle"
      BY <2>2 DEF Call, OpenRejected, OpenAlreadyOpen, OpenJoins, OpenCreates,
            CloseRejected, CloseJoins, CloseNow, ShutdownJoins, ShutdownDefers,
            ShutdownNothingOpen, ShutdownNow, WithRuntimeRejected, Return, Suspend
    <3>3. \A d \in Calls : pc'[d] = "operating" <=> pc[d] = "operating"
      BY <3>2 DEF TypeOK
    <3>4. QED
      BY <3>1, <3>3, OperatingUnchanged
  <2>3. QED
    BY <2>1, <2>2
<1> USE DEF TypeOK, PublishedIsLive, AwaitedIsUnsettled, ShuttingDownIsOwed
<1>2. CASE OpenRejected(c)
  BY <1>0, <1>1, <1>2 DEF OpenRejected, Return, closure, outside, States, Replies, Phases
<1>3. CASE OpenAlreadyOpen(c)
  BY <1>0, <1>1, <1>3 DEF OpenAlreadyOpen, Return, outside, States, Replies, Phases
<1>4. CASE OpenJoins(c)
  BY <1>0, <1>1, <1>4 DEF OpenJoins, Suspend, closure, outside, States, Replies, Phases
<1>5. CASE OpenCreates(c)
  BY <1>0, <1>1, <1>5 DEF OpenCreates, FirstUnused, Suspend, States, Replies, Phases, Attempts
<1>6. CASE CloseRejected(c)
  BY <1>0, <1>1, <1>6 DEF CloseRejected, Return, closure, outside, States, Replies, Phases
<1>7. CASE CloseJoins(c)
  BY <1>0, <1>1, <1>7 DEF CloseJoins, Suspend, closure, outside, States, Replies, Phases
<1>8. CASE CloseNow(c)
  BY <1>0, <1>1, <1>8 DEF CloseNow, SessionsAfterClose, Return, States, Replies, Phases
<1>9. CASE ShutdownJoins(c)
  BY <1>0, <1>1, <1>9 DEF ShutdownJoins, Return, Suspend, closure, outside, States, Replies, Phases
<1>10. CASE ShutdownDefers(c)
  BY <1>0, <1>1, <1>10 DEF ShutdownDefers, Suspend, States, Replies, Phases
<1>11. CASE ShutdownNothingOpen(c)
  BY <1>0, <1>1, <1>11 DEF ShutdownNothingOpen, Return, outside, States, Replies, Phases
<1>12. CASE ShutdownNow(c)
  BY <1>0, <1>1, <1>12 DEF ShutdownNow, FinalizeShutdown, SessionsAfterClose, Return, States, Replies, Phases
<1>13. CASE WithRuntimeRejected(c)
  BY <1>0, <1>1, <1>13 DEF WithRuntimeRejected, Return, closure, outside, States, Replies, Phases
<1>14. CASE WithRuntimeStarts(c)
  BY <1>0, <1>1, <1>14 DEF WithRuntimeStarts, Suspend, outside, States, Replies, Phases
<1>15. QED
  BY <1>2, <1>3, <1>4, <1>5, <1>6, <1>7, <1>8, <1>9, <1>10, <1>11, <1>12, <1>13, <1>14 DEF Call

LEMMA OperationPreserves ==
  ASSUME IInv, NEW c \in Calls, OperationSettles(c)
  PROVE  IInv'
<1> USE DEF IInv
<1>1. ActiveOperationsCount' /\ activeOperations' \in Nat
  BY OperationEnds DEF OperationSettles, Return
<1>0. ShutdownsContinue'
  BY DEF OperationSettles, FinalizeShutdown, Return, TypeOK, ShutdownsContinue
<1>2. CASE state = "shutting_down" /\ activeOperations = 1
  BY <1>0, <1>1, <1>2 DEF OperationSettles, FinalizeShutdown, SessionsAfterClose, Return, TypeOK,
     PublishedIsLive, AwaitedIsUnsettled, ShuttingDownIsOwed, States, Replies, Phases
<1>3. CASE ~(state = "shutting_down" /\ activeOperations = 1)
  <2>1. state = "shutting_down" => activeOperations' > 0 \/ activeOperations = 0
    BY <1>1, <1>3 DEF OperationSettles, TypeOK
  <2>2. activeOperations # 0
    BY <1>1 DEF OperationSettles, TypeOK
  <2>3. QED
    BY <1>0, <1>1, <1>3, <2>1, <2>2 DEF OperationSettles, Return, TypeOK,
       PublishedIsLive, AwaitedIsUnsettled, ShuttingDownIsOwed, Replies, Phases
<1>4. QED
  BY <1>2, <1>3

LEMMA ReactionPreserves ==
  ASSUME IInv, NEW s \in Sessions,
         CreateSettles(s) \/ OpenPromiseSettles(s) \/ ShutdownContinues(s)
  PROVE  IInv'
<1> USE DEF IInv
<1>1. ActiveOperationsCount'
  <2>1. CASE CreateSettles(s)
    BY <2>1, OperatingUnchanged DEF CreateSettles, CreateResolves, CreateRejects, calls
  <2>2. CASE OpenPromiseSettles(s)
    BY <2>2, OperatingUnchanged DEF OpenPromiseSettles, ReturnAll, Awaiting
  <2>3. CASE ShutdownContinues(s)
    BY <2>3, OperatingUnchanged DEF ShutdownContinues, ReturnAll
  <2>4. QED
    BY <2>1, <2>2, <2>3
<1>0. ShutdownsContinue'
  BY ShutdownsContinueAtReactions
<1> USE DEF TypeOK, PublishedIsLive, AwaitedIsUnsettled, ShuttingDownIsOwed
<1>2. CASE CreateResolves(s)
  BY <1>0, <1>1, <1>2 DEF CreateResolves, calls, States, Attempts
<1>3. CASE CreateRejects(s)
  BY <1>0, <1>1, <1>3 DEF CreateRejects, calls, States, Attempts
<1>4. CASE OpenPromiseSettles(s)
  <2>1. \A c \in Calls : pc'[c] \in {"opening", "openingBehindClose", "closing"}
          => on[c] # s /\ pc'[c] = pc[c] /\ on'[c] = on[c]
    BY <1>4 DEF OpenPromiseSettles, ReturnAll, Awaiting
  <2>2. AwaitedIsUnsettled'
    BY <1>4, <2>1 DEF OpenPromiseSettles, Attempts, Phases
  <2>3. TypeOK'
    BY <1>4 DEF OpenPromiseSettles, ReturnAll, Resumed, SessionsAfterClose,
       States, Attempts, Phases, Replies
  <2>4. ShuttingDownIsOwed'
    BY <1>4 DEF OpenPromiseSettles
  <2>5. QED
    BY <1>0, <1>1, <1>4, <2>2, <2>3, <2>4 DEF OpenPromiseSettles
<1>5. CASE ShutdownContinues(s)
  BY <1>0, <1>1, <1>5 DEF ShutdownContinues, FinalizeShutdown, SessionsAfterClose, ReturnAll,
     States, Phases, Replies
<1>6. QED
  BY <1>2, <1>3, <1>4, <1>5 DEF CreateSettles

LEMMA StepPreserves == IInv /\ [Next]_vars => IInv'
<1> SUFFICES ASSUME IInv, [Next]_vars PROVE IInv'
  OBVIOUS
<1>1. CASE Next
  BY <1>1, CallPreserves, OperationPreserves, ReactionPreserves DEF Next
<1>2. CASE UNCHANGED vars
  BY <1>2 DEF vars, closure, outside, calls, IInv, TypeOK, PublishedIsLive,
     AwaitedIsUnsettled, ShuttingDownIsOwed, ActiveOperationsCount, Operating,
     ShutdownsContinue
<1>3. QED
  BY <1>1, <1>2

-----------------------------------------------------------------------------
\* The inductive invariant holds in every reachable state.
THEOREM Invariance == Spec => []IInv
  BY InitEstablishes, StepPreserves, PTL DEF Spec

\* Every variable keeps its type, whatever the calls and their number.
THEOREM TypeCorrect == Spec => []TypeOK
  BY Invariance, PTL DEF IInv

\* withRuntime() never gets hold of a runtime that has been closed.
THEOREM PublishedRuntimeIsLive == Spec => []PublishedIsLive
  BY Invariance, PTL DEF IInv

\* open() and close() never wait on a promise that settled before they looked.
THEOREM AwaitsEnd == Spec => []AwaitedIsUnsettled
  BY Invariance, PTL DEF IInv

\* shutdown() never waits for a callback that has run, or that no promise will run.
THEOREM ShutdownsAreAnswered == Spec => []ShutdownsContinue
  BY Invariance, PTL DEF IInv

\* The provider never refuses work without something under way that ends it.
THEOREM RefusalIsTemporary == Spec => []ShuttingDownIsOwed
  BY Invariance, PTL DEF IInv

\* shutdown() closes no runtime while an operation runs, on any of its paths.
THEOREM ShutdownSparesOperations == Spec => ShutdownSparesWork
<1> DEFINE SparesWork == (\E s \in Sessions : Disposes(s)) /\ ~ByClose
                          => \A c \in Calls : pc'[c] # "operating"
<1>1. ASSUME IInv, [Next]_vars PROVE [SparesWork]_vars
  <2> SUFFICES ASSUME NEW t \in Sessions, Disposes(t), ~ByClose, Next
               PROVE  Operating' = {}
    BY <1>1 DEF Operating, vars, outside, Disposes
  <2> USE <1>1 DEF IInv
  <2>1. ASSUME NEW c \in Calls, Call(c) PROVE Operating' = {}
    <3>1. ShutdownNow(c) /\ activeOperations = 0
      BY <2>1 DEF Call, OpenRejected, OpenAlreadyOpen, OpenJoins, OpenCreates, CloseRejected,
         CloseJoins, ByClose, ShutdownJoins, ShutdownDefers, ShutdownNothingOpen, ShutdownNow,
         WithRuntimeRejected, WithRuntimeStarts, Disposes, outside
    <3>2. QED
      BY <3>1, NothingOperates DEF ShutdownNow, Return, Operating, TypeOK
  <2>2. ASSUME NEW c \in Calls, OperationSettles(c) PROVE Operating' = {}
    <3>1. activeOperations = 1
      BY <2>2 DEF OperationSettles, Disposes
    <3>2. activeOperations' = 0
      BY <2>2, <3>1 DEF OperationSettles
    <3>3. ActiveOperationsCount'
      BY <2>2, OperationEnds DEF OperationSettles, Return
    <3>4. IsFiniteSet(Operating')
      BY FS_Subset DEF Operating
    <3>5. QED
      BY <3>2, <3>3, <3>4, FS_EmptySet DEF ActiveOperationsCount
  <2>3. ASSUME NEW s \in Sessions, CreateSettles(s) PROVE Operating' = {}
    BY <2>3 DEF CreateSettles, CreateResolves, CreateRejects, Disposes, TypeOK
  <2>4. ASSUME NEW s \in Sessions, ShutdownContinues(s) PROVE Operating' = {}
    <3>1. activeOperations = 0
      BY <2>4 DEF ShutdownContinues, Disposes
    <3>2. QED
      BY <2>4, <3>1, NothingOperates DEF ShutdownContinues, ReturnAll, Operating
  <2>5. QED
    BY <2>1, <2>2, <2>3, <2>4 DEF Next, ByClose
<1>2. QED
  BY <1>1, Invariance, PTL DEF Spec, ShutdownSparesWork
=============================================================================
