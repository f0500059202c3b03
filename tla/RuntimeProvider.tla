--------------------------- MODULE RuntimeProvider ---------------------------
(***************************************************************************)
(* The runtime provider of the demo web server                             *)
(* (apps/web/src/provider/runtime-provider.ts): a closure over five `let`  *)
(* variables that opens a core runtime on demand, hands it to operations,  *)
(* and closes it again.  Its functions are asynchronous: between two       *)
(* awaits a function runs alone, at an await anything else may run.        *)
(*                                                                         *)
(* One action is one stretch of code between two awaits.  The creation of  *)
(* a runtime (the RuntimeFactory) and the operations run against it are    *)
(* external: they settle at any moment, with either result.                *)
(***************************************************************************)
EXTENDS Naturals, FiniteSets

CONSTANTS
  Calls,        \* call slots: each runs one provider function at a time
  MaxSessions,  \* bound on the number of createRuntime() calls
  None,         \* JavaScript's null
  Resolved      \* a promise that was already resolved when it was stored

Sessions == 1 .. MaxSessions    \* the n-th createRuntime() call and what it yields

ASSUME ProviderAssumption ==
  /\ IsFiniteSet(Calls)
  /\ MaxSessions \in Nat
  /\ None \notin Sessions /\ Resolved \notin Sessions /\ None # Resolved

VARIABLES
  \* the closure's variables
  openPromise,       \* the createRuntime() call whose promise is stored, or None
  shutdownPromise,   \* None, Resolved, or the attempt the shutdown is chained on
  runtime,           \* the published session, or None
  activeOperations,
  state,             \* "closed", "open" or "shutting_down"
  \* promises and sessions outside the closure
  attempt,           \* attempt[s]: how far the promise of attempt s has got
  session,           \* session[s]: whether the runtime attempt s made is open
  chain,             \* chain[s]: the shutdown callback chained on attempt s
  \* the calls in progress
  pc,                \* pc[c]: where call c is suspended
  on,                \* on[c]: the attempt it awaits, or the session it works on
  reply              \* reply[c]: what the last call of slot c came back with

closure == <<openPromise, shutdownPromise, runtime, activeOperations, state>>
outside == <<attempt, session, chain>>
calls   == <<pc, on, reply>>
vars    == <<closure, outside, calls>>

States   == {"closed", "open", "shutting_down"}
Attempts == {"unused", "pending", "fulfilling", "rejecting", "settled"}
Phases   == {"idle", "opening", "openingBehindClose", "closing", "shutdown",
             "operating"}
Replies  == States \cup {"none", "void", "value", "RUNTIME_SHUTTING_DOWN",
                         "RUNTIME_NOT_OPEN", "RUNTIME_UNAVAILABLE"}

Init ==
  /\ openPromise = None
  /\ shutdownPromise = None
  /\ runtime = None
  /\ activeOperations = 0
  /\ state = "closed"
  /\ attempt = [s \in Sessions |-> "unused"]
  /\ session = [s \in Sessions |-> "none"]
  /\ chain = [s \in Sessions |-> "none"]
  /\ pc = [c \in Calls |-> "idle"]
  /\ on = [c \in Calls |-> None]
  /\ reply = [c \in Calls |-> "none"]

-----------------------------------------------------------------------------
(* How a call moves. *)

Return(c, r) ==
  /\ pc' = [pc EXCEPT ![c] = "idle"]
  /\ on' = [on EXCEPT ![c] = None]
  /\ reply' = [reply EXCEPT ![c] = r]

Suspend(c, phase, s) ==
  /\ pc' = [pc EXCEPT ![c] = phase]
  /\ on' = [on EXCEPT ![c] = s]
  /\ reply' = [reply EXCEPT ![c] = "none"]

\* Every call in cs comes back, with the reply r[c].
ReturnAll(cs, r) ==
  /\ pc' = [c \in Calls |-> IF c \in cs THEN "idle" ELSE pc[c]]
  /\ on' = [c \in Calls |-> IF c \in cs THEN None ELSE on[c]]
  /\ reply' = [c \in Calls |-> IF c \in cs THEN r[c] ELSE reply[c]]

Awaiting(s) ==
  {c \in Calls : on[c] = s /\ pc[c] \in {"opening", "openingBehindClose", "closing"}}

\* `if (runtime !== null) runtime.close()`, on the published session.
SessionsAfterClose ==
  [s \in Sessions |-> IF s = runtime THEN "closed" ELSE session[s]]

(* finalizeShutdown: runs to its end without an await. *)
FinalizeShutdown ==
  /\ session' = SessionsAfterClose
  /\ runtime' = None
  /\ openPromise' = None
  /\ state' = "closed"

-----------------------------------------------------------------------------
(* open() *)

\* The attempt a new createRuntime() call gets: the first unused number.
FirstUnused(s) ==
  /\ attempt[s] = "unused"
  /\ \A t \in Sessions : t < s => attempt[t] # "unused"

OpenRejected(c) ==
  /\ pc[c] = "idle"
  /\ state = "shutting_down"
  /\ Return(c, "RUNTIME_SHUTTING_DOWN")
  /\ UNCHANGED <<closure, outside>>

OpenAlreadyOpen(c) ==
  /\ pc[c] = "idle"
  /\ state # "shutting_down"
  /\ runtime # None
  /\ state' = "open"
  /\ Return(c, "open")
  /\ UNCHANGED <<openPromise, shutdownPromise, runtime, activeOperations, outside>>

\* Awaits the stored promise.  Reactions run in the order they were registered,
\* so an open() registered after a close() resumes after it.
OpenJoins(c) ==
  /\ pc[c] = "idle"
  /\ state # "shutting_down"
  /\ runtime = None
  /\ openPromise # None
  /\ Suspend(c, IF \E d \in Awaiting(openPromise) : pc[d] = "closing"
                THEN "openingBehindClose" ELSE "opening", openPromise)
  /\ UNCHANGED <<closure, outside>>

OpenCreates(c) ==
  /\ pc[c] = "idle"
  /\ state # "shutting_down"
  /\ runtime = None
  /\ openPromise = None
  /\ \E s \in Sessions :
        /\ FirstUnused(s)
        /\ attempt' = [attempt EXCEPT ![s] = "pending"]
        /\ openPromise' = s
        /\ Suspend(c, "opening", s)
  /\ state' = "closed"
  /\ UNCHANGED <<shutdownPromise, runtime, activeOperations, session, chain>>

(* close() *)

CloseRejected(c) ==
  /\ pc[c] = "idle"
  /\ state = "shutting_down"
  /\ Return(c, "RUNTIME_SHUTTING_DOWN")
  /\ UNCHANGED <<closure, outside>>

CloseJoins(c) ==
  /\ pc[c] = "idle"
  /\ state # "shutting_down"
  /\ openPromise # None
  /\ runtime = None
  /\ Suspend(c, "closing", openPromise)
  /\ UNCHANGED <<closure, outside>>

\* Mutant: close() forgets `runtime = null`.
CloseNow_KeepsRuntime(c) ==
  /\ pc[c] = "idle"
  /\ state # "shutting_down"
  /\ ~(openPromise # None /\ runtime = None)
  /\ session' = SessionsAfterClose
  /\ openPromise' = None
  /\ state' = "closed"
  /\ Return(c, "closed")
  /\ UNCHANGED <<runtime, shutdownPromise, activeOperations, attempt, chain>>

CloseNow(c) ==
  /\ pc[c] = "idle"
  /\ state # "shutting_down"
  /\ ~(openPromise # None /\ runtime = None)
  /\ session' = SessionsAfterClose
  /\ runtime' = None
  /\ openPromise' = None
  /\ state' = "closed"
  /\ Return(c, "closed")
  /\ UNCHANGED <<shutdownPromise, activeOperations, attempt, chain>>

(* shutdown() *)

\* A shutdown promise is stored: return that one.
ShutdownJoins(c) ==
  /\ pc[c] = "idle"
  /\ shutdownPromise # None
  /\ IF shutdownPromise = Resolved \/ chain[shutdownPromise] = "done"
       THEN Return(c, "void")
       ELSE Suspend(c, "shutdown", shutdownPromise)
  /\ UNCHANGED <<closure, outside>>

\* A runtime is being created: chain a callback on its promise.
ShutdownDefers(c) ==
  /\ pc[c] = "idle"
  /\ shutdownPromise = None
  /\ openPromise # None
  /\ runtime = None
  /\ state' = "shutting_down"
  /\ shutdownPromise' = openPromise
  /\ chain' = [chain EXCEPT ![openPromise] = "registered"]
  /\ Suspend(c, "shutdown", openPromise)
  /\ UNCHANGED <<openPromise, runtime, activeOperations, attempt, session>>

ShutdownNothingOpen(c) ==
  /\ pc[c] = "idle"
  /\ shutdownPromise = None
  /\ openPromise = None
  /\ runtime = None
  /\ state' = "closed"
  /\ Return(c, "void")
  /\ UNCHANGED <<openPromise, shutdownPromise, runtime, activeOperations, outside>>

\* A runtime is open.  The inner function finalizes at once when nothing runs and
\* does nothing when something does; either way its promise is already resolved
\* when it is stored, over the null that finalizeShutdown stored.
ShutdownNow(c) ==
  /\ pc[c] = "idle"
  /\ shutdownPromise = None
  /\ runtime # None
  /\ shutdownPromise' = Resolved
  /\ IF activeOperations = 0
       THEN FinalizeShutdown
       ELSE /\ state' = "shutting_down"
            /\ UNCHANGED <<openPromise, runtime, session>>
  /\ Return(c, "void")
  /\ UNCHANGED <<activeOperations, attempt, chain>>

(* withRuntime() *)

WithRuntimeRejected(c) ==
  /\ pc[c] = "idle"
  /\ \/ state = "shutting_down" /\ Return(c, "RUNTIME_SHUTTING_DOWN")
     \/ state # "shutting_down" /\ runtime = None /\ Return(c, "RUNTIME_NOT_OPEN")
  /\ UNCHANGED <<closure, outside>>

\* Mutant: the operation is not counted.
WithRuntimeStarts_Uncounted(c) ==
  /\ pc[c] = "idle"
  /\ state # "shutting_down"
  /\ runtime # None
  /\ Suspend(c, "operating", runtime)
  /\ UNCHANGED <<closure, outside>>

WithRuntimeStarts(c) ==
  /\ pc[c] = "idle"
  /\ state # "shutting_down"
  /\ runtime # None
  /\ activeOperations' = activeOperations + 1
  /\ Suspend(c, "operating", runtime)
  /\ UNCHANGED <<openPromise, shutdownPromise, runtime, state, outside>>

\* Mutant: the finally block does not look at the other operations.
OperationSettles_IgnoresOthers(c) ==
  /\ pc[c] = "operating"
  /\ activeOperations' = activeOperations - 1
  /\ IF state = "shutting_down"
       THEN FinalizeShutdown /\ shutdownPromise' = None
       ELSE UNCHANGED <<openPromise, shutdownPromise, runtime, state, session>>
  /\ Return(c, "value")
  /\ UNCHANGED <<attempt, chain>>

\* Mutant: the finally block only counts down.
OperationSettles_NeverFinalizes(c) ==
  /\ pc[c] = "operating"
  /\ activeOperations' = activeOperations - 1
  /\ Return(c, "value")
  /\ UNCHANGED <<openPromise, shutdownPromise, runtime, state, outside>>

\* The operation settles, either way, and the finally block runs.
OperationSettles(c) ==
  /\ pc[c] = "operating"
  /\ activeOperations' = activeOperations - 1
  /\ IF state = "shutting_down" /\ activeOperations = 1
       THEN FinalizeShutdown /\ shutdownPromise' = None
       ELSE UNCHANGED <<openPromise, shutdownPromise, runtime, state, session>>
  /\ Return(c, "value")
  /\ UNCHANGED <<attempt, chain>>

-----------------------------------------------------------------------------
(* Promise reactions. *)

\* createRuntime() fulfilled: the .then callback.
CreateResolves(s) ==
  /\ attempt[s] = "pending"
  /\ attempt' = [attempt EXCEPT ![s] = "fulfilling"]
  /\ session' = [session EXCEPT ![s] = "live"]
  /\ runtime' = s
  /\ state' = "open"
  /\ UNCHANGED <<openPromise, shutdownPromise, activeOperations, chain, calls>>

\* createRuntime() rejected: the .catch callback, which rethrows.
CreateRejects(s) ==
  /\ attempt[s] = "pending"
  /\ attempt' = [attempt EXCEPT ![s] = "rejecting"]
  /\ runtime' = None
  /\ state' = "closed"
  /\ openPromise' = None
  /\ UNCHANGED <<shutdownPromise, activeOperations, session, chain, calls>>

\* Calls suspended on the promise resume back to back, in registration order:
\* the reactions of one promise are queued together.  Every close() does the
\* same to the closure, so the first of them decides what the others find.
Resumed(s) ==
  IF attempt[s] = "rejecting"
  THEN [c \in Calls |-> "RUNTIME_UNAVAILABLE"]
  ELSE [c \in Calls |-> IF pc[c] = "opening" THEN state ELSE "closed"]

\* Mutant: shutdown() chains its callback without the .catch, and a failed
\* creation never reaches it.
OpenPromiseSettles_ChainNeedsSuccess(s) ==
  /\ attempt[s] \in {"fulfilling", "rejecting"}
  /\ attempt' = [attempt EXCEPT ![s] = "settled"]
  /\ chain' = [chain EXCEPT ![s] =
        IF @ = "registered" /\ attempt[s] = "fulfilling" THEN "queued" ELSE @]
  /\ IF attempt[s] = "fulfilling" /\ \E c \in Awaiting(s) : pc[c] = "closing"
       THEN FinalizeShutdown
       ELSE UNCHANGED <<session, runtime, openPromise, state>>
  /\ ReturnAll(Awaiting(s), Resumed(s))
  /\ UNCHANGED <<shutdownPromise, activeOperations>>

OpenPromiseSettles(s) ==
  /\ attempt[s] \in {"fulfilling", "rejecting"}
  /\ attempt' = [attempt EXCEPT ![s] = "settled"]
  /\ chain' = [chain EXCEPT ![s] = IF @ = "registered" THEN "queued" ELSE @]
  /\ IF attempt[s] = "fulfilling" /\ \E c \in Awaiting(s) : pc[c] = "closing"
       THEN /\ session' = SessionsAfterClose
            /\ runtime' = None
            /\ openPromise' = None
            /\ state' = "closed"
       ELSE UNCHANGED <<session, runtime, openPromise, state>>
  /\ ReturnAll(Awaiting(s), Resumed(s))
  /\ UNCHANGED <<shutdownPromise, activeOperations>>

\* The callback shutdown() chained on the promise, one tick behind the calls.
ShutdownContinues(s) ==
  /\ chain[s] = "queued"
  /\ chain' = [chain EXCEPT ![s] = "done"]
  /\ IF activeOperations = 0
       THEN FinalizeShutdown /\ shutdownPromise' = None
       ELSE UNCHANGED <<openPromise, shutdownPromise, runtime, state, session>>
  /\ ReturnAll({c \in Calls : pc[c] = "shutdown" /\ on[c] = s}, [c \in Calls |-> "void"])
  /\ UNCHANGED <<activeOperations, attempt>>

-----------------------------------------------------------------------------
Call(c) ==
  \/ OpenRejected(c) \/ OpenAlreadyOpen(c) \/ OpenJoins(c) \/ OpenCreates(c)
  \/ CloseRejected(c) \/ CloseJoins(c) \/ CloseNow(c)
  \/ ShutdownJoins(c) \/ ShutdownDefers(c) \/ ShutdownNothingOpen(c) \/ ShutdownNow(c)
  \/ WithRuntimeRejected(c) \/ WithRuntimeStarts(c)

CreateSettles(s) == CreateResolves(s) \/ CreateRejects(s)

Next ==
  \/ \E c \in Calls : Call(c) \/ OperationSettles(c)
  \/ \E s \in Sessions : CreateSettles(s) \/ OpenPromiseSettles(s) \/ ShutdownContinues(s)

Spec == Init /\ [][Next]_vars

\* What was started ends: factories and operations settle, and the event loop
\* runs every queued reaction.  Nobody is obliged to call anything.
Fairness ==
  /\ \A c \in Calls : WF_vars(OperationSettles(c))
  /\ \A s \in Sessions : /\ WF_vars(CreateSettles(s))
                         /\ WF_vars(OpenPromiseSettles(s))
                         /\ WF_vars(ShutdownContinues(s))

FairSpec == Spec /\ Fairness

-----------------------------------------------------------------------------
(* Properties. *)

\* Every variable has its type.
TypeOK ==
  /\ openPromise \in Sessions \cup {None}
  /\ shutdownPromise \in Sessions \cup {None, Resolved}
  /\ runtime \in Sessions \cup {None}
  /\ activeOperations \in Nat
  /\ state \in States
  /\ attempt \in [Sessions -> Attempts]
  /\ session \in [Sessions -> {"none", "live", "closed"}]
  /\ chain \in [Sessions -> {"none", "registered", "queued", "done"}]
  /\ pc \in [Calls -> Phases]
  /\ on \in [Calls -> Sessions \cup {None}]
  /\ reply \in [Calls -> Replies]

\* The session withRuntime() would hand to an operation is never one that close(),
\* shutdown() or a failed creation has already disposed of.
PublishedIsLive == runtime # None => session[runtime] = "live"

\* Whoever awaits the stored promise awaits one that still has to settle: the guard
\* `openPromise !== null && runtime === null` never meets a stale promise, whose
\* creation already ended and whose runtime is gone.
AwaitedIsUnsettled ==
  /\ openPromise # None /\ runtime = None => attempt[openPromise] = "pending"
  /\ \A c \in Calls : pc[c] \in {"opening", "openingBehindClose", "closing"}
        => attempt[on[c]] \in {"pending", "fulfilling", "rejecting"}

\* While the provider answers RUNTIME_SHUTTING_DOWN something is still outstanding
\* that will end that state: an operation whose finally block finalizes, or a
\* creation whose reactions set the state.
ShuttingDownIsOwed ==
  state = "shutting_down" =>
    \/ activeOperations > 0
    \/ \E s \in Sessions : attempt[s] = "pending" /\ chain[s] = "registered"

\* Only an explicit close() (or one that waited for the creation) closes a runtime
\* that an operation may be using; shutdown, on each of its three paths, never does.
Disposes(s) == session[s] = "live" /\ session'[s] = "closed"
ByClose == \/ \E c \in Calls : CloseNow(c)
           \/ \E s \in Sessions : OpenPromiseSettles(s)
ShutdownSparesWork ==
  [][(\E s \in Sessions : Disposes(s)) /\ ~ByClose
       => \A c \in Calls : pc'[c] # "operating"]_vars

\* The provider does not answer RUNTIME_SHUTTING_DOWN for ever.
ShutdownEnds == state = "shutting_down" ~> state # "shutting_down"

\* Every call comes back: none waits on a promise nobody settles.
CallsReturn == \A c \in Calls : pc[c] # "idle" ~> pc[c] = "idle"

\* Claimed by the last lines of tests/server/runtime-provider.test.ts: when shutdown()
\* has come back and no operation runs, the provider is closed.
ShutdownReturns(c) == reply[c] # "void" /\ reply'[c] = "void"
ShutdownLeavesClosed ==
  [][\A c \in Calls : ShutdownReturns(c) /\ (\A d \in Calls : pc[d] # "operating")
       => state' = "closed"]_vars
=============================================================================
