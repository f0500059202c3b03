-------------------------------- MODULE JsPool --------------------------------
(***************************************************************************)
(* The pool of JavaScript workers of the legacy app                        *)
(* (lib/legacy/foundation/js/js_pool.dart): JSPool, which starts a fixed   *)
(* number of workers on first use, picks one for each execute() and        *)
(* replaces one when all have failed, and IsolateJsEngine, the main        *)
(* isolate's side of a worker, with its pending tasks and their timers.    *)
(*                                                                         *)
(* The main isolate runs one event at a time; what awaits something that   *)
(* has just been completed goes on before the next event (Settled).  A     *)
(* worker is an isolate of its own: messages to it and from it are queues. *)
(* It may hang in any task, or before it is ready: nothing obliges it to   *)
(* answer.  dispose() has no caller and is left out, and with it the case  *)
(* that no init script is known.                                           *)
(***************************************************************************)
EXTENDS Naturals, FiniteSets, Sequences, SequencesExt, Functions

CONSTANTS
  Callers,     \* the calls of execute()
  Size,        \* _maxInstances
  MaxWorkers,  \* bound on the workers started
  Null

\* Every call may have to start a pool, and to replace a worker.
ASSUME PoolAssumption ==
  /\ IsFiniteSet(Callers) /\ Size \in Nat \ {0} /\ MaxWorkers \in Nat
  /\ MaxWorkers >= Cardinality(Callers) * (Size + 1)
  /\ Null \notin Callers \cup Nat

Workers == 1 .. MaxWorkers   \* the n-th IsolateJsEngine constructed

VARIABLES
  instances,  \* _instances
  init,       \* _initFuture: "none", "running" or "done"
  starting,   \* the workers _init has started; it awaits the last one
  made,       \* how many workers have been constructed
  worker,     \* worker[w]: the fields of the IsolateJsEngine
  isolate,    \* isolate[w]: "none", "spawning", "booting", "loading", "serving" or "gone"
  toWorker,   \* toWorker[w]: the tasks sent to it, the one it runs first
  toMain,     \* toMain[w]: the messages it has sent
  phase,      \* phase[c]: "new", "init", "replacing", "waiting" or "done"
  on,         \* on[c]: the worker that was replaced for it, then the one it runs on
  at,         \* at[c]: the index in _instances its replacement is for
  outcome,    \* outcome[c]: how execute() ended
  \* for the properties
  overlaps,   \* how many replacements began while another one was under way
  stale       \* stale[c]: the workers that had failed when call c began

poolVars == <<instances, init, starting, made, worker, isolate, toWorker, toMain,
              phase, on, at, outcome, overlaps, stale>>

Fresh == [ready |-> "pending", closed |-> FALSE, failed |-> FALSE,
          counter |-> 0, tasks |-> <<>>]

Outcome(kind, of) == [kind |-> kind, of |-> of]

PoolInit ==
  /\ instances = <<>> /\ init = "none" /\ starting = <<>> /\ made = 0
  /\ worker = [w \in Workers |-> Fresh]
  /\ isolate = [w \in Workers |-> "none"]
  /\ toWorker = [w \in Workers |-> <<>>]
  /\ toMain = [w \in Workers |-> <<>>]
  /\ phase = [c \in Callers |-> "new"]
  /\ on = [c \in Callers |-> Null]
  /\ at = [c \in Callers |-> 0]
  /\ outcome = [c \in Callers |-> Null]
  /\ overlaps = 0
  /\ stale = [c \in Callers |-> {}]

-----------------------------------------------------------------------------
(* Helpers. *)

Put(f, key, value) == [i \in DOMAIN f \cup {key} |-> IF i = key THEN value ELSE f[i]]

Usable(w) == ~worker[w].closed /\ ~worker[w].failed

\* pendingTasks: what has timed out is no longer counted, though the worker may still
\* run it.
Pending(w) == Cardinality(DOMAIN worker[w].tasks)

\* _selectWorker: the first of the usable ones with the fewest tasks; without any, the
\* last one.
Select ==
  LET usable == {n \in DOMAIN instances : Usable(instances[n])}
      best == {n \in usable : \A m \in usable : Pending(instances[n]) <= Pending(instances[m])}
  IN  IF usable = {} THEN Len(instances)
      ELSE CHOOSE n \in best : \A m \in best : n <= m

\* The constructor: _start spawns the isolate.  Bound: MaxWorkers, never reached.
Construct ==
  /\ made < MaxWorkers
  /\ made' = made + 1
  /\ isolate' = [isolate EXCEPT ![made + 1] = "spawning"]

\* What close(force: true) and _markFailed leave: every pending call ends, its timer is
\* cancelled, the ports are closed and the isolate killed.
Closed(w, failed) ==
  [worker[w] EXCEPT !.closed = TRUE, !.failed = @ \/ failed, !.tasks = <<>>,
                    !.ready = IF failed /\ @ = "pending" THEN "error" ELSE @]

Kill(ws) ==
  /\ isolate' = [w \in Workers |-> IF w \in ws THEN "gone" ELSE isolate[w]]
  /\ toWorker' = [w \in Workers |-> IF w \in ws THEN <<>> ELSE toWorker[w]]
  /\ toMain' = [w \in Workers |-> IF w \in ws THEN <<>> ELSE toMain[w]]

\* _completeAllPending.
\* Mutant: the timers are cancelled and the tasks forgotten, but not completed.
CompleteAllPending_Forgets(w) == UNCHANGED <<phase, outcome>>

CompleteAllPending(w) ==
  LET pending == {worker[w].tasks[i] : i \in DOMAIN worker[w].tasks}
  IN  /\ phase' = [c \in Callers |-> IF c \in pending THEN "done" ELSE phase[c]]
      /\ outcome' = [c \in Callers |-> IF c \in pending THEN Outcome("workerError", w)
                                        ELSE outcome[c]]

EndCall(c, result) ==
  /\ phase' = [phase EXCEPT ![c] = "done"]
  /\ outcome' = [outcome EXCEPT ![c] = result]

\* No continuation is waiting to run.
Settled ==
  /\ ~(init = "running" /\ worker[Last(starting)].ready # "pending")
  /\ \A c \in Callers : /\ phase[c] = "init" => init = "running"
                        /\ phase[c] = "replacing" => worker[on[c]].ready = "pending"

-----------------------------------------------------------------------------
(* JSPool. *)

\* IsolateJsEngine.execute on a worker that is ready: the task gets an id, its completer
\* and its timer, and is sent, unless an argument cannot be.
\* Mutant: a task's id is the number of tasks pending.
TaskId_Pending(w) == Pending(w)
TaskId(w) == worker[w].counter

ExecuteOn(c, w) ==
  IF ~Usable(w)
  THEN EndCall(c, Outcome("workerError", w)) /\ on' = [on EXCEPT ![c] = w] /\ UNCHANGED <<worker, toWorker>>
  ELSE \/ /\ worker' = [worker EXCEPT ![w].tasks = Put(@, TaskId(w), c), ![w].counter = @ + 1]
          /\ toWorker' = [toWorker EXCEPT ![w] = Append(@, [id |-> TaskId(w), call |-> c])]
          /\ phase' = [phase EXCEPT ![c] = "waiting"]
          /\ on' = [on EXCEPT ![c] = w]
          /\ UNCHANGED outcome
       \/ /\ worker' = [worker EXCEPT ![w].counter = @ + 1]
          /\ EndCall(c, Outcome("unsendable", c))
          /\ on' = [on EXCEPT ![c] = w]
          /\ UNCHANGED toWorker

\* _replaceWorker up to its await.  The worker it replaces is closed already, as every
\* failed one is.
Replace(c) ==
  /\ Construct
  /\ phase' = [phase EXCEPT ![c] = "replacing"]
  /\ on' = [on EXCEPT ![c] = made + 1]
  /\ at' = [at EXCEPT ![c] = Select]
  /\ overlaps' = overlaps + (IF \E d \in Callers : phase[d] = "replacing" THEN 1 ELSE 0)
  /\ UNCHANGED <<worker, toWorker, outcome>>

\* execute, after init() has come back.
\* Mutant: the selected worker is used as it is.
Chosen_AsItIs(c) ==
  ExecuteOn(c, instances[Select]) /\ UNCHANGED <<made, isolate, at, overlaps>>

Chosen(c) ==
  IF Usable(instances[Select])
  THEN ExecuteOn(c, instances[Select]) /\ UNCHANGED <<made, isolate, at, overlaps>>
  ELSE Replace(c)

\* execute: the first call, and the first after a failed init(), starts the pool.
Execute(c) ==
  /\ Settled
  /\ phase[c] = "new"
  /\ stale' = [stale EXCEPT ![c] = {w \in Workers : worker[w].failed}]
  /\ \/ /\ init = "none"
        /\ Construct
        /\ init' = "running"
        /\ starting' = <<made + 1>>
        /\ phase' = [phase EXCEPT ![c] = "init"]
        /\ UNCHANGED <<worker, toWorker, on, at, outcome, overlaps>>
     \/ /\ init = "running"
        /\ phase' = [phase EXCEPT ![c] = "init"]
        /\ UNCHANGED <<init, starting, made, worker, isolate, toWorker, on, at, outcome, overlaps>>
     \/ /\ init = "done"
        /\ Chosen(c)
        /\ UNCHANGED <<init, starting>>
  /\ UNCHANGED <<instances, toMain>>

\* _init: the worker it awaits is ready.
InitContinues ==
  /\ init = "running" /\ worker[Last(starting)].ready = "ok"
  /\ IF Len(starting) < Size
     THEN /\ Construct
          /\ starting' = Append(starting, made + 1)
          /\ UNCHANGED <<init, instances>>
     ELSE /\ init' = "done" /\ instances' = starting /\ starting' = <<>>
          /\ UNCHANGED <<made, isolate>>
  /\ UNCHANGED <<worker, toWorker, toMain, phase, on, at, outcome, overlaps, stale>>

\* _init: the worker it awaits has failed: those before it are closed, and every call
\* that waits for the pool gets the error.
InitError ==
  /\ phase' = [c \in Callers |-> IF phase[c] = "init" THEN "done" ELSE phase[c]]
  /\ outcome' = [c \in Callers |-> IF phase[c] = "init" THEN Outcome("initError", Null) ELSE outcome[c]]

\* Mutant: the workers started before it are left alone.
InitFails_KeepsWorkers ==
  /\ init = "running" /\ worker[Last(starting)].ready = "error"
  /\ init' = "none" /\ starting' = <<>>
  /\ InitError
  /\ UNCHANGED <<worker, isolate, toWorker, toMain, instances, made, on, at, overlaps, stale>>

InitFails ==
  /\ init = "running" /\ worker[Last(starting)].ready = "error"
  /\ init' = "none" /\ starting' = <<>>
  /\ LET started == ToSet(Front(starting))
     IN  /\ worker' = [w \in Workers |-> IF w \in started THEN Closed(w, FALSE) ELSE worker[w]]
         /\ Kill(started)
  /\ InitError
  /\ UNCHANGED <<instances, made, on, at, overlaps, stale>>

\* A call that waited for init().
Resume(c) ==
  /\ phase[c] = "init" /\ init = "done"
  /\ Chosen(c)
  /\ UNCHANGED <<instances, init, starting, toMain, stale>>

\* _replaceWorker goes on: the new worker takes the place of the old one, or of the one
\* another replacement has put there.
Replaced(c) ==
  /\ phase[c] = "replacing"
  /\ \/ /\ worker[on[c]].ready = "ok"
        /\ instances' = [instances EXCEPT ![at[c]] = on[c]]
        /\ ExecuteOn(c, on[c])
     \/ /\ worker[on[c]].ready = "error"
        /\ EndCall(c, Outcome("workerError", on[c]))
        /\ UNCHANGED <<instances, worker, toWorker, on>>
  /\ UNCHANGED <<init, starting, made, isolate, toMain, at, overlaps, stale>>

-----------------------------------------------------------------------------
(* IsolateJsEngine: the main isolate's side of a worker. *)

\* _markFailed.
MarkFailed(w) ==
  /\ worker' = [worker EXCEPT ![w] = Closed(w, TRUE)]
  /\ Kill({w})
  /\ CompleteAllPending(w)

\* Isolate.spawn returns, or throws.
Spawned(w) ==
  /\ Settled
  /\ isolate[w] = "spawning"
  /\ \/ /\ isolate' = [isolate EXCEPT ![w] = "booting"]
        /\ UNCHANGED <<worker, toWorker, toMain, phase, outcome>>
     \/ MarkFailed(w)
  /\ UNCHANGED <<instances, init, starting, made, on, at, overlaps, stale>>

\* The delay for the worker to become ready is over.
ReadyTimeout(w) ==
  /\ Settled
  /\ isolate[w] \in {"booting", "loading", "serving"} /\ worker[w].ready = "pending"
  /\ MarkFailed(w)
  /\ UNCHANGED <<instances, init, starting, made, on, at, overlaps, stale>>

\* _onMessage.
OnReady(w) ==
  /\ worker' = [worker EXCEPT ![w].ready = "ok"]
  /\ toMain' = [toMain EXCEPT ![w] = Tail(@)]
  /\ UNCHANGED <<isolate, toWorker, phase, outcome>>

\* The result of a task that has timed out finds no completer.
OnResult(w, id, of) ==
  /\ IF id \in DOMAIN worker[w].tasks
     THEN /\ EndCall(worker[w].tasks[id], Outcome("result", of))
          /\ worker' = [worker EXCEPT ![w].tasks = Restrict(@, DOMAIN @ \ {id})]
     ELSE UNCHANGED <<worker, phase, outcome>>
  /\ toMain' = [toMain EXCEPT ![w] = Tail(@)]
  /\ UNCHANGED <<isolate, toWorker>>

OnMessage(w) ==
  /\ Settled
  /\ toMain[w] # <<>>
  /\ LET m == Head(toMain[w])
     IN  \/ m.type = "ready" /\ OnReady(w)
         \/ m.type = "failure" /\ MarkFailed(w)
         \/ m.type = "result" /\ OnResult(w, m.id, m.call)
  /\ UNCHANGED <<instances, init, starting, made, on, at, overlaps, stale>>

\* The timer of a pending task.
TaskTimeout(c) ==
  /\ Settled
  /\ phase[c] = "waiting"
  /\ \E id \in DOMAIN worker[on[c]].tasks :
        /\ worker[on[c]].tasks[id] = c
        /\ worker' = [worker EXCEPT ![on[c]].tasks = Restrict(@, DOMAIN @ \ {id})]
  /\ EndCall(c, Outcome("timeout", c))
  /\ UNCHANGED <<instances, init, starting, made, isolate, toWorker, toMain, on, at, overlaps, stale>>

-----------------------------------------------------------------------------
(* The worker's isolate (_run): it says that it is ready, then loads the init script, *)
(* then takes one task after the other.                                               *)

Send(w, m) == toMain' = [toMain EXCEPT ![w] = Append(@, m)]

Boot(w) ==
  /\ isolate[w] = "booting"
  /\ isolate' = [isolate EXCEPT ![w] = "loading"]
  /\ Send(w, [type |-> "ready", id |-> Null, call |-> Null])
  /\ UNCHANGED toWorker

Load(w) ==
  /\ isolate[w] = "loading"
  /\ \/ isolate' = [isolate EXCEPT ![w] = "serving"] /\ UNCHANGED <<toMain, toWorker>>
     \/ /\ isolate' = [isolate EXCEPT ![w] = "gone"]
        /\ toWorker' = [toWorker EXCEPT ![w] = <<>>]
        /\ Send(w, [type |-> "failure", id |-> Null, call |-> Null])

Compute(w) ==
  /\ isolate[w] = "serving" /\ toWorker[w] # <<>>
  /\ toWorker' = [toWorker EXCEPT ![w] = Tail(@)]
  /\ Send(w, [type |-> "result", id |-> Head(toWorker[w]).id, call |-> Head(toWorker[w]).call])
  /\ UNCHANGED isolate

Run(w) ==
  /\ Boot(w) \/ Load(w) \/ Compute(w)
  /\ UNCHANGED <<instances, init, starting, made, worker, phase, on, at, outcome, overlaps, stale>>

-----------------------------------------------------------------------------
Continue(c) == Resume(c) \/ Replaced(c) \/ TaskTimeout(c)
Initialise == InitContinues \/ InitFails
Watch(w) == Spawned(w) \/ ReadyTimeout(w) \/ OnMessage(w)

PoolNext ==
  \/ \E c \in Callers : Execute(c) \/ Continue(c)
  \/ Initialise
  \/ \E w \in Workers : Watch(w) \/ Run(w)

PoolSpec == PoolInit /\ [][PoolNext]_poolVars

\* The main isolate's event loop: continuations run, timers fire, spawning settles, and
\* messages are delivered.  A worker is not obliged to do anything.
PoolFairness ==
  /\ WF_poolVars(Initialise)
  /\ \A c \in Callers : WF_poolVars(Continue(c))
  /\ \A w \in Workers : WF_poolVars(Watch(w))

FairPoolSpec == PoolSpec /\ PoolFairness

-----------------------------------------------------------------------------
(* Properties. *)

\* A call ends with the result of its own function, never with a late one of a task
\* that has timed out on the same worker, or with an error; and the failure of a worker
\* ends the calls it has, never one that begins later: that one gets a usable worker or
\* a new one.
OwnAnswer ==
  \A c \in Callers : outcome[c] # Null =>
     /\ outcome[c].kind = "result" => outcome[c].of = c
     /\ outcome[c].kind = "workerError" => outcome[c].of \notin stale[c]

\* A worker nobody can reach any more, neither through the pool nor by the code that
\* has just started it, yet its isolate runs: only replacements that overlap leave one.
Lost ==
  {w \in Workers :
     /\ isolate[w] \in {"spawning", "booting", "loading", "serving"}
     /\ w \notin ToSet(instances) \cup ToSet(starting)
     /\ ~\E c \in Callers : phase[c] = "replacing" /\ on[c] = w}

LostByOverlap == Cardinality(Lost) <= overlaps

\* Every call ends, whatever the workers do.
CallsEnd == \A c \in Callers : phase[c] # "new" ~> phase[c] = "done"
=============================================================================
