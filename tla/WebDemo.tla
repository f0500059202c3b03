------------------------------- MODULE WebDemo -------------------------------
(***************************************************************************)
(* The demo application end to end: a browser tab with the shell           *)
(* (apps/web/src/ui/runtime-shell.tsx), the API client, the routes and the *)
(* adapter, the runtime provider (module RuntimeProvider), the use case    *)
(* CreateCanonicalComic over the in-memory database of the session it runs *)
(* in, and the process that is told to stop (main-server.ts).              *)
(*                                                                         *)
(* A request lives in a slot: sent, then served by one provider call, then *)
(* answered.  When the connection breaks the shell reports an error and    *)
(* forgets the slot; the server may go on with it.  A database is a        *)
(* session of the provider: it starts empty and is gone when the session   *)
(* is closed.  The use case is one step here, as its transaction makes it  *)
(* (module CanonicalComics has the statements).                            *)
(***************************************************************************)
EXTENDS ComicPayloads

CONSTANTS
  Slots,        \* requests under way at the same time: the numbers from 1
  Signals,      \* SIGINT and SIGTERM, each handled once
  MaxSessions,  \* bound on the runtimes the provider creates
  Resolved,     \* see RuntimeProvider
  Forms,        \* what the fields of the form may hold when it is sent
  MaxComics,    \* bound on the comics created
  ComicId, TitleId,  \* the n-th ids the core's generator yields
  Now           \* Now[n]: the clock when n - 1 comics have been created

FormTexts == [title : Texts, description : Texts, authorName : Texts, idempotencyKey : Texts]

ASSUME DemoAssumption ==
  /\ Slots \subseteq Nat /\ IsFiniteSet(Slots \cup Signals) /\ Slots \cap Signals = {}
  /\ MaxSessions \in Nat /\ MaxComics \in Nat
  /\ None # Resolved /\ {None, Resolved} \cap (1 .. MaxSessions) = {}
  /\ Forms \subseteq FormTexts
  /\ ComicId \in [1 .. MaxComics -> Uuids] /\ TitleId \in [1 .. MaxComics -> Uuids]
  /\ Now \in [1 .. MaxComics -> Instants]

VARIABLES
  \* the provider: its closure, its promises, and the calls made on it
  openPromise, shutdownPromise, runtime, activeOperations, state,
  attempt, session, chain,
  pc, on, reply,
  \* the databases
  ledger,   \* ledger[s]: the completed idempotency rows
  comics,   \* comics[s]: the comics stored, each with the request that made it
  created,  \* how many comics have been created
  \* the browser
  busy,     \* isBusy of the shell; what its panels display no handler reads, and what
            \* its fields hold is chosen when the form is sent
  job,      \* job[c]: the request in slot c
  \* the process
  server,   \* "listening", "closing" (server.close was called) or "down"
  stop,     \* stop[g]: how far the handler of signal g has got
  \* for the properties
  told      \* told[s][k]: the comics read in answers from session s for key k

providerVars == <<openPromise, shutdownPromise, runtime, activeOperations, state,
                  attempt, session, chain, pc, on, reply>>
storeVars == <<ledger, comics, created>>
vars == <<providerVars, storeVars, busy, job, server, stop, told>>

Provider == INSTANCE RuntimeProvider WITH Calls <- Slots \cup Signals
Sessions == 1 .. MaxSessions

Keys == {Trim[f.idempotencyKey] : f \in Forms} \ {Empty}

\* The requests of the shell; the first refresh runs outside the busy state, the one
\* after a creation within it.
Kinds == {"none", "mount", "health", "open", "close", "create", "createdHealth"}

\* The stages of a request: "sent", then "serving" by a provider call (whose reply is
\* the answer), "settled" with a result of the use case, or "answered" by the route.
NoJob == [kind |-> "none", body |-> None, stage |-> "free", awaited |-> FALSE,
          result |-> None, session |-> None]
Sent(kind, b) == [NoJob EXCEPT !.kind = kind, !.body = b, !.stage = "sent", !.awaited = TRUE]

\* The server listens and the page has just been opened: it refreshes.
Init ==
  /\ Provider!Init
  /\ ledger = [s \in Sessions |-> {}]
  /\ comics = [s \in Sessions |-> {}]
  /\ created = 0
  /\ busy = FALSE
  /\ job = [c \in Slots |-> IF c = 1 THEN Sent("mount", None) ELSE NoJob]
  /\ server = "listening"
  /\ stop = [g \in Signals |-> "armed"]
  /\ told = [s \in Sessions |-> [k \in Keys |-> {}]]

-----------------------------------------------------------------------------
(* The shell.  A button starts one request and disables the buttons.  Bound: nobody *)
(* clicks any more once the server is closing.                                      *)

Submit(c, kind, b) ==
  /\ ~busy
  /\ server = "listening"
  /\ job[c].stage = "free" /\ \A d \in Slots : d < c => job[d].stage # "free"
  /\ busy' = TRUE
  /\ job' = [job EXCEPT ![c] = Sent(kind, b)]
  /\ UNCHANGED <<providerVars, storeVars, server, stop, told>>

ClickRefresh(c) == Submit(c, "health", None)

\* Bound: no more requests to open than runtimes left to create.
ClickOpen(c) ==
  /\ Cardinality({d \in Slots : job[d].kind = "open" /\ job[d].stage = "sent"})
       < Cardinality({s \in Sessions : attempt[s] = "unused"})
  /\ Submit(c, "open", None)

ClickClose(c) == Submit(c, "close", None)

\* The form's handler: empty optional fields are left out.
FormBody(f) ==
  [title |-> f.title,
   description |-> IF f.description = Empty THEN None ELSE f.description,
   authorName |-> IF f.authorName = Empty THEN None ELSE f.authorName,
   originHint |-> None,
   idempotencyKey |-> f.idempotencyKey]

\* Bound: no more creations than ids.
ClickCreate(c) ==
  /\ created + Cardinality({d \in Slots : job[d].kind = "create"}) < MaxComics
  /\ \E f \in Forms : Submit(c, "create", FormBody(f))

-----------------------------------------------------------------------------
(* The server: routes, adapter, provider. *)

\* The event loop takes up something new: the process is alive, and no shutdown()
\* has just come back (what follows it runs first).
EventLoop == server # "down" /\ \A g \in Signals : stop[g] = "shutdown" => pc[g] # "idle"

Serving(c) == job' = [job EXCEPT ![c].stage = "serving"]

AnsweredWith(c, response) ==
  job' = [job EXCEPT ![c].stage = "answered", ![c].result = response]

\* GET /api/runtime/health: the summary as it is now.
ArriveHealth(c) ==
  /\ job[c].kind \in {"mount", "health", "createdHealth"}
  /\ AnsweredWith(c, Success(state))
  /\ UNCHANGED providerVars

ArriveOpen(c) ==
  /\ job[c].kind = "open"
  /\ Serving(c)
  /\ \/ Provider!OpenRejected(c) \/ Provider!OpenAlreadyOpen(c)
     \/ Provider!OpenJoins(c) \/ Provider!OpenCreates(c)

ArriveClose(c) ==
  /\ job[c].kind = "close"
  /\ Serving(c)
  /\ Provider!CloseRejected(c) \/ Provider!CloseJoins(c) \/ Provider!CloseNow(c)

\* POST /api/comics: the default hook answers an invalid body itself.
ArriveCreate(c) ==
  /\ job[c].kind = "create"
  /\ \/ /\ ~RequestValid(job[c].body)
        /\ AnsweredWith(c, Failure("VALIDATION_FAILED"))
        /\ UNCHANGED providerVars
     \/ /\ RequestValid(job[c].body)
        /\ job' = [job EXCEPT ![c].stage = "serving", ![c].body = Received(@)]
        /\ Provider!WithRuntimeRejected(c) \/ Provider!WithRuntimeStarts(c)

Arrive(c) ==
  /\ EventLoop /\ server = "listening"
  /\ job[c].stage = "sent"
  /\ ArriveHealth(c) \/ ArriveOpen(c) \/ ArriveClose(c) \/ ArriveCreate(c)
  /\ UNCHANGED <<storeVars, busy, server, stop, told>>

-----------------------------------------------------------------------------
(* The use case, in one transaction on the database of its session.  Its own parsers *)
(* take every input the route has let through.                                       *)

\* The promise of the use case settles, and before anything else runs the provider's
\* finally block does.
Finish(c, result) ==
  /\ job' = [job EXCEPT ![c].stage = "settled", ![c].result = result, ![c].session = on[c]]
  /\ Provider!OperationSettles(c)

RowsOf(s, k) == {row \in ledger[s] : row.key = k}

\* A new key: the comic and the completed row are committed together.
CreateNew(c) ==
  LET s == on[c]
      i == job[c].body
      n == created + 1
      comic == Created(i, ComicId[n], TitleId[n], Now[n])
  IN  /\ n <= MaxComics
      /\ session[s] = "live" /\ RowsOf(s, i.idempotencyKey) = {}
      /\ ledger' = [ledger EXCEPT ![s] = @ \cup
           {[key |-> i.idempotencyKey, hash |-> CanonicalInput(i), payload |-> Json(comic)]}]
      /\ comics' = [comics EXCEPT ![s] = @ \cup {[input |-> i, comic |-> comic]}]
      /\ created' = n
      /\ Finish(c, Ok(comic))

\* Mutant: the row is replayed whatever the input.
Reuse_AnyInput(c) ==
  /\ session[on[c]] = "live"
  /\ \E row \in RowsOf(on[c], job[c].body.idempotencyKey) : Finish(c, Parse(row.payload))
  /\ UNCHANGED storeVars

\* A key that is known: replay the row, or refuse.
Reuse(c) ==
  /\ session[on[c]] = "live"
  /\ \E row \in RowsOf(on[c], job[c].body.idempotencyKey) :
        Finish(c, IF row.hash = CanonicalInput(job[c].body) THEN Parse(row.payload)
                  ELSE Err("IDEMPOTENCY_CONFLICT"))
  /\ UNCHANGED storeVars

\* The session was closed under the call, or a statement fails: nothing is kept.
TransactionFails(c) ==
  /\ Finish(c, Err("INTERNAL_ERROR"))
  /\ UNCHANGED storeVars

Transaction(c) ==
  /\ EventLoop
  /\ pc[c] = "operating"
  /\ CreateNew(c) \/ Reuse(c) \/ TransactionFails(c)
  /\ UNCHANGED <<busy, server, stop, told>>

\* createRuntime() settles, and the reactions on its promise run.
ProviderReacts(s) ==
  /\ server # "down"
  /\ \/ EventLoop /\ Provider!CreateSettles(s)
     \/ Provider!OpenPromiseSettles(s)
     \/ Provider!ShutdownContinues(s)
  /\ UNCHANGED <<storeVars, busy, job, server, stop, told>>

-----------------------------------------------------------------------------
(* The answer, on its way back. *)

Answered(c) ==
  /\ server # "down"
  /\ job[c].stage \in {"serving", "settled", "answered"} /\ pc[c] = "idle"

\* What the route or the error handler sends.
Answer(c) ==
  IF job[c].stage = "answered" THEN job[c].result
  ELSE IF job[c].stage = "settled" THEN CreateAnswer(job[c].result)
  ELSE IF reply[c] \in Provider!States THEN Success(reply[c])
  ELSE Failure(reply[c])

\* The provider's reply has been used.
Consumed(c) ==
  /\ reply' = [reply EXCEPT ![c] = "none"]
  /\ UNCHANGED <<openPromise, shutdownPromise, runtime, activeOperations, state,
                 attempt, session, chain, pc, on>>

\* What the client makes of it.
SummaryParsed(s) == IF s \in Provider!States THEN Ok(s) ELSE Err(InvalidSuccess)
Outcome(c) ==
  Accept(Answer(c),
         IF job[c].kind = "create" THEN ComicParsed(Answer(c).body) ELSE SummaryParsed(Answer(c).body))

\* runWithBusyState: the busy state ends, however the operation ended.  The first
\* refresh runs outside it.
\* Mutant: the busy state only ends when the operation succeeds.
OperationEnds_OnSuccess(c, ok) ==
  busy' = (busy /\ (job[c].kind = "mount" \/ ~ok))

OperationEnds(c, ok) ==
  busy' = (busy /\ job[c].kind = "mount")

\* A created comic is shown, and the runtime refreshed before the busy state ends.
DeliverCreated(c) ==
  LET comic == Outcome(c).value
      k == job[c].body.idempotencyKey
  IN  /\ job' = [job EXCEPT ![c] = Sent("createdHealth", None)]
      /\ told' = [told EXCEPT ![job[c].session][k] = @ \cup {comic}]
      /\ UNCHANGED busy

DeliverOther(c) ==
  /\ OperationEnds(c, Outcome(c).ok)
  /\ job' = [job EXCEPT ![c] = NoJob]
  /\ UNCHANGED told

Deliver(c) ==
  /\ Answered(c)
  /\ job[c].awaited
  /\ IF job[c].kind = "create" /\ Outcome(c).ok THEN DeliverCreated(c) ELSE DeliverOther(c)
  /\ Consumed(c)
  /\ UNCHANGED <<storeVars, server, stop>>

\* The server answers a connection that is gone.
Discard(c) ==
  /\ Answered(c)
  /\ ~job[c].awaited
  /\ job' = [job EXCEPT ![c] = NoJob]
  /\ Consumed(c)
  /\ UNCHANGED <<storeVars, busy, server, stop, told>>

\* The connection breaks: fetch rejects.  The request may be lost as well, or the
\* server serves it and the answer is lost; nothing depends on whether it still reads
\* a summary.
HasEffect(kind) == kind \in {"open", "close", "create"}

Lose(c) ==
  /\ job[c].awaited
  /\ OperationEnds(c, FALSE)
  /\ \/ HasEffect(job[c].kind) /\ job' = [job EXCEPT ![c].awaited = FALSE]
     \/ /\ HasEffect(job[c].kind) => job[c].stage = "sent"
        /\ job' = [job EXCEPT ![c] = NoJob]
  /\ UNCHANGED <<providerVars, storeVars, server, stop, told>>

\* Nobody listens, or nobody is there any more: fetch rejects, or a request nobody
\* waits for goes nowhere.
Refused(c) ==
  /\ job[c].stage # "free"
  /\ server = "down" \/ (job[c].stage = "sent" /\ server = "closing")
  /\ IF job[c].awaited THEN OperationEnds(c, FALSE) ELSE UNCHANGED busy
  /\ job' = [job EXCEPT ![c] = NoJob]
  /\ UNCHANGED <<providerVars, storeVars, server, stop, told>>

-----------------------------------------------------------------------------
(* The process: a signal shuts the provider down, then closes the server. *)

Signal(g) ==
  /\ server # "down"
  /\ stop[g] = "armed"
  /\ stop' = [stop EXCEPT ![g] = "shutdown"]
  /\ \/ Provider!ShutdownJoins(g) \/ Provider!ShutdownDefers(g)
     \/ Provider!ShutdownNothingOpen(g) \/ Provider!ShutdownNow(g)
  /\ UNCHANGED <<storeVars, busy, job, server, told>>

\* The process is gone, its memory and the in-memory databases with it; every open
\* connection breaks.
Dies ==
  /\ server' = "down"
  /\ openPromise' = None /\ shutdownPromise' = None /\ runtime' = None
  /\ activeOperations' = 0 /\ state' = "closed"
  /\ attempt' = [s \in Sessions |-> "settled"]
  /\ session' = [s \in Sessions |-> "closed"]
  /\ chain' = [s \in Sessions |-> "none"]
  /\ pc' = [c \in DOMAIN pc |-> "idle"]
  /\ on' = [c \in DOMAIN pc |-> None]
  /\ reply' = [c \in DOMAIN pc |-> "none"]
  /\ ledger' = [s \in Sessions |-> {}]
  /\ comics' = [s \in Sessions |-> {}]
  /\ told' = [s \in Sessions |-> [k \in Keys |-> {}]]
  /\ job' = [c \in Slots |-> IF job[c].awaited THEN Sent(job[c].kind, None) ELSE NoJob]
  /\ UNCHANGED <<created, busy>>

\* Provider.shutdown() has come back.  A second server.close() rejects: nobody
\* handles the rejection, and the process dies of it, here at once; Node reports the
\* error only when the server has closed.
CloseServer(g) ==
  /\ server # "down"
  /\ stop[g] = "shutdown" /\ pc[g] = "idle"
  /\ stop' = [stop EXCEPT ![g] = "closed"]
  /\ IF server = "closing" THEN Dies
     ELSE server' = "closing" /\ UNCHANGED <<providerVars, storeVars, busy, job, told>>

\* The same signal again: its handler is used up, and the default kills.
Killed(g) ==
  /\ server # "down"
  /\ stop[g] # "armed"
  /\ Dies
  /\ UNCHANGED stop

\* server.close() has waited for the connections that were being served.
Exit ==
  /\ server = "closing"
  /\ \A c \in Slots : job[c].awaited => job[c].stage = "sent"
  /\ Dies
  /\ UNCHANGED stop

-----------------------------------------------------------------------------
Click(c) == ClickRefresh(c) \/ ClickOpen(c) \/ ClickClose(c) \/ ClickCreate(c)

\* What happens to a request by itself.
Progress(c) == Arrive(c) \/ Transaction(c) \/ Deliver(c) \/ Discard(c) \/ Refused(c)

Next ==
  \/ \E c \in Slots : Click(c) \/ Progress(c) \/ Lose(c)
  \/ \E s \in Sessions : ProviderReacts(s)
  \/ \E g \in Signals : Signal(g) \/ CloseServer(g) \/ Killed(g)
  \/ Exit

Spec == Init /\ [][Next]_vars

\* What is under way goes on: requests arrive or are refused, the event loop runs,
\* answers come back.  Nobody is obliged to click, to lose a connection or to signal.
Fairness ==
  /\ WF_vars(\E c \in Slots : Progress(c))
  /\ WF_vars(\E s \in Sessions : ProviderReacts(s))
  /\ WF_vars(Exit \/ \E g \in Signals : CloseServer(g))

FairSpec == Spec /\ Fairness

-----------------------------------------------------------------------------
(* Properties. *)

Responses == [status : {200} \cup {StatusOf[e] : e \in ApiErrorCodes},
              body : Provider!States \cup ApiErrorCodes]

\* Every variable has its type; a slot that is served has what its stage promises.
TypeOK ==
  /\ Provider!TypeOK
  /\ created \in 0 .. MaxComics
  /\ \A s \in Sessions : \A e \in comics[s] : e.input \in Bodies /\ IsComic(e.comic)
  /\ busy \in BOOLEAN
  /\ \A c \in Slots :
        /\ job[c].kind \in Kinds /\ job[c].awaited \in BOOLEAN
        /\ job[c].stage \in {"free", "sent", "serving", "settled", "answered"}
        /\ job[c].kind = "create" /\ server # "down" => job[c].body \in Bodies
        /\ job[c].stage = "answered" => job[c].result \in Responses
        /\ job[c].stage = "settled" /\ job[c].result.ok => IsComic(job[c].result.value)
  /\ server \in {"listening", "closing", "down"}
  /\ stop \in [Signals -> {"armed", "shutdown", "closed"}]

\* Retrying with the same key is safe within a session, whatever was lost in between:
\* the session has at most one comic for the key, and every answer a client reads for
\* the key, the first one or a replay, is that comic in every field.
RetryIsSafe ==
  \A s \in Sessions, k \in Keys :
     LET made == {e \in comics[s] : e.input.idempotencyKey = k}
     IN  /\ \A d, e \in made : d = e
         /\ told[s][k] \subseteq {Json(e.comic) : e \in made}

\* The client can read every answer the server sends: none fails its schemas.
AnswersReadable ==
  \A c \in Slots : Answered(c) /\ ~Outcome(c).ok =>
     Outcome(c).value \notin {InvalidSuccess, InvalidError}

\* comic is what request i asks for, up to the whitespace of its texts.
Field(r, f) == IF f \in DOMAIN r THEN r[f] ELSE None
Matches(i, comic) ==
  /\ OptionalText(comic.metadata.title) = OptionalText(i.title)
  /\ \A f \in {"description", "authorName"} : Field(comic.metadata, f) = OptionalText(i[f])

\* A request is answered with the comic it asked for, up to whitespace, and is told
\* that its key belongs to another one only when it does: a retry whose title was
\* respaced replays, one whose title or description was edited never silently
\* returns the old comic.
AnswerFits ==
  \A c \in Slots : Answered(c) /\ job[c].stage = "settled" =>
     IF job[c].result.ok THEN Matches(job[c].body, job[c].result.value)
     ELSE job[c].result.value = "IDEMPOTENCY_CONFLICT" =>
            \E e \in comics[job[c].session] :
               /\ e.input.idempotencyKey = job[c].body.idempotencyKey
               /\ ~Matches(job[c].body, e.comic)

\* The busy state ends, whatever happens to the requests behind it.
BusyEnds == busy ~> ~busy

\* A signal ends the process.
SignalStops == \A g \in Signals : stop[g] # "armed" ~> server = "down"
=============================================================================
