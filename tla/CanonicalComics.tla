--------------------------- MODULE CanonicalComics ---------------------------
(***************************************************************************)
(* The use case CreateCanonicalComic over the SQLite store, and the        *)
(* transaction port it runs in                                             *)
(* (runtime/core/src/application/create-canonical-comic.ts,                *)
(* runtime/core/src/db/database.ts, the comic, metadata, title and         *)
(* idempotency repositories).                                              *)
(*                                                                         *)
(* There is one connection: a transaction holds it from BEGIN to COMMIT or *)
(* ROLLBACK, and everybody else waits.  Each statement is a step; between  *)
(* two of them other requests arrive, a statement may fail, or the process *)
(* may die.                                                                *)
(*                                                                         *)
(* An input stands for the title its caller sent: the stored text is only  *)
(* trimmed, while the hash is taken over the canonical form (whitespace    *)
(* collapsed, defaults filled in), so inputs may share a hash.             *)
(***************************************************************************)
EXTENDS Naturals, FiniteSets

CONSTANTS
  Requests,   \* request slots
  Keys,       \* idempotency keys
  NoKey,      \* a request without a key
  Inputs,     \* what callers send: title, description, author, origin
  Canonical,  \* Canonical[i]: the canonical form of input i; stands for its hash
  Ids,        \* comic ids: randomUUID(), bounded
  None

ASSUME ComicsAssumption ==
  /\ NoKey \notin Keys
  /\ None \notin Requests
  /\ None \notin Inputs
  /\ None \notin Ids \X Inputs
  /\ None \notin Inputs \X (Ids \X Inputs)
  /\ Canonical \in [Inputs -> Inputs]

VARIABLES
  store,      \* the committed tables
  work,       \* the tables as the open transaction sees them
  holder,     \* the request whose transaction holds the connection, or None
  pc,         \* pc[r]: the statement request r is about to run
  request,    \* request[r]: its key and input
  answer,     \* answer[r]: the created comic it will report, as <<id, title>>
  outcome,    \* outcome[r]: the result it will report
  told,       \* told[k]: the successes reported for key k, as <<hash, answer>>
  origin      \* origin[id]: the key of the request that inserted comic id

vars == <<store, work, holder, pc, request, answer, outcome, told, origin>>

\* What the replay payload keeps of a created comic: its id and its stored title.
Answers == Ids \X Inputs

NoRow == [hash |-> None, status |-> "none", result |-> None]
ClaimedRow(h) == [hash |-> h, status |-> "in_progress", result |-> None]
CompletedRow(h, a) == [hash |-> h, status |-> "completed", result |-> a]

\* The rows that can be read back: a completed one has its result.
LedgerRows == [hash : Inputs, status : {"in_progress"}, result : {None}]
                \cup [hash : Inputs, status : {"completed"}, result : Answers]

\* Tables comics, comic_metadata (its title), comic_titles (the primary one) and
\* operation_idempotency.
Store == [comics : SUBSET Ids,
          metadata : [Ids -> Inputs \cup {None}],
          titles : [Ids -> Inputs \cup {None}],
          ledger : [Keys -> LedgerRows \cup {NoRow}]]

EmptyStore == [comics |-> {},
               metadata |-> [id \in Ids |-> None],
               titles |-> [id \in Ids |-> None],
               ledger |-> [k \in Keys |-> NoRow]]

InTransaction == {"lookup", "claim", "comic", "metadata", "title", "complete", "commit",
                  "rollback"}

NoRequest == [key |-> NoKey, input |-> None]

Init ==
  /\ store = EmptyStore
  /\ work = EmptyStore
  /\ holder = None
  /\ pc = [r \in Requests |-> "idle"]
  /\ request = [r \in Requests |-> NoRequest]
  /\ answer = [r \in Requests |-> None]
  /\ outcome = [r \in Requests |-> "none"]
  /\ told = [k \in Keys |-> {}]
  /\ origin = [id \in Ids |-> NoKey]

-----------------------------------------------------------------------------
(* How a request moves. *)

Goto(r, p) == pc' = [pc EXCEPT ![r] = p]

\* `return err(...)` inside the transaction: the port rolls back.
Fail(r, code) ==
  /\ Goto(r, "rollback")
  /\ outcome' = [outcome EXCEPT ![r] = code]

key(r) == request[r].key
input(r) == request[r].input
hash(r) == Canonical[input(r)]

(* Before the transaction: validation, normalisation, hashing. *)

Start(r, k, i) ==
  /\ pc[r] = "idle"
  /\ request' = [request EXCEPT ![r] = [key |-> k, input |-> i]]
  /\ Goto(r, "waiting")
  /\ UNCHANGED <<store, work, holder, answer, outcome, told, origin>>

\* An empty title or key.
Invalid(r) ==
  /\ pc[r] = "idle"
  /\ outcome' = [outcome EXCEPT ![r] = "VALIDATION_ERROR"]
  /\ Goto(r, "reply")
  /\ UNCHANGED <<store, work, holder, request, answer, told, origin>>

-----------------------------------------------------------------------------
(* The transaction port: BEGIN, COMMIT, ROLLBACK. *)

Begin(r) ==
  /\ pc[r] = "waiting"
  /\ holder = None
  /\ holder' = r
  /\ Goto(r, IF key(r) = NoKey THEN "comic" ELSE "lookup")
  /\ UNCHANGED <<store, work, request, answer, outcome, told, origin>>

\* Mutant: the result is reported although nothing was committed.
Commit_Lost(r) ==
  /\ pc[r] = "commit"
  /\ holder' = None
  /\ outcome' = [outcome EXCEPT ![r] = "ok"]
  /\ Goto(r, "reply")
  /\ UNCHANGED <<store, work, request, answer, told, origin>>

Commit(r) ==
  /\ pc[r] = "commit"
  /\ store' = work
  /\ holder' = None
  /\ outcome' = [outcome EXCEPT ![r] = "ok"]
  /\ Goto(r, "reply")
  /\ UNCHANGED <<work, request, answer, told, origin>>

\* Mutant: the port ends the transaction without rolling back.
Rollback_KeepsWork(r) ==
  /\ pc[r] = "rollback"
  /\ store' = work
  /\ holder' = None
  /\ Goto(r, "reply")
  /\ UNCHANGED <<work, request, answer, outcome, told, origin>>

\* Mutant: the connection is not released after a rollback.
Rollback_KeepsConnection(r) ==
  /\ pc[r] = "rollback"
  /\ work' = store
  /\ Goto(r, "reply")
  /\ UNCHANGED <<store, holder, request, answer, outcome, told, origin>>

Rollback(r) ==
  /\ pc[r] = "rollback"
  /\ work' = store
  /\ holder' = None
  /\ Goto(r, "reply")
  /\ UNCHANGED <<store, request, answer, outcome, told, origin>>

\* The runtime is closed under its requests: the open transaction is gone, and every
\* statement after it throws, ROLLBACK too.
Unanswered(r) == pc[r] \in InTransaction \cup {"waiting"}

Close ==
  /\ work' = store
  /\ holder' = None
  /\ pc' = [r \in Requests |-> IF Unanswered(r) THEN "reply" ELSE pc[r]]
  /\ outcome' = [r \in Requests |-> IF Unanswered(r) THEN "INTERNAL_ERROR" ELSE outcome[r]]
  /\ UNCHANGED <<store, request, answer, told, origin>>

\* A statement of the transaction, or COMMIT itself, throws.
StatementFails(r) ==
  /\ pc[r] \in InTransaction \ {"rollback"}
  /\ Fail(r, "INTERNAL_ERROR")
  /\ UNCHANGED <<store, work, holder, request, answer, told, origin>>

-----------------------------------------------------------------------------
(* The statements of the use case. *)

\* operationIdempotency.get: claim a fresh key, replay a completed one, refuse the rest.
LookupFresh(r) ==
  /\ pc[r] = "lookup"
  /\ work.ledger[key(r)] = NoRow
  /\ Goto(r, "claim")
  /\ UNCHANGED <<store, work, holder, request, answer, outcome, told, origin>>

\* Mutant: a key reused for another input creates again.
LookupRefused_Creates(r) ==
  /\ pc[r] = "lookup"
  /\ work.ledger[key(r)] # NoRow
  /\ work.ledger[key(r)].hash # hash(r)
  /\ Goto(r, "comic")
  /\ UNCHANGED <<store, work, holder, request, answer, outcome, told, origin>>

\* Mutant: the hash is taken over the input as it was sent.
LookupRefused_RawInput(r) ==
  /\ pc[r] = "lookup"
  /\ work.ledger[key(r)].status = "completed"
  /\ work.ledger[key(r)].hash # input(r)
  /\ Fail(r, "IDEMPOTENCY_CONFLICT")
  /\ UNCHANGED <<store, work, holder, request, answer, told, origin>>

LookupRefused(r) ==
  /\ pc[r] = "lookup"
  /\ LET row == work.ledger[key(r)]
     IN  /\ row # NoRow
         /\ row.status # "completed" \/ row.hash # hash(r)
         /\ Fail(r, IF row.status # "completed" THEN "INTERNAL_ERROR"
                    ELSE "IDEMPOTENCY_CONFLICT")
  /\ UNCHANGED <<store, work, holder, request, answer, told, origin>>

\* Reading the payload back parses every field again; a trimmed title stays as it is.
Replayed(row) == row.result

\* Mutant: the stored result is replayed whatever the input.
LookupReplay_AnyInput(r) ==
  /\ pc[r] = "lookup"
  /\ work.ledger[key(r)].status = "completed"
  /\ answer' = [answer EXCEPT ![r] = Replayed(work.ledger[key(r)])]
  /\ Goto(r, "commit")
  /\ UNCHANGED <<store, work, holder, request, outcome, told, origin>>

LookupReplay(r) ==
  /\ pc[r] = "lookup"
  /\ work.ledger[key(r)].status = "completed"
  /\ work.ledger[key(r)].hash = hash(r)
  /\ answer' = [answer EXCEPT ![r] = Replayed(work.ledger[key(r)])]
  /\ Goto(r, "commit")
  /\ UNCHANGED <<store, work, holder, request, outcome, told, origin>>

\* operationIdempotency.createInProgress: the primary key refuses a second row.
Claim(r) ==
  /\ pc[r] = "claim"
  /\ work.ledger[key(r)] = NoRow
  /\ work' = [work EXCEPT !.ledger[key(r)] = ClaimedRow(hash(r))]
  /\ Goto(r, "comic")
  /\ UNCHANGED <<store, holder, request, answer, outcome, told, origin>>

\* A fresh id, then comics.create.
CreateComic(r) ==
  /\ pc[r] = "comic"
  /\ \E id \in Ids \ work.comics :
        /\ work' = [work EXCEPT !.comics = @ \cup {id}]
        /\ answer' = [answer EXCEPT ![r] = <<id, input(r)>>]
        /\ origin' = [origin EXCEPT ![id] = key(r)]
  /\ Goto(r, "metadata")
  /\ UNCHANGED <<store, holder, request, outcome, told>>

\* comicMetadata.create.
CreateMetadata(r) ==
  /\ pc[r] = "metadata"
  /\ work' = [work EXCEPT !.metadata[answer[r][1]] = input(r)]
  /\ Goto(r, "title")
  /\ UNCHANGED <<store, holder, request, answer, outcome, told, origin>>

\* comicTitles.addTitle, of the primary title.
\* Mutant: the error addTitle returns is ignored.
AddPrimaryTitle_Unchecked(r) ==
  /\ pc[r] = "title"
  /\ Goto(r, IF key(r) = NoKey THEN "commit" ELSE "complete")
  /\ UNCHANGED <<store, work, holder, request, answer, outcome, told, origin>>

AddPrimaryTitle(r) ==
  /\ pc[r] = "title"
  /\ work' = [work EXCEPT !.titles[answer[r][1]] = input(r)]
  /\ Goto(r, IF key(r) = NoKey THEN "commit" ELSE "complete")
  /\ UNCHANGED <<store, holder, request, answer, outcome, told, origin>>

\* operationIdempotency.markCompleted: an update filtered on hash and status, then
\* a read that only asks whether a row is there.
\* Mutant: the row is completed without its result.
MarkCompleted_WithoutResult(r) ==
  /\ pc[r] = "complete"
  /\ work' = [work EXCEPT !.ledger[key(r)].status = "completed"]
  /\ Goto(r, "commit")
  /\ UNCHANGED <<store, holder, request, answer, outcome, told, origin>>

MarkCompleted(r) ==
  /\ pc[r] = "complete"
  /\ work' = IF work.ledger[key(r)] = ClaimedRow(hash(r))
             THEN [work EXCEPT !.ledger[key(r)] = CompletedRow(hash(r), answer[r])]
             ELSE work
  /\ IF work.ledger[key(r)] = NoRow
     THEN Fail(r, "INTERNAL_ERROR")
     ELSE Goto(r, "commit") /\ UNCHANGED outcome
  /\ UNCHANGED <<store, holder, request, answer, told, origin>>

-----------------------------------------------------------------------------
(* The caller, and the process. *)

\* The requests in R are over: nothing of them is left but what they committed.
Over(R) ==
  /\ pc' = [r \in Requests |-> IF r \in R THEN "idle" ELSE pc[r]]
  /\ request' = [r \in Requests |-> IF r \in R THEN NoRequest ELSE request[r]]
  /\ answer' = [r \in Requests |-> IF r \in R THEN None ELSE answer[r]]
  /\ outcome' = [r \in Requests |-> IF r \in R THEN "none" ELSE outcome[r]]
  /\ UNCHANGED <<store, origin>>

\* The result reaches the caller.
Reply(r) ==
  /\ pc[r] = "reply"
  /\ told' = IF outcome[r] = "ok" /\ key(r) # NoKey
             THEN [told EXCEPT ![key(r)] = @ \cup {<<hash(r), answer[r]>>}]
             ELSE told
  /\ Over({r})
  /\ UNCHANGED <<work, holder>>

\* The caller has gone; it does not know what happened and may ask again.
ReplyLost(r) ==
  /\ pc[r] = "reply"
  /\ Over({r})
  /\ UNCHANGED <<work, holder, told>>

\* The process dies: SQLite recovers what was committed.
Crash ==
  /\ work' = store
  /\ holder' = None
  /\ Over(Requests)
  /\ UNCHANGED told

Lookup(r) == LookupFresh(r) \/ LookupRefused(r) \/ LookupReplay(r)

Statement(r) ==
  \/ Lookup(r) \/ Claim(r) \/ CreateComic(r) \/ CreateMetadata(r) \/ AddPrimaryTitle(r)
  \/ MarkCompleted(r) \/ Commit(r) \/ Rollback(r) \/ StatementFails(r)

Next ==
  \/ \E r \in Requests :
        \/ \E k \in Keys \cup {NoKey}, i \in Inputs : Start(r, k, i)
        \/ Invalid(r) \/ Begin(r) \/ Statement(r) \/ Reply(r) \/ ReplyLost(r)
  \/ Close
  \/ Crash

Spec == Init /\ [][Next]_vars

\* The event loop runs what is ready; the connection mutex does not pass over a
\* request for ever.
Fairness ==
  \A r \in Requests : /\ SF_vars(Begin(r))
                      /\ WF_vars(Statement(r))
                      /\ WF_vars(Reply(r) \/ ReplyLost(r))

FairSpec == Spec /\ Fairness

-----------------------------------------------------------------------------
(* Properties. *)

\* Every variable has its type.
TypeOK ==
  /\ store \in Store
  /\ work \in Store
  /\ holder \in Requests \cup {None}
  /\ pc \in [Requests -> {"idle", "waiting", "reply"} \cup InTransaction]
  /\ request \in [Requests -> [key : Keys \cup {NoKey}, input : Inputs \cup {None}]]
  /\ answer \in [Requests -> Answers \cup {None}]
  /\ outcome \in [Requests -> {"none", "ok", "VALIDATION_ERROR", "INTERNAL_ERROR",
                               "IDEMPOTENCY_CONFLICT"}]
  /\ told \in [Keys -> SUBSET (Inputs \X Answers)]
  /\ origin \in [Ids -> Keys \cup {NoKey}]

\* However often a key is used, by whom, after which failures, retries and crashes:
\* every success reported for it is for one hash and names one comic and title.
OneAnswerPerKey == \A k \in Keys : \A a, b \in told[k] : a = b

\* What a caller was told is durable: the comic is committed with the title reported,
\* from an input with the caller's hash and by a request with the caller's key, also
\* after a crash.
ToldIsCommitted ==
  \A k \in Keys : \A t \in told[k] :
    LET id == t[2][1]
        title == t[2][2]
    IN  /\ id \in store.comics
        /\ origin[id] = k
        /\ store.metadata[id] = title
        /\ store.titles[id] = title
        /\ Canonical[title] = t[1]

\* No key ever makes two comics, not even when its callers were never answered.
OneComicPerKey ==
  \A a, b \in store.comics : origin[a] = origin[b] /\ origin[a] # NoKey => a = b

\* A conflict is reported only to a caller whose input really differs, after
\* normalisation, from the one the key is bound to.
ConflictIsReal ==
  \A r \in Requests :
    pc[r] = "reply" /\ outcome[r] = "IDEMPOTENCY_CONFLICT" =>
      store.ledger[key(r)] # NoRow /\ store.ledger[key(r)].hash # hash(r)

\* No failure or crash leaves a claim behind that would refuse every later retry with
\* "Idempotency key is not replayable": committed rows are completed, and the comic
\* they name exists.
NoStrandedClaim ==
  \A k \in Keys : store.ledger[k] # NoRow =>
    /\ store.ledger[k].status = "completed"
    /\ store.ledger[k].result[1] \in store.comics

\* A committed comic has its metadata and its primary title, with the same text, and
\* neither exists without the comic.
CommittedIsComplete ==
  \A id \in Ids :
    /\ store.metadata[id] = store.titles[id]
    /\ id \in store.comics <=> store.metadata[id] # None

\* After every commit, rollback, failing statement and crash the committed tables are
\* whole: each claimed key has its comic, each comic its metadata and primary title,
\* and what a caller was told is there as it was told.
CommittedIsWhole == NoStrandedClaim /\ CommittedIsComplete /\ ToldIsCommitted

\* The use case implements the abstract promise: the committed ledger is the binding.
Promise == INSTANCE IdempotentCreation WITH
  bound <- [k \in Keys |-> IF store.ledger[k] = NoRow THEN None
                           ELSE <<store.ledger[k].hash, store.ledger[k].result>>],
  made <- store.comics

KeepsPromise == Promise!Spec

\* Every request ends, whatever fails on the way.
RequestsEnd == \A r \in Requests : pc[r] # "idle" ~> pc[r] = "idle"
=============================================================================
