# Venera: a TLA+ model of the canonical runtime

This directory holds TLA+ models of Venera's program code, TLC configurations
that check them on small instances, and TLAPS proofs of their main properties
for every instance. It covers the TypeScript canonical core (`runtime/core`),
the demo application in front of it (`apps/web`) and the first parts of the
legacy Flutter application (`lib/legacy`) that have control of their own.
Paths below are relative to the repository.

1. [Inventory](#1-inventory)
2. [How the parts interact](#2-how-the-parts-interact)
3. [The modules and the code](#3-the-modules-and-the-code)
4. [The runs](#4-the-runs)
5. [Fairness](#5-fairness)
6. [The proofs](#6-the-proofs)
7. [Where the code and its documents disagree](#7-where-the-code-and-its-documents-disagree)
8. [Limits of the models](#8-limits-of-the-models)
9. [Plan](#9-plan)

## 1. Inventory

### The canonical core and the web server

| component | state | operations | hard parts | what makes it correct |
|---|---|---|---|---|
| Runtime provider (`apps/web/src/provider`) | `openPromise`, `shutdownPromise`, `runtime`, `activeOperations`, `state` | `open`, `close`, `shutdown`, `withRuntime` | asynchronous callers interleave at every await; promises outlive the state they were made for | a published runtime is live; refusals end; shutdown spares running work |
| Core database (`runtime/core/src/db`) | one SQLite connection behind a mutex; tables, unique indexes, foreign keys | transactions, single statements, migrations, seed | a use case outside a transaction interleaves with others at each statement; a crash rolls back what is not committed | committed rows satisfy the indexes; a transaction is all or nothing |
| CreateCanonicalComic (`application/create-canonical-comic.ts`) | `comics`, `comic_metadata`, `comic_titles`, `operation_idempotency` | create, replay, conflict | concurrent requests with one key, retries after a lost reply, failures between steps | one comic per key, and one answer to every request with it |
| Reader position (`application/update-reader-position.ts`) | `reader_sessions` | update, resume, clear | the session is read twice and then written, in separate statements | what is saved can be resumed from; an acknowledged update was saved |
| Reader target (`application/resolve-reader-target.ts`) | none of its own | resolve a chapter for a comic | one query per chapter and one more for the kind, while platforms change status | the documented first chapter; order and kind from the same links |
| Page orders (`PageOrderRepository`, `application/open-reader.ts`) | `page_orders`, `page_order_items` | `getActiveOrder`, `setUserOrder`, `resetToSourceOrder`, open | several statements per change, no transaction | a race has a winner, whose order is active and whole; what is shown is whole |
| Source platforms and links | `source_platforms`, `source_links`, `chapter_source_links` | `updateStatus`, listing, seed | check-then-write of the status; every start seeds again | the allowed changes of status, `deprecated` being final |
| Source package contracts (`source-contracts`) | none | validation, integrity verification | order of checks, first failure wins; paths and hashes in several spellings | what is accepted is whole, and nothing else |
| Domain values, results, errors (`domain`, `shared`) | none | parse, normalise | equal after normalisation or not | what is accepted is well formed |
| Storage objects, diagnostics events | append-only or unwritten tables | queries, one insert | none | |
| Web adapter, routes and server (`apps/web/src/adapter`, `routes`, `server`) | none of their own | HTTP to provider calls, error mapping, shutdown on a signal | a lost reply, a second signal, a close under a running request | one HTTP error per core error, every answer readable; a signal ends the process |
| Runtime contracts (`packages/runtime-contracts`) | none | request and response schemas, error codes | three parties read one comic: the replay parser, the response schema, the client | what is written can be read back, in every field |
| Client and demo UI (`apps/web/src/client`, `ui`) | form, busy flag, idempotency key | open, close, create, retry | a retry after an unknown outcome, with fields that were edited | a retry never creates a second comic nor returns another one; the busy state ends |

### The legacy application

The repository calls `lib/legacy` quarantined (paths here are relative to it). These of its parts have control worth
modelling; the rest is user interface or sequential I/O.

| component | state | operations | hard parts | what makes it correct |
|---|---|---|---|---|
| Downloads (`network/download.dart`, `file_downloader.dart`) | task list, `_index`, `_chapter`, blocks, status file | start, pause, resume, cancel | two loops after a quick pause and resume; one file, several fetchers | every page once; what is complete is complete on disk |
| Script worker pool (`foundation/js/js_pool.dart`) | workers, pending maps | init, execute, time out, replace, dispose | two replacements of one worker; late answers of tasks that timed out | a call gets its own result or an error, and ends; no isolate outside the pool |
| Data synchronisation (`utils/data_sync.dart`) | waiting flags, version, server files | upload, download | one flag for both directions; the version raised before it is true; remove before write; names sorted as text | a snapshot is what its version says; no version the server has not had; the newest one is taken |
| Lifecycle marker and write gate (`foundation/diagnostics`, `foundation/db`) | marker file, pending writes | heartbeat, fatal error, clean shutdown, drain | read, await, write back | a clean exit is never reported as a crash, nor a crash as clean |
| Cache manager (`foundation/cache_manager.dart`) | rows, files, size | write, find, evict, clear | file and row change at different awaits | rows and files agree, size is their sum |
| Follow updates (`foundation/follow_updates.dart`, `utils/channel.dart`) | bounded queue, completers | push, pop, close | many consumers on one completer | every item once; everybody ends |
| Comic sources, local library, import, unified store, favourites and history, network, reader presentation, `reader_next`, pages | | | | not planned, see `PROJECT.json` |

`PROJECT.json` lists every component with what is modelled of it, and every
hazard at its line with the properties that watch it.

## 2. How the parts interact

A user's action in the demo UI becomes one HTTP request of the client; a route
hands it to the adapter, which calls `provider.open()`, `provider.close()` or
`provider.withRuntime(operation)`. The provider publishes one core runtime: a
set of use cases over repositories over one Kysely instance and one SQLite
connection. `createRuntime()` opens the database, runs the migrations and the
seed, and only then is the runtime published.

Two kinds of concurrency meet there.

* In the provider, a JavaScript function runs alone between two awaits; at an
  await anything else may run, and what it read before may be stale after.
* In the core, Kysely's mutex gives the connection to one statement or one
  transaction at a time. `CreateCanonicalComic` runs in a transaction and so
  alone; every other use case runs statement by statement, and others run
  between any two of its statements.

So the models have one action per stretch between two awaits (the provider) or
per SQL statement (the core), and every action that may fail or be interrupted
has the failure beside it.

## 3. The modules and the code

`PROJECT.json` maps every definition to the lines it models. Definitions marked
*Mutant* are not part of a specification: each is the definition before or after
it with a plausible bug, and shows that a property notices.

### RuntimeProvider (`apps/web/src/provider/runtime-provider.ts`)

The closure's five variables have their names. `Sessions` numbers the
`createRuntime()` calls: `attempt[s]` is the promise of the n-th call (pending,
its `.then`/`.catch` run, its reactions run), `session[s]` the runtime it made,
`chain[s]` the callback `shutdown()` chains on it. A call slot `c` has a `pc`
(where it is suspended), `on` (what it waits for) and `reply`. Each of the four
functions is a set of actions, one for each path from the entry to an await or
to the return: `OpenRejected`, `OpenAlreadyOpen`, `OpenJoins`, `OpenCreates`;
`CloseRejected`, `CloseJoins`, `CloseNow`; `ShutdownJoins`, `ShutdownDefers`,
`ShutdownNothingOpen`, `ShutdownNow`; `WithRuntimeRejected`,
`WithRuntimeStarts`, `OperationSettles`. The reactions are `CreateResolves`,
`CreateRejects`, `OpenPromiseSettles` (callers that awaited the same promise
resume in one batch, in the order they registered) and `ShutdownContinues`,
which runs one tick later because `shutdown()` chains on a derived promise.

Two details carry the module's findings. `ShutdownNow` stores `Resolved`: an
async function that awaits nothing has run before its promise is assigned, so
the assignment of line 141 overwrites the null `finalizeShutdown` stored. And
`FinalizeShutdown` clears `openPromise` whatever creation it belongs to.

### CanonicalComics and IdempotentCreation (`application/create-canonical-comic.ts`)

`store` is what is committed, `work` what the open transaction sees, `holder`
the request whose transaction has the connection. A request goes through the
statements of the use case: `Begin`, the ledger lookup (`LookupFresh`,
`LookupRefused`, `LookupReplay`), `Claim`, `CreateComic`, `CreateMetadata`,
`AddPrimaryTitle`, `MarkCompleted`, `Commit` or `Rollback`; each may fail
(`StatementFails`), the provider's `close()` may take the database away from
under all of them (`Close`: what is open is rolled back and each request fails),
the reply may be lost (`ReplyLost`), the process may die (`Crash`). An input stands for what the caller sent; `Canonical` is the form the
hash is taken over. Titles are stored trimmed and hashed with whitespace
collapsed, so two inputs with different stored titles may share a hash: the
replay then answers with the title of the first, which is why the answers of
`told` carry hash and answer. `origin` is a history variable.

`IdempotentCreation` states the promise without transactions, statements or
crashes: a key is bound once, to one hash and one answer, and callers are told
what it is bound to. `KeepsPromise` is its specification under the mapping
`bound[k]` = hash and result of the committed ledger row, `made` = committed
comics: only `Commit` binds or makes, only `Reply` tells, all else stutters.

### PageOrders (`PageOrderRepository`, `application/open-reader.ts`)

One chapter. `orders[id]` is a row of `page_orders` with its items. A writer runs
`SelectActive`, `Deactivate`, `InsertOrder`, one `InsertItem` per page, and reads
back like a reader: `ReadOrder` or `ReadNoOrder`, then `ReadItems`, where
OpenReader's completeness check is `Covers`. The unique indexes are guards with
`Refused` as their other side. `StatementFails` and `Crash` leave what was
written. Two history variables are for the properties: `alone[w]` (no other writer
since this one began) and `broken` (since the last insert of an order a failure has
hit the writer whose order is active, or one about to insert where none is).

### ReaderSessions (`application/update-reader-position.ts`)

One comic. An updater is refused (`Refuse`) or validated (`Start`); the use case
reads the session and compares (`Skip` or `Differs`), the repository reads it
again (`Skip` or `ChooseWrite`) and updates or inserts by what it read
(`Update`, which changes no row if a clear has come between; `Insert`,
`InsertRefused`). A resumer applies `Rejection`, the resolver's own three
checks of a saved session, written apart from the updater's `Storable`. `Clear`
runs at any time. `saved` and `cleared` are history variables.

### SourcePlatforms and ReaderTarget (`application/resolve-reader-target.ts`)

`SourcePlatforms` is `updateStatus` (`BeginUpdate` with the check of `Allowed`,
`RefuseUpdate`, `WriteStatus` by id alone, `Refresh`, `UpdateFails`) and the
seed, which every start runs and which sets the local platform active
(`Restart`). `ReaderTarget` extends it with the resolver for a comic that has no
saved session: `StartFirst`, one `ReadLinks` per chapter, `Choose` by the
comparator `Before`, `ReadKind`; a requested chapter goes from `StartRequested`
to `ReadKind`. `FirstIsCanonical` compares the choice with `FirstById`, a
definition by successive minima over the tuple that
`docs/design/use-cases.md` gives, which shares neither the comparator nor the
minimum of source orders with the code's side. `held` and `stable` are history
variables.

### SourceContracts (`source-contracts/integrity-verifier.ts`, `validators.ts`)

`verify()` is a pure function, and so an operator here: `PackageFailures` and
`PayloadFailures` are the checks that fail, numbered in the order of the code,
`FirstFailure` the one whose code is returned, `Verified` the record of a package
without any. `EntryValid`, `ManifestValid`, `ChecksumsValid` and `MappingValid`
are the four validators it calls. A string is a value with a spelling: the
schemas trim and lower-case what is in the documents, while the paths the caller
passes beside them keep their spelling, and so a file is found by `Has` and
`HasDigest` only under the plain path. `Malformed` stands for every fault a
schema finds in the document it is in.

The state machine around it is small: a caller holds a published package, calls
(`Verify`), and comes back with a package changed in one place (`CallAgain`): a
field replaced or respelt, a file, checksum or mapping changed, added or left
out. `Whole` says what should be accepted without an order of checks, by what
the documents promise of each path and which bytes are supplied under it.

### ComicPayloads (`packages/runtime-contracts`, `apps/web/src/adapter`, `client/api`, and the codec of `create-canonical-comic.ts`)

Pure operators, without state: what a comic goes through between the form and the
answer. `Fields` lists the fields of the three parts of a created comic with
their kinds, and each reader and writer is defined over that table: `Json` is the
payload stored for replays, `Parse` the parser that reads it back, with the
fields in the order the code reads them (`ReadOrder`: the first that fails
decides the error) and `VALIDATION_ERROR` or `INTERNAL_ERROR` as its parts say;
`Created` is what `execute()` builds; `RequestValid` and `Received` are the
request schema with its trimming, `CanonicalInput` the form the hash is taken
over; `CreateAnswer`, `WebCode`, `StatusOf` are the adapter, `ComicReadable`,
`ComicParsed`, `Accept` the client. A text is opaque: `Trim`, `Squeeze`, `Norm`,
`DateOf` are functions on texts, of which `PayloadAssumption` says what the code
relies on (they are idempotent, they agree on what is blank, lower-casing what is collapsed
already gives what normalizing gives, a date survives its ISO text).

### WebDemo (`apps/web/src/ui/runtime-shell.tsx`, `client`, `routes`, `adapter`, `server`)

The demo end to end, composed: `INSTANCE RuntimeProvider` with the request slots
and the signals as its calls, `ComicPayloads` for what is sent, and one database
per session of the provider, which starts empty and is gone with the session.
The buttons are `ClickOpen`, `ClickClose`, `ClickRefresh`, `ClickCreate`; a
request is `job[c]`, which goes from sent (`Arrive`, by route) over the provider
call to its answer (`Deliver`). The use case is one step (`CreateNew`, `Reuse` or
`TransactionFails`), since its transaction makes it one; `CanonicalComics` has
its statements. A connection may break before the request arrives or after
(`Lose`); the server then answers into nothing (`Discard`). `Signal` calls
`shutdown()`, `CloseServer` follows when it has come back, then `Exit`; a second
`server.close()` and a signal whose handler is used up end the process at once
(`Dies`).

### JsPool (`lib/legacy/foundation/js/js_pool.dart`)

`JSPool` and `IsolateJsEngine`. `worker[w]` has the fields of the n-th engine
constructed, `isolate[w]` the life of its isolate, `toWorker` and `toMain` the two
ports. `Execute` starts the pool, waits for it, or chooses a worker (`Select`);
`InitContinues` and `InitFails` are `_init` after each worker; `Replace` and
`Replaced` are `_replaceWorker` before and after its await, and `at[c]` is the
index it computed before. `Spawned`, `ReadyTimeout`, `OnMessage`, `TaskTimeout` are
the main isolate's events, `Run` the worker's own. What awaits a future that was
just completed runs before the next event: that is the guard `Settled`. `phase[c]`
is where a call of `execute()` is suspended, `on[c]` the worker it has or waits for.
`Construct` has the guard `made < MaxWorkers`, which never stops a step: each call
starts at most one pool and one replacement. `overlaps` and `stale` are history
variables.

### DataSync (`lib/legacy/utils/data_sync.dart`, with `saveData`, export and import)

One device: settings in `memory` and on `disk`, of which the model keeps the
version and the number of the last local change, three flags, and calls with a
`pc` at each await. `UploadData` and `DownloadData` are the two functions up to
their first await (turned away, waiting, or beginning); an upload then goes
through `SaveBumped`, `Export`, `SaveRestored`, `List`, `RemoveOld`, `Prune`,
`Write`, `Confirm`, a download through `ReadDir`, `Fetch`, `Import`, `Clean`.
Every await may fail, a request may fail after it took effect, the app may be
killed with a request on its way (`Restart`, `LateEffect`). `OtherUploads` is
another device, `Midnight` the day of the file names. File names are compared as
text (`NameBefore`), digit by digit. `edits`, `highest`, `torn` and `othersWrote`
are history variables.

### MC modules and proof modules

`MC*` give the constants their values and the symmetry sets. `*Proofs` hold the
inductive invariants, the lemmas and the theorems, one module for each
specification; `WebDemoProofs` also has the facts about the codec, and
`LegacyProofs` the proofs about `DataSync` and about `JsPool`.

## 4. The runs

| run | asks | instance | result |
|---|---|---|---|
| `provider` | are the provider's invariants kept, does every call return and every refusal end | 3 concurrent calls, 3 `createRuntime()` calls | 291,607 states, holds |
| `provider_shutdown_stale` | does a returned shutdown leave the provider closed | 3 calls | violated |
| `comics` | idempotency, durability, completeness, the abstract promise; does every request end | 2 requests, 1 key and requests without, 3 inputs of which 2 share a hash, 2 ids | 188,726 states, holds |
| `page_orders` | does a race of writers have a winner; are orders unmixed, whole when shown, effective | 2 writers, 1 reader, 3 order rows, 2 pages and 4 lists | 2,905,146 states, holds |
| `page_orders_atomic` | does an order change fully succeed or fully fail | 1 writer | violated |
| `reader_sessions` | is what is saved resumable, what is acknowledged saved | 3 updaters, 1 resumer, 7 positions | 2,731,940 states, holds |
| `reader_sessions_concurrent` | are concurrent updates of valid positions safe | 2 updaters | violated |
| `reader_target` | is the documented chapter opened, does a deprecation stand | 2 platforms, 2 updaters, 1 resolver, 4 chapters, 7 links | 6.3 million states, holds |
| `source_contracts` | are the whole packages accepted and no others, whatever their spelling; is nothing judged before it is intact | 2 published packages and all that 2 changes of one place make of them | 47,786 states, holds |
| `web_demo` | is a retry safe, is an answer the one asked for and readable; does the busy state end, does a signal end the process | 1 tab, 2 request slots, 3 ways to fill the form, 2 sessions, 2 comics, 1 signal | 313,323 states, holds |
| `js_pool` | does a call get its own result, what makes a worker unreachable; does every call end | 3 calls, a pool of 2, at most 9 workers | 120,066 states, holds |
| `data_sync` | what does a snapshot hold, which versions may a device hold, which snapshot is taken | 3 calls, versions 8 to 10, 2 days, 1 local change, an upload removes one of 3 files | 571,735 states, holds |

A property may have several parts where they answer one question: `CommittedIsWhole`
of `comics` is that no key is left claimed, that every comic has its title and
metadata, and that what was told is committed; `UpdatesTakeEffect` of
`reader_sessions` is that skipped and written updates were both saved. Each part
has a theorem of its own.

Why these bounds. Slots are reused: a call that has returned starts again, so a
run explores histories of any length with at most so many calls at once. Every
conflict in this code is between two calls; the third slot of `provider` and
`reader_sessions` adds the one that starts while two are suspended. In
`provider` three creations allow one to be forgotten while a second is made and
a third follows. In `comics` two ids suffice for a second comic, which is the
violation `OneComicPerKey` looks for. In `page_orders` three rows are an old
order and one for each writer; the lists are a permutation of the two pages, one with a page
twice (meeting the index) and one with a page of another chapter (passing the
indexes, refused when read). In `reader_sessions` the positions have and lack a
page, and three are refused for three reasons. In `reader_target` two chapters
share a number and are told apart by links on both platforms, with a stale link
and a stale parent whose smaller orders would change the choice. In
`source_contracts` one change makes any single check fail and two make faults
meet, which is what the order of the checks and one fault hiding another need;
one package has a taxonomy and all its files checksummed, the other neither. In
`web_demo` two slots are a request that was given up and the one made meanwhile
(the shell starts one at a time), two sessions a close and a reopening, and the
forms are valid, valid with other content, and refused by the schema. In `js_pool` three calls
overlap two replacements, and nine workers are what three calls can ask for at
most (`PoolAssumption`). In `data_sync` three calls are one that runs, one that
waits and one that is turned away; the versions cross the border from one digit
to two, where the order as text is not that of the numbers; the days are two that
follow each other, five digits long as in the code. The real `MaxFiles`
is 10; three make the same removal happen with fewer files.

Bounded resources end behaviours, not properties: when all ids or order rows are
used, an insert has no successor and only failing or crashing remains; ids used
only in rolled-back transactions are used again. `source_contracts`, `web_demo` and `js_pool` disable the
deadlock check: their behaviours end where the changes are used up, the process is
gone, or every call has ended.
Symmetry is declared only where constants are interchangeable, in runs without
liveness properties.

## 5. Fairness

`provider`, `comics`, `web_demo` and `js_pool` use a fair specification; nobody is
ever obliged to make a call.

* Weak fairness of `OpenPromiseSettles`, `ShutdownContinues` and of the
  statements of a transaction: the event loop runs a queued reaction, and a
  promise of the driver settles.
* Weak fairness of `CreateSettles` and `OperationSettles`: a factory or an
  operation settles with either result. The provider has no timeout; an
  operation that never settles keeps it shutting down for ever, and this is the
  assumption that rules it out.
* Strong fairness of `Begin(r)`: the connection is taken again and again by
  others, and Kysely's mutex hands it over in order of arrival.
* Weak fairness of `Reply(r) \/ ReplyLost(r)`: a caller gets its answer or is
  gone. Which of the two happens is not constrained.

* `web_demo`: weak fairness of the requests together, of the provider's reactions,
  and of the steps after a signal: the event loop runs, requests arrive or are
  refused, answers come back. Nobody has to click, to lose a connection or to
  signal. That some request makes progress is enough: those of one tab are finite
  while it is busy.
* `js_pool`: weak fairness of the main isolate's events: continuations run, timers
  fire, spawning settles, messages are delivered. A worker is not fair at all:
  it may hang before it is ready or in any task, which is what the timers are for.

`Crash` is not fair: a run without crashes must end its requests by itself, and
one with crashes forgets them.

## 6. The proofs

`tlapm` checks every proof to the last leaf. Each theorem holds for all values
of the constants that satisfy the named assumptions: `ProviderAssumption`
(finitely many call slots, the special values are no sessions),
`ComicsAssumption` (the special values are no ids, keys or inputs; `Canonical`
is a function on the inputs), `OrdersAssumption` (writers are not readers; the
chapter's pages are distinct), `SessionsAssumption`, `PlatformsAssumption`,
`ChaptersAssumption`, `LinksAssumption` (a link's platform exists; of the
orders of some links one is the least, which finiteness of the table gives),
`ContractsAssumption` (different contents have different digests),
`PayloadAssumption` (above), `DemoAssumption` (finitely many slots and signals,
apart from each other; the special values are nothing else), `SyncAssumption`
(numbers, and `None` is no settings), `DaysAssumption` (the days sort as text
as they do as numbers, which days since 1970 do from 1997 to 2243, having five
digits), `PoolAssumption` (finitely many calls, a pool of at least one, and the
bound on the workers is out of reach). TLC evaluates each on its instance. For
every state machine `Invariance` (for the pool: `PoolInvariance`) states that
the inductive invariant `IInv` (`PoolIInv`) is one, and the theorems follow
from it.

**RuntimeProviderProofs.** `PublishedIsLive`, `AwaitedIsUnsettled` and
`ShuttingDownIsOwed` hold each other up; what is added is that
`activeOperations` is the number of calls that are operating, without which
"the last operation finalizes" does not follow. `ShutdownSparesWork` uses the
same: a shutdown path disposes of a runtime only when the counter is zero, so
nobody operates. `ShutdownsContinue` is the safety half of `ShutdownEnds` and
`CallsReturn`: a `shutdown()` that waits has a callback chained to a creation that
is still unsettled, or already queued; a stored `shutdownPromise` has one too; and
every call that waits waits for a session there is. Theorems: `TypeCorrect`,
`PublishedRuntimeIsLive`, `AwaitsEnd`, `RefusalIsTemporary`,
`ShutdownSparesOperations`, `ShutdownsAreAnswered`.

**CanonicalComicsProofs.** The invariants speak of committed tables, so the
induction must know what `COMMIT` is about to publish: `RequestOK(r)` says at
each statement by what `work` differs from `store` (nothing, a claim, a claim
and part of a comic, a whole comic with a completed row), and that only the
holder of the connection differs at all. `LedgerOK` and `OriginOK` tie rows to
comics both ways, `ToldOK` ties what was told to the rows. Lemma `OthersKeep`
carries everything known of other requests over a step that commits nothing;
`Commit` is where the work is. `Refinement` proves that `KeepsPromise` follows
from `Spec`: initial states map to initial states and each action to a `Bind`, a
`Make`, a `Tell` or a stutter. Theorems: `TypeCorrect`, `OneAnswer`,
`Durability`, `OneComic`, `ConflictsAreReal`, `NoClaimIsStranded`,
`Completeness`, `Wholeness` (the last two with `Durability`), `Refinement`.

**PageOrdersProofs.** Every writer at its items fills an order of its own with
the first items of its list (`WriterOK`, `OwnOrders`), rows are never deleted nor
their counts changed (`ReadOK`), so a reader that read the row and then a list
that `Covers` the chapter has a whole list of one request: as many items as the
row counts, and the first items of a list of that length. `AloneOK`
follows a writer without others through its statements. Who wins a race needs a
second invariant on top of the first, `RaceInv`: inserted orders have one owner
each, and unless a failure hit the writer that was ahead, a chapter with orders
either has none active and a writer about to insert, or one active order that is
complete or being filled, whose owner will be answered with it (`Ahead`,
`AnswerOK`). `LocalRace` is the step that writes no order. That at most one
order is active (`OneActive`) is the unique index, a guard of `InsertOrder`,
and only a part of the invariant. Theorems:
`TypeCorrect`, `ARaceHasAWinner`, `OrdersAreOneRequest`, `ReadersSeeTheChapter`,
`SettingAloneWorks`.

**ReaderSessionsProofs.** Lemma `StorableIsResumable` relates the updater's
checks to the resolver's; `UpdaterOK` says that an updater whose position is the
saved one knows it, and that a row once read goes only by a clear. Theorems:
`TypeCorrect`, `SavedPositionsResume`, `SkippedUpdatesWereSaved`,
`WrittenUpdatesWereSaved`, `UpdatesWereSaved` (both).

**ReaderTargetProofs.** `SortIsTotal`: whatever orders were read, `Before` is a
strict total order, so the choice does not depend on the order of the rows.
`Current(r)` says that what a resolver has read is what it would read now unless
a status has changed, `Decided(r)` that its choice is before all others; with
both, the comparator's minimum is the element the successive minima leave.
`UpdateInv` says that the status of a platform being updated is among those it
has had since it was read. Theorems: `TypeCorrect`, `FirstChapterIsCanonical`,
`NumberAlwaysDecides`, `OrderAndKindAgree`, `DeprecationMostlyStands`.

**SourceContractsProofs.** The verifier has no history to invent: the invariant
says that what a call has returned is the answer to its input, and the work is
in lemmas about the operators. A set of checks that is not empty has a first
one; no check fails exactly when each condition holds (`PackageFailuresNone`,
`PayloadFailuresNone`); a path has the digest asked for exactly when its one
content has (`OneFile`, which needs the duplicate check); and a respelt package
fails the same checks (`SameFailures`). `AcceptedWhole` puts them together for
every package; `DocumentsPinFiles` adds that two accepted packages with the same
documents hold the same bytes wherever these name a file. Theorems also:
`TypeCorrect`, `Soundness`, `IntactFirst`, `SpellingIgnored`.

**WebDemoProofs.** First the codec, for every text, date and payload:
`RoundTrip` (parsing the payload of a comic gives the comic back in every field),
`CreatedIsComic` and `CreatedIsClean` (what `execute()` makes of a valid request
is well formed, and no text of it is blank or would be trimmed),
`ClientReadsComics` (such an answer passes the client's schema and is read as it
was sent), `ParsedIsComic` (what the parser accepts, even of a payload nobody
wrote, is well formed). The proofs go through the kinds of the field table: one
lemma says what reading does to a written value of each kind.

Then the application, for any number of slots, signals, sessions, comics and
forms. Its invariant has the provider's, `ProviderProofs!IInv`, with requests
and signals as the provider's calls: each action of the demo is an action of
the provider, leaves its variables alone, frees a call whose answer is given,
or is the death of the process, after which the provider's variables are those
of an idle one. `ServedByProvider(c)` ties the two halves together: a provider
call runs for a slot that is being served, and what it replied is one of the
replies the route turns into an answer. `LedgerAgrees` says that a session's
ledger has one row for each of its comics, of different keys, each row the
codec's payload of a comic made from an accepted form; with `RoundTrip` a
replay is then the comic. `ToldIsMade` says what clients were told is in there.
`SettledRightly(c)` keeps, from the use case to the answer, which comic an
answer stands for or why it is a conflict, while other requests commit.
`DownIsIdle` says that a process that is gone serves nobody, which is why what
its death takes away is missed by none.

Two more invariants stand on `IInv`. `BusyIsARequest`: the shell is busy exactly
while it waits for a request other than its first refresh, and it never waits for
two; the induction goes over every way a request ends, the lost ones and those of a
process that dies included. `NothingHangs`: a request that is being served has an
operation to end, a promise that will settle or an answer to send, and a signal's
handler has a shutdown under way or a server it has closed; it follows from
`ServedByProvider`, the provider's `ShutdownsContinue` and `Handled`, which orders
a handler's steps. Theorems: `TypeCorrect`,
`ProviderServesDemo` (the provider's promises hold inside the application,
whenever the process dies), `RetriesAreSafe`, `AnswersAreReadable`,
`AnswersFit`, `BusyWithOneRequest`, `NothingIsStuck`.

**LegacyProofs, data synchronisation.** `Exclusive` says what the three flags are
for: at most one upload or one download, never both, and at most one call that
waits; a waiting upload excludes new downloads, which is what its poll relies on
without asking. `UploadOK(c)` follows the version and the last change of the
settings from memory to disk to the exported data. `Versions` bounds every version
by the highest the server has had, except between raising it and setting it back.
`Bounded` says that no change is anywhere before it was made, without which a
later change could not count as newer. For `NewestIsTaken` the server's files come
in, as long as no other device writes (`Newest`): there is one snapshot a day and
a later one has no lower version (`Filed`), because an upload that has removed the
snapshot of its day is the only one under way and its version is not below any
(`Sender(c)`), whatever request failed or took effect late. The latter rests on
`NotBehind`: in memory and on disk the device is at most one version behind the
server, by an upload that was stored and not confirmed; that the next upload saves
its version before it exports and again when it sets it back is what keeps the lag
on disk from growing. `FlagsAreTrue` is the other half of `Exclusive`: a flag is
set only while a call is in what it stands for, so no failure path leaves one
behind that would turn every later call away or keep it polling for ever. Theorems:
`SnapshotsAreCurrent`, `VersionsAreBacked`, `NewestSnapshotIsTaken`,
`FlagsAreFreed`, for any number of calls, snapshots of other devices, days
and edits.

**LegacyProofs, the worker pool.** `OwnAnswer` has two halves. A result ends the
call it belongs to, because task ids are never given twice: `Matched` says of
every task in a queue and every result in a port that its id has been given and
that, if a call is still pending under it, it is the call the message was for; a
timed-out id is pending no more, and its late result finds nothing. A failure ends
only calls that began before it: `Served` says that a pending task's call did not
find its worker failed when it began, and `Replacement` that a replacement is for
the last place of a full pool, with a worker started for it. `Dead` and `Unbuilt`
say who has an isolate. `LostByOverlap` alone is not inductive: with replacements
under way, how many isolates may still be lost depends on how many are to end.
`Counted` says that the lost ones, the replacements under way and the running
worker in the last place are together at most one more than the overlaps: the
replacement that ends last costs nothing, since the worker they all began with is
dead. `PoolFilled` rests on the pool being filled at once. That an idle worker is
found when there is one (`Select`) needs that a set of numbers has a least.

`CallsAreAttended` is the safety half of `CallsEnd`. `Paired` says that the calls
that wait and the pending tasks, with their timers, match one to one: each task is
that of a call that waits on this worker, under one id, and each call that waits
has its task. `Awaited` says that a worker which is not ready yet either runs, so
that its time can run out, or has left word how its start went (an isolate that
stops says so before), and that the workers `init()` closes when a later one fails
had all become ready. `Paired` also gives `EndedCallsStay`, a property of steps:
whatever ends calls (a result, a timer, `_completeAllPending`, a failed `init()`)
only ends calls that wait, so a call's answer is never replaced. Theorems:
`AnswersAreOwn`, `LossesAreOverlaps`, `CallsAreAttended`, `EndedCallsStay`, for any
number of calls and any size of the pool.

**Only model-checked.** The liveness properties `ShutdownEnds`, `CallsReturn`,
`RequestsEnd`, `BusyEnds`, `SignalStops` and `CallsEnd`: liveness under fairness is
beyond the prover. What is proved of them is that nobody waits for something that
is over or was never begun (`ShutdownsAreAnswered`, `AwaitsEnd`, `NothingIsStuck`,
`BusyWithOneRequest`, `CallsAreAttended`); that the waiting then ends under the
fairness of section 5 is TLC's part. So are the runs that find violations. All
other properties of the runs are theorems.

## 7. Where the code and its documents disagree

Each is a run TLC ends with a counterexample, and a finding in `PROJECT.json`
with the quoted line.

* `provider_shutdown_stale`: after a shutdown of an idle provider the resolved
  promise stays stored; after a later `open()` the next `shutdown()` returns it
  and closes nothing.
* `page_orders_atomic`: a failing statement of `setUserOrder` leaves an order
  with fewer items than its count, or a chapter with none active, against
  "either fully succeed or fully fail". What survives is proved: readers see a
  whole chapter or an error, and the next lone writer repairs it.
* `reader_sessions_concurrent`: of two first updates of a comic one may fail on
  the unique index, against "concurrent updates are safe".

Read in the code but not checked by a run of their own:

* `shutdown()` with operations in flight comes back at once
  (`runtime-provider.ts:141`), while a test is titled "waits for in-flight work
  during shutdown". The runtime is spared all the same: `ShutdownSparesWork` is
  proved.
* `finalizeShutdown` and a resumed `close()` clear `openPromise` although it may
  belong to a newer creation; the next `open()` then starts another
  `createRuntime()`, and the first runtime is never closed. The model has it.
* Two updates that both read `disabled` may deprecate a platform and then
  reactivate it, although `deprecated` is documented as terminal.
  `DeprecationStands` bounds this: an update that only ever saw the platform
  deprecated never does it.
* `data_sync.dart:178` says that the new version is persisted "only after the
  remote snapshot exists", but the export itself saves it first and sets it back;
  killed in between, or with a failing save, the device keeps a version the server
  never had and passes over the next snapshot of that version (`VersionIsBacked`
  leaves exactly these stretches out). And a change made while a download runs
  (line 113) or waits for its turn (line 114) has its upload turned away and is
  overwritten by the import; `SnapshotIsCurrent`, which speaks of uploads, does not
  see that.
* `resetToSourceOrder` stores the order as `user_override`
  (`sqlite-repositories.ts:1387`), while
  `docs/design/repository-interfaces.md:191` says it sets `source`.
* The aggregation of source orders in the resolver asks that the comic's source
  link be active, which `docs/design/database-schema.md:196` does not mention; the
  model follows the code, and `FirstById` does so too.

## 8. Limits of the models

* ROLLBACK succeeds, and a BEGIN that fails is the failure of the first
  statement. `runtime.close()` does not throw.
* SHA-256 is a function without collisions on canonical forms. Ids are fresh
  among the comics that exist; an id of a rolled-back transaction may come again.
* SQLite and Kysely are external: a statement is atomic, a committed transaction
  survives a crash or a close, one connection serves one caller at a time. The demo server
  uses an in-memory database, where a restart loses everything; the crash and the
  close of `CanonicalComics` are those of a database file.
* Comics, chapters, pages and links are constants where no operation of
  `runtime/core` writes them; reads of such rows are not steps of their own.
* `Promise.all` sends the queries for the chapters' links in some order;
  `ReadLinks` takes them in any. `Refuse` in `ReaderTarget` allows any refusal
  the inputs could cause without naming the inputs.
* The verifier is modelled as it is used: it never hashes the archive itself but
  compares the hash its caller computed, and never compares a mapping's payload
  with the bytes of the file at the mapping's path; both are the caller's part.
  Files no document names are accepted and vouched for by nothing. Paths of
  mapping files are relative, so that the URL check of the manifest passes them.
* Messages of core errors and diagnostics events are left out; no property is
  about them. Dates appear in `ComicPayloads` and `WebDemo` only.
* `WebDemo` has one tab and one server process. `server.close()` is taken as Node
  has it from version 19 on: it closes idle connections itself and waits for the
  others. The fields of the form are chosen when it is sent, so an edit between
  two attempts is another choice. A retry across a close and a reopening makes a
  second comic, in the new session: the ledger is gone with the old one, and the
  shell tells its user that data is not persisted. A second `server.close()` ends
  the process in the step that calls it (`CloseServer`), while Node reports its
  error only when the server has closed; the run has one signal, so this concerns
  the theorems alone, which are about safety.
* In `ReaderTarget` only `NumberDecides` is claimed when a platform changes status
  during a call; `FirstIsCanonical` and `OrderedIsRemote` are about calls with
  stable platforms.
* `ShutdownSparesWork` is about `shutdown()`. `close()` does not look at the
  operations in flight; what that may do to a transaction is in `CanonicalComics`
  (`Close`) and in `WebDemo`.
* `JsPool` leaves out `dispose()`, which nothing calls. What the code does, the
  model does: a worker whose task timed out has no pending task while it may still
  hang, so that it is chosen next; failed workers are only replaced when all have
  failed; and two overlapping replacements may lose a worker that runs on, which
  `LostByOverlap` counts.
* `DataSync` has one device in detail; another one only adds snapshots. Writing
  `appdata.json` is atomic in the model. The databases, cookies and sources in the
  archive are left out: nothing compares them. `NewestIsTaken` is claimed while
  one device writes; with two, two snapshots of one day may sort as text.
* An archive the user imports by hand (`pages/settings/app.dart:222`) is outside
  `DataSync`. That call of `importAppData` checks no version and no flag stops it
  during an upload, so it can set any version and replace the settings under an
  export: `SnapshotIsCurrent`, `VersionIsBacked` and `NewestIsTaken` are claimed
  for a device on which nobody does that. With `disableSyncFields` set the export
  reads `syncdata.json`, which `saveData` writes in the same step as
  `appdata.json`; the model has one `disk` for both, which differ only in
  fields that are not to be synchronised.

## 9. Plan

Done, in this order: `RuntimeProvider`, `IdempotentCreation` and
`CanonicalComics`, `PageOrders`, `ReaderSessions`, `SourcePlatforms` and
`ReaderTarget`, `SourceContracts`, `ComicPayloads` and `WebDemo`, `JsPool`,
`DataSync`.

Next, most important first:

1. **WebDemo, panels**: the first refresh runs outside the busy state and may
   overwrite the summary of an operation that came later
   (`runtime-shell.tsx:44`); needs what the panels show in the model.
2. **Downloads**: pause and resume of an image task, and the block downloader
   with its status file and crashes. Properties: every page once, one loop per
   task, a complete download is complete on disk.
3. **LifecycleMarker**: heartbeat, fatal error, clean shutdown, write gate.
   Properties: the next start classifies the last exit correctly; the gate
   drains.
4. The cache manager (rows and files), then the channel of follow updates
   (termination of all consumers).

Each gets its inductive invariant written and checked by TLC before it is
proved. The set of runs is kept small enough to be run as a whole: a new run
replaces a question of less interest.
