---------------------------- MODULE ReaderSessions ----------------------------
(***************************************************************************)
(* The saved reader position of one comic: UpdateReaderPosition, the       *)
(* session repository it writes with, and how ResolveReaderTarget resumes  *)
(* from it (runtime/core/src/application, runtime/core/src/repositories).  *)
(*                                                                         *)
(* None of it runs in a transaction.  The comic, its chapters and pages do *)
(* not change here (no operation of runtime/core writes them), so what a   *)
(* call reads of them is read at once; only reads of the session are steps.*)
(***************************************************************************)
EXTENDS Naturals, FiniteSets

CONSTANTS
  Updaters,       \* calls of UpdateReaderPosition
  Resumers,       \* calls of ResolveReaderTarget without a chapter
  ComicChapters,  \* the chapters of the comic
  Pages,          \* the rows of the pages table: id, chapter and index
  Positions,      \* the positions callers ask for: chapter, index and page, if any
  None

ASSUME SessionsAssumption ==
  /\ Updaters \cap Resumers = {}
  /\ None \notin Positions
  /\ \A p \in Positions : DOMAIN p = {"chapter", "index", "page"}

VARIABLES
  session,  \* the position in the comic's row of reader_sessions, or None: no row
  pc,       \* pc[c]: the statement call c is about to run
  wants,    \* wants[u]: the position updater u was given
  result,   \* result[c]: what call c returned, and the cause of an error
  saved,    \* saved[u]: session has been wants[u] at some moment of the call
  cleared   \* cleared[u]: the session has been cleared at some moment of the call

vars == <<session, pc, wants, result, saved, cleared>>

Calls == Updaters \cup Resumers

Running(c) == pc[c] \notin {"idle", "done"}

Ok(code) == [code |-> code, cause |-> "none"]
Failed(code, cause) == [code |-> code, cause |-> cause]
NoResult == Ok("none")

Init ==
  /\ session = None
  /\ pc = [c \in Calls |-> "idle"]
  /\ wants = [u \in Updaters |-> None]
  /\ result = [c \in Calls |-> NoResult]
  /\ saved = [u \in Updaters |-> FALSE]
  /\ cleared = [u \in Updaters |-> FALSE]

Goto(c, p) == pc' = [pc EXCEPT ![c] = p]

Return(c, value) ==
  /\ Goto(c, "done")
  /\ result' = [result EXCEPT ![c] = value]

\* The session becomes s, while some updaters are at work.
Save(s) ==
  /\ session' = s
  /\ saved' = [u \in Updaters |-> saved[u] \/ (Running(u) /\ s = wants[u])]
  /\ cleared' = [u \in Updaters |-> cleared[u] \/ (Running(u) /\ s = None)]

Keep == UNCHANGED <<session, saved, cleared>>

-----------------------------------------------------------------------------
(* UpdateReaderPosition. *)

\* The chapter is one of the comic, has a page with the index, and the page given, if
\* any, is that page.
Storable(p) ==
  /\ p.chapter \in ComicChapters
  /\ \E page \in Pages : page.chapter = p.chapter /\ page.index = p.index
  /\ p.page # None =>
       \E page \in Pages : page.id = p.page /\ page.chapter = p.chapter /\ page.index = p.index

Refuse(u) ==
  /\ pc[u] = "idle"
  /\ \E p \in Positions : ~Storable(p)
  /\ Return(u, Failed("READER_INVALID_POSITION", "none"))
  /\ UNCHANGED wants
  /\ Keep

\* Mutant: a page given with the position is taken on trust.
Start_TrustsPage(u) ==
  /\ pc[u] = "idle"
  /\ \E p \in Positions :
        /\ Storable([p EXCEPT !.page = None])
        /\ wants' = [wants EXCEPT ![u] = p]
        /\ saved' = [saved EXCEPT ![u] = session = p]
  /\ Goto(u, "compare")
  /\ UNCHANGED <<session, result, cleared>>

Start(u) ==
  /\ pc[u] = "idle"
  /\ \E p \in Positions :
        /\ Storable(p)
        /\ wants' = [wants EXCEPT ![u] = p]
        /\ saved' = [saved EXCEPT ![u] = session = p]
  /\ Goto(u, "compare")
  /\ UNCHANGED <<session, result, cleared>>

\* Mutant: the page index is not compared.
Unchanged_IgnoresIndex(u) ==
  /\ session # None
  /\ session.chapter = wants[u].chapter
  /\ session.page = wants[u].page

Unchanged(u) == session = wants[u]

\* The use case reads the session, and the repository reads it again.
Skip(u) ==
  /\ pc[u] \in {"compare", "upsert"}
  /\ Unchanged(u)
  /\ Return(u, Ok("skipped_unchanged"))
  /\ UNCHANGED wants
  /\ Keep

Differs(u) ==
  /\ pc[u] = "compare"
  /\ ~Unchanged(u)
  /\ Goto(u, "upsert")
  /\ UNCHANGED <<wants, result>>
  /\ Keep

ChooseWrite(u) ==
  /\ pc[u] = "upsert"
  /\ ~Unchanged(u)
  /\ Goto(u, IF session = None THEN "insert" ELSE "update")
  /\ UNCHANGED <<wants, result>>
  /\ Keep

\* Mutant: the update leaves the page index as it was.
Update_KeepsIndex(u) ==
  /\ pc[u] = "update"
  /\ IF session = None THEN Keep ELSE Save([wants[u] EXCEPT !.index = session.index])
  /\ Return(u, Ok("written"))
  /\ UNCHANGED wants

\* Mutant: the update only applies to a row that still is in the same chapter.
Update_IfSameChapter(u) ==
  /\ pc[u] = "update"
  /\ IF session = None \/ session.chapter # wants[u].chapter THEN Keep ELSE Save(wants[u])
  /\ Return(u, Ok("written"))
  /\ UNCHANGED wants

\* The update changes the row, if the comic still has one.
Update(u) ==
  /\ pc[u] = "update"
  /\ IF session = None THEN Keep ELSE Save(wants[u])
  /\ Return(u, Ok("written"))
  /\ UNCHANGED wants

Insert(u) ==
  /\ pc[u] = "insert"
  /\ session = None
  /\ Save(wants[u])
  /\ Return(u, Ok("written"))
  /\ UNCHANGED wants

\* A comic has one row: the insert of a second one fails.
InsertRefused(u) ==
  /\ pc[u] = "insert"
  /\ session # None
  /\ Return(u, Failed("INTERNAL_ERROR", "unique"))
  /\ UNCHANGED wants
  /\ Keep

-----------------------------------------------------------------------------
(* ResolveReaderTarget, and clear. *)

StartResume(r) ==
  /\ pc[r] = "idle"
  /\ Goto(r, "resume")
  /\ UNCHANGED <<wants, result>>
  /\ Keep

\* Why a saved position is not resumed from, or "none".
Rejection(p) ==
  LET there == {page \in Pages : page.chapter = p.chapter /\ page.index = p.index}
  IN  IF p.chapter \notin ComicChapters THEN "saved_session_invalid_chapter"
      ELSE IF there = {} THEN "saved_session_invalid_page_index"
      ELSE IF p.page # None /\ \A page \in there : page.id # p.page
           THEN "saved_session_page_mismatch"
      ELSE "none"

\* Without a saved session the first chapter is opened, at its first page.
ResumeFirst(r) ==
  /\ pc[r] = "resume"
  /\ session = None
  /\ Return(r, Ok("first_canonical_chapter"))
  /\ UNCHANGED wants
  /\ Keep

\* A saved session that names no page of the comic is refused, never repaired.
Resume(r) ==
  /\ pc[r] = "resume"
  /\ session # None
  /\ Return(r, IF Rejection(session) = "none" THEN Ok("saved_session")
               ELSE Failed("READER_UNRESOLVED_LOCAL_TARGET", Rejection(session)))
  /\ UNCHANGED wants
  /\ Keep

Clear ==
  /\ Save(None)
  /\ UNCHANGED <<pc, wants, result>>

-----------------------------------------------------------------------------
(* Callers, failures, restarts. *)

Over(C) ==
  /\ pc' = [c \in Calls |-> IF c \in C THEN "idle" ELSE pc[c]]
  /\ wants' = [u \in Updaters |-> IF u \in C THEN None ELSE wants[u]]
  /\ result' = [c \in Calls |-> IF c \in C THEN NoResult ELSE result[c]]
  /\ saved' = [u \in Updaters |-> u \notin C /\ saved[u]]
  /\ cleared' = [u \in Updaters |-> u \notin C /\ cleared[u]]
  /\ UNCHANGED session

Returned(c) == pc[c] = "done" /\ Over({c})

\* A statement throws: the repository turns it into an error.
StatementFails(c) ==
  /\ Running(c)
  /\ Return(c, Failed("INTERNAL_ERROR", "statement"))
  /\ UNCHANGED wants
  /\ Keep

Crash == Over(Calls)

UpdateStep(u) ==
  \/ Refuse(u) \/ Start(u) \/ Skip(u) \/ Differs(u) \/ ChooseWrite(u)
  \/ Update(u) \/ Insert(u) \/ InsertRefused(u)

ResumeStep(r) == StartResume(r) \/ ResumeFirst(r) \/ Resume(r)

Next ==
  \/ \E u \in Updaters : UpdateStep(u)
  \/ \E r \in Resumers : ResumeStep(r)
  \/ \E c \in Calls : Returned(c) \/ StatementFails(c)
  \/ Clear
  \/ Crash

Spec == Init /\ [][Next]_vars

-----------------------------------------------------------------------------
(* Properties. *)

Codes == {"none", "skipped_unchanged", "written", "saved_session", "first_canonical_chapter",
          "READER_INVALID_POSITION", "READER_UNRESOLVED_LOCAL_TARGET", "INTERNAL_ERROR"}
Causes == {"none", "unique", "statement", "saved_session_invalid_chapter",
           "saved_session_invalid_page_index", "saved_session_page_mismatch"}

\* Every variable has its type; the saved position is one that was asked for.
TypeOK ==
  /\ session \in Positions \cup {None}
  /\ pc \in [Calls -> {"idle", "compare", "upsert", "update", "insert", "resume", "done"}]
  /\ wants \in [Updaters -> Positions \cup {None}]
  /\ result \in [Calls -> [code : Codes, cause : Causes]]
  /\ saved \in [Updaters -> BOOLEAN]
  /\ cleared \in [Updaters -> BOOLEAN]

\* Whatever updates and clears interleave, a saved position is one the resolver accepts:
\* resuming never answers READER_UNRESOLVED_LOCAL_TARGET for a session this code saved.
SavedIsResumable ==
  /\ session # None => Rejection(session) = "none"
  /\ \A r \in Resumers : result[r].code # "READER_UNRESOLVED_LOCAL_TARGET"

\* An update that answers skipped_unchanged had its position saved at some moment of the
\* call, although it compares what it read with a session others are changing.
SkippedWasSaved ==
  \A u \in Updaters : result[u].code = "skipped_unchanged" => saved[u]

\* An update that answers written, with no clear beside it, had its position saved at
\* some moment of the call, whatever other updates wrote between its reads and its write.
WrittenWasSaved ==
  \A u \in Updaters : result[u].code = "written" /\ ~cleared[u] => saved[u]

\* A successful answer of an update is true: without a clear beside it, the position it
\* was called with was the saved one at some moment of the call, written or skipped.
UpdatesTakeEffect == SkippedWasSaved /\ WrittenWasSaved

\* docs/design/use-cases.md: last write wins, concurrent updates are safe; so an update
\* of a valid position only fails when the database does.
ConcurrentUpdatesAreSafe ==
  \A u \in Updaters : result[u].code = "INTERNAL_ERROR" => result[u].cause = "statement"
=============================================================================
