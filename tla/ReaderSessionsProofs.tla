------------------------- MODULE ReaderSessionsProofs -------------------------
(***************************************************************************)
(* Proofs about ReaderSessions, for any number of calls, positions and     *)
(* pages: the inductive invariant and the module's invariants.             *)
(***************************************************************************)
EXTENDS ReaderSessions, TLAPS

USE SessionsAssumption

-----------------------------------------------------------------------------
(* The inductive invariant. *)

\* A running updater wants a position it has validated, knows when it was the saved one,
\* and once it has decided to update, the row it has read only goes by a clear.
UpdaterOK(u) ==
  /\ Running(u) => /\ wants[u] \in Positions
                   /\ Storable(wants[u])
                   /\ session = wants[u] => saved[u]
  /\ pc[u] = "update" /\ ~cleared[u] => session # None
  /\ result[u].code = "skipped_unchanged" => saved[u]
  /\ result[u].code = "written" /\ ~cleared[u] => saved[u]

\* Results are only there when a call has returned.
ResultOK(c) ==
  /\ pc[c] # "done" => result[c] = NoResult
  /\ result[c].code # "READER_UNRESOLVED_LOCAL_TARGET"
  /\ c \in Updaters => pc[c] # "resume"

IInv ==
  /\ TypeOK
  /\ session # None => Storable(session)
  /\ \A u \in Updaters : UpdaterOK(u)
  /\ \A c \in Calls : ResultOK(c)

-----------------------------------------------------------------------------
(* What the use case stores, the resolver accepts. *)

LEMMA StorableIsResumable ==
  ASSUME NEW p \in Positions, Storable(p)
  PROVE  Rejection(p) = "none"
PROOF
<1> DEFINE there == {page \in Pages : page.chapter = p.chapter /\ page.index = p.index}
<1>1. p.chapter \in ComicChapters /\ there # {}
  BY DEF Storable
<1>2. ~(p.page # None /\ \A page \in there : page.id # p.page)
  BY DEF Storable
<1> QED
  BY <1>1, <1>2 DEF Rejection

LEMMA InitInvariant == Init => IInv
PROOF
  BY DEF Init, IInv, TypeOK, UpdaterOK, ResultOK, Running, NoResult, Ok, Codes, Causes, Calls

-----------------------------------------------------------------------------
(* The steps that leave the session alone. *)

\* A step of one call that saves nothing keeps the invariant, if it leaves the call right.
LEMMA LocalStep ==
  ASSUME IInv, TypeOK', session' = session, NEW c \in Calls,
         \A d \in Calls \ {c} : pc'[d] = pc[d] /\ result'[d] = result[d],
         \A u \in Updaters \ {c} :
            wants'[u] = wants[u] /\ saved'[u] = saved[u] /\ cleared'[u] = cleared[u],
         ResultOK(c)', c \in Updaters => UpdaterOK(c)'
  PROVE  IInv'
PROOF
<1>1. session' # None => Storable(session)'
  BY DEF IInv, Storable
<1>2. ASSUME NEW u \in Updaters \ {c} PROVE UpdaterOK(u)'
  BY DEF IInv, UpdaterOK, Running, Calls, Storable
<1>3. \A d \in Calls : ResultOK(d)'
  BY DEF IInv, ResultOK
<1> QED
  BY <1>1, <1>2, <1>3 DEF IInv

\* A call that returns a result that claims nothing.
LEMMA ReturnKeeps ==
  ASSUME IInv, NEW c \in Calls, pc[c] # "done",
         NEW value \in [code : Codes, cause : Causes],
         value.code \notin {"skipped_unchanged", "written", "READER_UNRESOLVED_LOCAL_TARGET"},
         Return(c, value), UNCHANGED wants, Keep
  PROVE  IInv'
PROOF
<1> USE DEF Return, Goto, Keep
<1>1. TypeOK'
  BY DEF IInv, TypeOK
<1>2. pc'[c] = "done" /\ result'[c] = value
  BY DEF IInv, TypeOK
<1>3. \A d \in Calls \ {c} : pc'[d] = pc[d] /\ result'[d] = result[d]
  BY DEF IInv, TypeOK
<1>4. ResultOK(c)' /\ (c \in Updaters => UpdaterOK(c)')
  BY <1>2 DEF ResultOK, UpdaterOK, Running
<1> QED
  BY <1>1, <1>3, <1>4, LocalStep

LEMMA StartKeeps ==
  ASSUME IInv, NEW u \in Updaters, Start(u)
  PROVE  IInv'
PROOF
<1> USE DEF Start, Goto
<1>1. PICK p \in Positions : /\ Storable(p)
                             /\ wants' = [wants EXCEPT ![u] = p]
                             /\ saved' = [saved EXCEPT ![u] = session = p]
  OBVIOUS
<1>2. TypeOK' /\ u \in Calls
  BY <1>1 DEF IInv, TypeOK, Calls
<1>3. pc'[u] = "compare" /\ wants'[u] = p /\ (saved'[u] <=> session = p) /\ result[u] = NoResult
  BY <1>1 DEF IInv, TypeOK, ResultOK, Calls
<1>4. \A d \in Calls \ {u} : pc'[d] = pc[d]
  BY DEF IInv, TypeOK
<1>5. \A v \in Updaters \ {u} : wants'[v] = wants[v] /\ saved'[v] = saved[v]
  BY <1>1 DEF IInv, TypeOK
<1>6. ResultOK(u)'
  BY <1>2, <1>3 DEF IInv, ResultOK, NoResult, Ok
<1>7. UpdaterOK(u)'
  BY <1>1, <1>3 DEF UpdaterOK, Running, Storable, NoResult, Ok
<1> QED
  BY <1>2, <1>4, <1>5, <1>6, <1>7, LocalStep

LEMMA SkipKeeps ==
  ASSUME IInv, NEW u \in Updaters, Skip(u)
  PROVE  IInv'
PROOF
<1> USE DEF Skip, Return, Goto, Keep, Ok
<1>1. TypeOK' /\ u \in Calls
  BY DEF IInv, TypeOK, Calls, Codes, Causes
<1>2. pc'[u] = "done" /\ result'[u].code = "skipped_unchanged" /\ Running(u)
  BY <1>1 DEF IInv, TypeOK, Running
<1>3. \A d \in Calls \ {u} : pc'[d] = pc[d] /\ result'[d] = result[d]
  BY DEF IInv, TypeOK
<1>4. saved'[u]
  BY <1>2 DEF IInv, UpdaterOK, Unchanged
<1>5. ResultOK(u)' /\ UpdaterOK(u)'
  BY <1>2, <1>4 DEF ResultOK, UpdaterOK, Running
<1> QED
  BY <1>1, <1>3, <1>5, LocalStep

LEMMA DecideKeeps ==
  ASSUME IInv, NEW u \in Updaters, Differs(u) \/ ChooseWrite(u)
  PROVE  IInv'
PROOF
<1> USE DEF Differs, ChooseWrite, Goto, Keep
<1>1. TypeOK' /\ u \in Calls
  BY DEF IInv, TypeOK, Calls
<1>2. Running(u) /\ pc'[u] \in {"upsert", "insert", "update"} /\ (pc'[u] = "update" => session # None)
  BY <1>1 DEF IInv, TypeOK, Running
<1>3. \A d \in Calls \ {u} : pc'[d] = pc[d]
  BY DEF IInv, TypeOK
<1>4. ResultOK(u)'
  BY <1>1, <1>2 DEF IInv, ResultOK, Running
<1>5. UpdaterOK(u)'
  BY <1>1, <1>2 DEF IInv, UpdaterOK, Running, Storable
<1> QED
  BY <1>1, <1>3, <1>4, <1>5, LocalStep

LEMMA StartResumeKeeps ==
  ASSUME IInv, NEW r \in Resumers, StartResume(r)
  PROVE  IInv'
PROOF
<1> USE DEF StartResume, Goto, Keep
<1>1. TypeOK' /\ r \in Calls /\ r \notin Updaters
  BY DEF IInv, TypeOK, Calls
<1>2. \A d \in Calls \ {r} : pc'[d] = pc[d]
  BY DEF IInv, TypeOK
<1>3. ResultOK(r)'
  BY <1>1 DEF IInv, TypeOK, ResultOK
<1> QED
  BY <1>1, <1>2, <1>3, LocalStep

\* A saved position is resumed from, never refused.
LEMMA ResumeKeeps ==
  ASSUME IInv, NEW r \in Resumers, Resume(r)
  PROVE  IInv'
PROOF
<1>1. Rejection(session) = "none"
  BY StorableIsResumable DEF IInv, TypeOK, Resume
<1>2. Return(r, Ok("saved_session")) /\ Ok("saved_session") \in [code : Codes, cause : Causes]
  BY <1>1 DEF Resume, Ok, Codes, Causes
<1> QED
  BY <1>2, ReturnKeeps DEF Resume, Ok, Calls

-----------------------------------------------------------------------------
(* The steps that save or clear. *)

\* Saving s keeps what every updater but those in C knows.
LEMMA SaveKeeps ==
  ASSUME IInv, NEW s \in Positions \cup {None}, Save(s), wants' = wants,
         NEW C \in SUBSET Updaters,
         \A c \in Calls \ C : pc'[c] = pc[c] /\ result'[c] = result[c]
  PROVE  \A u \in Updaters \ C : UpdaterOK(u)'
PROOF
<1> SUFFICES ASSUME NEW u \in Updaters \ C PROVE UpdaterOK(u)'
  OBVIOUS
<1> USE DEF Save
<1>1. pc'[u] = pc[u] /\ result'[u] = result[u] /\ (Running(u)' <=> Running(u))
  BY DEF Running, Calls
<1>2. saved'[u] <=> (saved[u] \/ (Running(u) /\ s = wants[u]))
  OBVIOUS
<1>3. cleared'[u] <=> (cleared[u] \/ (Running(u) /\ s = None))
  OBVIOUS
<1>4. result[u].code = "written" => ~Running(u)
  BY DEF IInv, ResultOK, Running, NoResult, Ok, Calls
<1>5. UpdaterOK(u)
  BY DEF IInv
<1>6. Storable(wants[u])' <=> Storable(wants[u])
  BY DEF Storable
<1>7. pc[u] = "update" => Running(u)
  BY DEF Running
<1> QED
  BY <1>1, <1>2, <1>3, <1>4, <1>5, <1>6, <1>7 DEF UpdaterOK

LEMMA WriteKeeps ==
  ASSUME IInv, NEW u \in Updaters, Running(u), Save(wants[u]), Return(u, Ok("written")),
         UNCHANGED wants
  PROVE  IInv'
PROOF
<1> USE DEF Return, Goto, Ok
<1>1. u \in Calls /\ wants[u] \in Positions /\ Storable(wants[u])
  BY DEF IInv, UpdaterOK, Calls
<1>2. TypeOK'
  BY <1>1 DEF IInv, TypeOK, Save, Codes, Causes
<1>3. pc'[u] = "done" /\ result'[u].code = "written" /\ saved'[u]
  BY <1>1 DEF IInv, TypeOK, Save
<1>4. \A d \in Calls \ {u} : pc'[d] = pc[d] /\ result'[d] = result[d]
  BY DEF IInv, TypeOK
<1>5. session' # None => Storable(session)'
  BY <1>1 DEF Save, Storable
<1>6. \A v \in Updaters \ {u} : UpdaterOK(v)'
  BY <1>1, <1>4, SaveKeeps
<1>7. UpdaterOK(u)'
  BY <1>3 DEF UpdaterOK, Running
<1>8. \A d \in Calls : ResultOK(d)'
  BY <1>3, <1>4 DEF IInv, ResultOK
<1> QED
  BY <1>2, <1>5, <1>6, <1>7, <1>8 DEF IInv

LEMMA UpdateKeeps ==
  ASSUME IInv, NEW u \in Updaters, Update(u)
  PROVE  IInv'
PROOF
<1>1. Running(u) /\ u \in Calls /\ pc[u] = "update"
  BY DEF Update, Running, Calls
<1>2. CASE session # None
  BY <1>1, <1>2, WriteKeeps DEF Update
<1>3. CASE session = None
  <2> USE DEF Update, Return, Goto, Keep, Ok
  <2>1. TypeOK'
    BY <1>3 DEF IInv, TypeOK, Codes, Causes
  <2>2. pc'[u] = "done" /\ result'[u].code = "written" /\ cleared'[u]
    BY <1>1, <1>3 DEF IInv, TypeOK, UpdaterOK
  <2>3. \A d \in Calls \ {u} : pc'[d] = pc[d] /\ result'[d] = result[d]
    BY DEF IInv, TypeOK
  <2>4. ResultOK(u)' /\ UpdaterOK(u)'
    BY <2>2 DEF ResultOK, UpdaterOK, Running
  <2> QED
    BY <1>1, <1>3, <2>1, <2>3, <2>4, LocalStep
<1> QED
  BY <1>2, <1>3

LEMMA ClearKeeps == IInv /\ Clear => IInv'
PROOF
<1> SUFFICES ASSUME IInv, Clear PROVE IInv'
  OBVIOUS
<1>1. TypeOK'
  BY DEF IInv, TypeOK, Clear, Save
<1>2. \A u \in Updaters : UpdaterOK(u)'
  BY SaveKeeps DEF Clear
<1>3. \A c \in Calls : ResultOK(c)'
  BY DEF IInv, ResultOK, Clear
<1> QED
  BY <1>1, <1>2, <1>3 DEF IInv, Clear, Save

LEMMA OverKeeps ==
  ASSUME IInv, NEW C \in SUBSET Calls, Over(C)
  PROVE  IInv'
PROOF
<1> USE DEF Over
<1>1. TypeOK'
  BY DEF IInv, TypeOK, NoResult, Ok, Codes, Causes
<1>2. session' # None => Storable(session)'
  BY DEF IInv, Storable
<1>3. ASSUME NEW u \in Updaters PROVE UpdaterOK(u)'
  BY DEF IInv, UpdaterOK, Running, Storable, NoResult, Ok, Calls
<1>4. ASSUME NEW c \in Calls PROVE ResultOK(c)'
  BY DEF IInv, ResultOK, NoResult, Ok
<1> QED
  BY <1>1, <1>2, <1>3, <1>4 DEF IInv

-----------------------------------------------------------------------------
(* The theorems. *)

LEMMA NextInvariant == IInv /\ [Next]_vars => IInv'
PROOF
<1> SUFFICES ASSUME IInv, [Next]_vars PROVE IInv'
  OBVIOUS
<1> DEFINE Values == [code : Codes, cause : Causes]
<1>1. /\ Failed("READER_INVALID_POSITION", "none") \in Values
      /\ Failed("INTERNAL_ERROR", "unique") \in Values
      /\ Failed("INTERNAL_ERROR", "statement") \in Values
      /\ Ok("first_canonical_chapter") \in Values
  BY DEF Failed, Ok, Codes, Causes
<1>2. ASSUME NEW u \in Updaters, Refuse(u) PROVE IInv'
  BY <1>1, <1>2, ReturnKeeps DEF Refuse, Failed, Calls
<1>3. ASSUME NEW u \in Updaters, Insert(u) PROVE IInv'
  BY <1>3, WriteKeeps DEF Insert, Running
<1>4. ASSUME NEW u \in Updaters, InsertRefused(u) PROVE IInv'
  BY <1>1, <1>4, ReturnKeeps DEF InsertRefused, Failed, Calls
<1>5. ASSUME NEW u \in Updaters, UpdateStep(u) PROVE IInv'
  BY <1>2, <1>3, <1>4, <1>5, StartKeeps, SkipKeeps, DecideKeeps, UpdateKeeps DEF UpdateStep
<1>6. ASSUME NEW r \in Resumers, ResumeFirst(r) PROVE IInv'
  BY <1>1, <1>6, ReturnKeeps DEF ResumeFirst, Ok, Calls
<1>7. ASSUME NEW r \in Resumers, ResumeStep(r) PROVE IInv'
  BY <1>6, <1>7, StartResumeKeeps, ResumeKeeps DEF ResumeStep
<1>8. ASSUME NEW c \in Calls, StatementFails(c) PROVE IInv'
  BY <1>1, <1>8, ReturnKeeps DEF StatementFails, Failed, Running
<1>9. ASSUME NEW c \in Calls, Returned(c) PROVE IInv'
  BY <1>9, OverKeeps DEF Returned
<1>10. CASE Crash
  BY <1>10, OverKeeps DEF Crash
<1>11. CASE UNCHANGED vars
  BY <1>11 DEF vars, IInv, TypeOK, UpdaterOK, ResultOK, Running, Storable
<1> QED
  BY <1>5, <1>7, <1>8, <1>9, <1>10, <1>11, ClearKeeps DEF Next

\* The inductive invariant holds in every state of every behaviour: a running updater has
\* a validated position, and a row it has decided to update only goes by a clear.
THEOREM Invariance == Spec => []IInv
PROOF
<1>1. IInv /\ [Next]_vars => IInv'
  BY NextInvariant
<1> QED
  BY InitInvariant, <1>1, PTL DEF Spec

\* Every variable has its type.
THEOREM TypeCorrect == Spec => []TypeOK
PROOF
<1>1. IInv => TypeOK
  BY DEF IInv
<1> QED
  BY Invariance, <1>1, PTL

\* What UpdateReaderPosition saves, ResolveReaderTarget resumes from.
THEOREM SavedPositionsResume == Spec => []SavedIsResumable
PROOF
<1>1. IInv => SavedIsResumable
  BY StorableIsResumable DEF IInv, TypeOK, SavedIsResumable, ResultOK, Calls
<1> QED
  BY Invariance, <1>1, PTL

\* A skipped update was not needed at some moment of the call.
THEOREM SkippedUpdatesWereSaved == Spec => []SkippedWasSaved
PROOF
<1>1. IInv => SkippedWasSaved
  BY DEF IInv, UpdaterOK, SkippedWasSaved
<1> QED
  BY Invariance, <1>1, PTL

\* A written position was the saved one at some moment of the call.
THEOREM WrittenUpdatesWereSaved == Spec => []WrittenWasSaved
PROOF
<1>1. IInv => WrittenWasSaved
  BY DEF IInv, UpdaterOK, WrittenWasSaved
<1> QED
  BY Invariance, <1>1, PTL

\* An update that answers success has had its effect.
THEOREM UpdatesWereSaved == Spec => []UpdatesTakeEffect
PROOF
BY SkippedUpdatesWereSaved, WrittenUpdatesWereSaved, PTL DEF UpdatesTakeEffect
=============================================================================
