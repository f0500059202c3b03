----------------------------- MODULE ReaderTarget -----------------------------
(***************************************************************************)
(* Which chapter ResolveReaderTarget opens for a comic without a saved     *)
(* session (runtime/core/src/application/resolve-reader-target.ts), while  *)
(* the platforms its sources are on change status.                         *)
(*                                                                         *)
(* The chapters are sorted by number, by the least source order of their   *)
(* active links, by age and by id.  The links of each chapter are read by  *)
(* a query of its own, and those of the chosen chapter once more for the   *)
(* kind of source.  Chapters and links do not change here (no operation of *)
(* runtime/core writes them); the status of a platform does.               *)
(***************************************************************************)
EXTENDS SourcePlatforms

CONSTANTS
  Resolvers,      \* calls of ResolveReaderTarget
  ComicChapters,  \* the ids of the comic's chapters, as numbers in the order of the ids
  Number,         \* Number[c]: the chapter number, or None
  Created,        \* Created[c]: the time the chapter's row was made
  Links           \* rows of chapter_source_links joined with their source_links

ASSUME ChaptersAssumption ==
  /\ None \notin Int
  /\ ComicChapters \subseteq Int
  /\ Number \in [ComicChapters -> Int \cup {None}]
  /\ Created \in [ComicChapters -> Int]

\* The platform of a link is a row (a foreign key), and of finitely many orders one is
\* the least.
ASSUME LinksAssumption ==
  /\ Links \subseteq [chapter : ComicChapters, platform : Platforms, order : Int \cup {None},
                      status : {"active", "inactive", "stale"},
                      parent : {"active", "candidate", "rejected", "stale"}]
  /\ \A S \in SUBSET ({l.order : l \in Links} \ {None}) :
       S # {} => \E m \in S : \A n \in S : m <= n

VARIABLES
  pc,      \* pc[r]: what resolver r is about to read
  known,   \* known[r]: the chapters whose links r has read
  order,   \* order[r][c]: the source order r has found for chapter c, or None
  chosen,  \* chosen[r]: the chapter r has picked, or None
  result,  \* result[r]: what r returned
  stable   \* stable[r]: no platform has changed status since r started

resolverVars == <<pc, known, order, chosen, result, stable>>
vars == <<platformVars, resolverVars>>

NoResult == [code |-> "none", reason |-> "none", kind |-> "none"]
Target(reason, kind) == [code |-> "ok", reason |-> reason, kind |-> kind]
Refused(code, reason) == [code |-> code, reason |-> reason, kind |-> "none"]

Unread == [c \in ComicChapters |-> None]

Init ==
  /\ InitPlatforms
  /\ pc = [r \in Resolvers |-> "idle"]
  /\ known = [r \in Resolvers |-> {}]
  /\ order = [r \in Resolvers |-> Unread]
  /\ chosen = [r \in Resolvers |-> None]
  /\ result = [r \in Resolvers |-> NoResult]
  /\ stable = [r \in Resolvers |-> TRUE]

-----------------------------------------------------------------------------
(* What is read of the links, and the order of the chapters. *)

ActiveLinks(c) ==
  {l \in Links : /\ l.chapter = c
                 /\ l.status = "active"
                 /\ l.parent = "active"
                 /\ status[l.platform] = "active"}

\* Mutant: the status of the comic's source link is not looked at.
SourceOrder_AnyParent(c) ==
  LET orders == {l.order : l \in {k \in Links : /\ k.chapter = c
                                                /\ k.status = "active"
                                                /\ status[k.platform] = "active"}} \ {None}
  IN  IF orders = {} THEN None ELSE CHOOSE m \in orders : \A n \in orders : m <= n

SourceOrder(c) ==
  LET orders == {l.order : l \in ActiveLinks(c)} \ {None}
  IN  IF orders = {} THEN None ELSE CHOOSE m \in orders : \A n \in orders : m <= n

\* What is absent comes last.
NullableLess(a, b) == a # None /\ (b # None => a < b)

\* Mutant: the source order goes before the number.
Before_OrderFirst(o, c, d) ==
  IF o[c] # o[d] THEN NullableLess(o[c], o[d])
  ELSE IF Number[c] # Number[d] THEN NullableLess(Number[c], Number[d])
  ELSE IF Created[c] # Created[d] THEN Created[c] < Created[d]
  ELSE c < d

\* Chapter c is sorted before chapter d, with the source orders o.
Before(o, c, d) ==
  IF Number[c] # Number[d] THEN NullableLess(Number[c], Number[d])
  ELSE IF o[c] # o[d] THEN NullableLess(o[c], o[d])
  ELSE IF Created[c] # Created[d] THEN Created[c] < Created[d]
  ELSE c < d

-----------------------------------------------------------------------------
(* ResolveReaderTarget. *)

Goto(r, p) == pc' = [pc EXCEPT ![r] = p]

Return(r, value) ==
  /\ Goto(r, "done")
  /\ result' = [result EXCEPT ![r] = value]

\* A requested chapter of the comic is opened as it is.
StartRequested(r) ==
  /\ pc[r] = "idle"
  /\ \E c \in ComicChapters : chosen' = [chosen EXCEPT ![r] = c]
  /\ Goto(r, "kind")
  /\ UNCHANGED <<known, order, result, stable>>

\* There is no such comic, the chapter is not one of it, or the comic has no chapters.
Refuse(r) ==
  /\ pc[r] = "idle"
  /\ \/ Return(r, Refused("NOT_FOUND", "none"))
     \/ \E reason \in {"requested_chapter_missing", "missing_local_chapter_id"} :
          Return(r, Refused("READER_UNRESOLVED_LOCAL_TARGET", reason))
  /\ UNCHANGED <<known, order, chosen, stable>>

StartFirst(r) ==
  /\ pc[r] = "idle"
  /\ ComicChapters # {}
  /\ Goto(r, "links")
  /\ UNCHANGED <<known, order, chosen, result, stable>>

\* The queries of all chapters are sent at once; other calls run between them.
ReadLinks(r) ==
  /\ pc[r] = "links"
  /\ \E c \in ComicChapters \ known[r] :
        /\ known' = [known EXCEPT ![r] = @ \cup {c}]
        /\ order' = [order EXCEPT ![r] = [@ EXCEPT ![c] = SourceOrder(c)]]
  /\ UNCHANGED <<pc, chosen, result, stable>>

Choose(r) ==
  /\ pc[r] = "links"
  /\ known[r] = ComicChapters
  /\ \E c \in ComicChapters :
        /\ \A d \in ComicChapters \ {c} : Before(order[r], c, d)
        /\ chosen' = [chosen EXCEPT ![r] = c]
  /\ Goto(r, "kind")
  /\ UNCHANGED <<known, order, result, stable>>

Reason(r) == IF known[r] = {} THEN "requested_chapter" ELSE "first_canonical_chapter"

\* Mutant: a chapter is remote when all its links are active.
ReadKind_AllActive(r) ==
  /\ pc[r] = "kind"
  /\ LET links == {l \in Links : l.chapter = chosen[r]}
     IN  Return(r, Target(Reason(r), IF links # {} /\ links = ActiveLinks(chosen[r])
                                     THEN "remote" ELSE "local"))
  /\ UNCHANGED <<known, order, chosen, stable>>

ReadKind(r) ==
  /\ pc[r] = "kind"
  /\ Return(r, Target(Reason(r), IF ActiveLinks(chosen[r]) = {} THEN "local" ELSE "remote"))
  /\ UNCHANGED <<known, order, chosen, stable>>

ResolveFails(r) ==
  /\ pc[r] \in {"idle", "links", "kind"}
  /\ Return(r, Refused("INTERNAL_ERROR", "none"))
  /\ UNCHANGED <<known, order, chosen, stable>>

ForgetResolvers(R) ==
  /\ pc' = [r \in Resolvers |-> IF r \in R THEN "idle" ELSE pc[r]]
  /\ known' = [r \in Resolvers |-> IF r \in R THEN {} ELSE known[r]]
  /\ order' = [r \in Resolvers |-> IF r \in R THEN Unread ELSE order[r]]
  /\ chosen' = [r \in Resolvers |-> IF r \in R THEN None ELSE chosen[r]]
  /\ result' = [r \in Resolvers |-> IF r \in R THEN NoResult ELSE result[r]]
  /\ stable' = [r \in Resolvers |-> r \in R \/ stable[r]]

Resolved(r) == pc[r] = "done" /\ ForgetResolvers({r})

ResolveStep(r) ==
  \/ StartRequested(r) \/ Refuse(r) \/ StartFirst(r)
  \/ ReadLinks(r) \/ Choose(r) \/ ReadKind(r) \/ ResolveFails(r) \/ Resolved(r)

-----------------------------------------------------------------------------
(* The two together. *)

UpdateStep(u) ==
  /\ PlatformStep(u)
  /\ stable' = [r \in Resolvers |-> pc[r] = "idle" \/ (stable[r] /\ status' = status)]
  /\ UNCHANGED <<pc, known, order, chosen, result>>

RestartAll == Restart /\ ForgetResolvers(Resolvers)

Next ==
  \/ \E u \in Updaters : UpdateStep(u)
  \/ \E r \in Resolvers : ResolveStep(r) /\ UNCHANGED platformVars
  \/ RestartAll

Spec == Init /\ [][Next]_vars

-----------------------------------------------------------------------------
(* Properties. *)

Codes == {"none", "ok", "NOT_FOUND", "READER_UNRESOLVED_LOCAL_TARGET", "INTERNAL_ERROR"}
Reasons == {"none", "requested_chapter", "first_canonical_chapter", "requested_chapter_missing",
            "missing_local_chapter_id"}

\* Every variable has its type.
TypeOK ==
  /\ PlatformsTypeOK
  /\ pc \in [Resolvers -> {"idle", "links", "kind", "done"}]
  /\ known \in [Resolvers -> SUBSET ComicChapters]
  /\ order \in [Resolvers -> [ComicChapters -> Int \cup {None}]]
  /\ chosen \in [Resolvers -> ComicChapters \cup {None}]
  /\ result \in [Resolvers -> [code : Codes, reason : Reasons, kind : {"none", "local", "remote"}]]
  /\ stable \in [Resolvers -> BOOLEAN]

AnsweredFirst(r) == result[r].code = "ok" /\ result[r].reason = "first_canonical_chapter"

\* The chapters of docs/design/use-cases.md's tuple, one component after the other: what
\* is left of a set of chapters when only the first by that component stay.
FirstByNumber == {c \in ComicChapters : \A d \in ComicChapters : ~NullableLess(Number[d], Number[c])}

\* An active link of c has an order below every order of d's active links.
OrderedBefore(c, d) ==
  \E l \in ActiveLinks(c) :
    /\ l.order # None
    /\ \A m \in ActiveLinks(d) : m.order = None \/ l.order < m.order

FirstByOrder == {c \in FirstByNumber : \A d \in FirstByNumber : ~OrderedBefore(d, c)}
FirstByAge == {c \in FirstByOrder : \A d \in FirstByOrder : Created[c] <= Created[d]}
FirstById == {c \in FirstByAge : \A d \in FirstByAge : c <= d}

\* The resolver opens the first chapter of the documented order when no platform has
\* changed status since it started, although it reads the links chapter by chapter.
FirstIsCanonical ==
  \A r \in Resolvers : AnsweredFirst(r) /\ stable[r] => chosen[r] \in FirstById

\* Whatever changes under it, the resolver opens a chapter of the least number: what it
\* reads of the sources only decides between chapters of that number.
NumberDecides ==
  \A r \in Resolvers : AnsweredFirst(r) => chosen[r] \in FirstByNumber

\* With no change of status, the kind and the order come from the same links although
\* they are read by different queries: a chapter with a source order is remote.
OrderedIsRemote ==
  \A r \in Resolvers :
    AnsweredFirst(r) /\ stable[r] /\ order[r][chosen[r]] # None => result[r].kind = "remote"
=============================================================================
