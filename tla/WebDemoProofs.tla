----------------------------- MODULE WebDemoProofs -----------------------------
(***************************************************************************)
(* Proofs about the demo application: the codec of a created comic, for    *)
(* every text, date and payload; and then, for any number of requests,     *)
(* signals, sessions, comics and forms, that a client is told the comic it *)
(* asked for, can read every answer, and may retry; that the shell is busy *)
(* with one request at most; and that nothing waits for what is over. What *)
(* the provider's variables satisfy is taken from RuntimeProviderProofs.   *)
(***************************************************************************)
EXTENDS WebDemo, TLAPS

-----------------------------------------------------------------------------
(* The codec. *)

KindNames == DOMAIN Values

LEMMA FieldsHaveKinds ==
  /\ \A p \in Parts : \A f \in DOMAIN Fields[p] : Fields[p][f] \in KindNames
  /\ \A p \in Parts : Optional[p] \subseteq DOMAIN Fields[p]
<1>1. ASSUME NEW p \in Parts, NEW f \in DOMAIN Fields[p]
      PROVE  Fields[p][f] \in KindNames
  <2>1. CASE p = "comic"
    BY <2>1 DEF Fields, KindNames, Values
  <2>2. CASE p = "metadata"
    BY <2>2 DEF Fields, KindNames, Values
  <2>3. CASE p = "primaryTitle"
    BY <2>3 DEF Fields, KindNames, Values
  <2> QED BY <2>1, <2>2, <2>3 DEF Parts
<1>2. \A p \in Parts : Optional[p] \subseteq DOMAIN Fields[p]
  BY DEF Parts, Fields, Optional
<1> QED BY <1>1, <1>2

\* What the parser makes of a written value is the value, and its text has the type
\* the parser asks for.
LEMMA ReadsWhatWasWritten ==
  ASSUME NEW kind \in KindNames, NEW v \in Values[kind]
  PROVE  /\ Read(kind, Write(kind, v)) = v
         /\ Write(kind, v) \in (IF kind = "object" THEN Objects ELSE Texts)
<1>1. kind \in {"id", "title", "normalized", "text", "object", "origin", "titleKind", "date"}
  BY DEF KindNames, Values
<1>2. CASE kind = "id"
  BY <1>2, PayloadAssumption DEF Values, Read, Write
<1>3. CASE kind = "title"
  BY <1>3, PayloadAssumption DEF Values, Read, Write
<1>4. CASE kind = "normalized"
  BY <1>4, PayloadAssumption DEF Values, Read, Write
<1>5. CASE kind = "text"
  BY <1>5, PayloadAssumption DEF Values, Read, Write
<1>6. CASE kind = "object"
  BY <1>6, PayloadAssumption DEF Values, Read, Write
<1>7. CASE kind = "origin"
  BY <1>7, PayloadAssumption DEF Values, Read, Write
<1>8. CASE kind = "titleKind"
  BY <1>8, PayloadAssumption DEF Values, Read, Write
<1>9. CASE kind = "date"
  BY <1>9, PayloadAssumption DEF Values, Read, Write
<1> QED BY <1>1, <1>2, <1>3, <1>4, <1>5, <1>6, <1>7, <1>8, <1>9

-----------------------------------------------------------------------------
\* A replay returns the comic that was stored: parsing the payload of any comic,
\* whatever optional fields it has, gives back the comic in every field.
THEOREM RoundTrip ==
  ASSUME NEW c, IsComic(c)
  PROVE  Parse(Json(c)) = Ok(c)
<1> DEFINE j == Json(c)
<1>1. DOMAIN c = Parts /\ \A p \in Parts : DOMAIN c[p] \subseteq DOMAIN Fields[p]
  BY DEF IsComic, ShapeHolds
<1>2. DOMAIN j = Parts /\ \A p \in Parts : DOMAIN j[p] = DOMAIN c[p]
  BY DEF Json
<1>3. ShapeHolds(j)
  BY <1>1, <1>2 DEF ShapeHolds
<1>4. ASSUME NEW p \in Parts, NEW f \in DOMAIN c[p]
      PROVE  /\ j[p][f] = Write(Fields[p][f], c[p][f])
             /\ Fields[p][f] \in KindNames
             /\ c[p][f] \in Values[Fields[p][f]]
             /\ Read(Fields[p][f], j[p][f]) = c[p][f]
             /\ j[p][f] \in (IF Fields[p][f] = "object" THEN Objects ELSE Texts)
  <2>1. j[p][f] = Write(Fields[p][f], c[p][f])
    BY DEF Json
  <2>2. Fields[p][f] \in KindNames
    BY <1>1, FieldsHaveKinds
  <2>3. c[p][f] \in Values[Fields[p][f]]
    BY DEF IsComic
  <2> QED BY <2>1, <2>2, <2>3, ReadsWhatWasWritten
<1>5. ASSUME NEW p \in Parts, NEW f \in DOMAIN Fields[p]
      PROVE  Fault(j, p, f) = "none"
  <2>1. CASE f \in DOMAIN c[p]
    <3>1. HasType(j, p, f)
      BY <2>1, <1>2, <1>4 DEF HasType
    <3>2. Takes(Fields[p][f], j[p][f])
      BY <2>1, <1>4 DEF Takes
    <3> QED BY <3>1, <3>2 DEF Fault
  <2>2. CASE f \notin DOMAIN c[p]
    <3>1. f \in Optional[p]
      BY <2>2 DEF IsComic
    <3>2. f \notin DOMAIN j[p]
      BY <2>2, <1>2
    <3> QED BY <3>1, <3>2 DEF Fault, HasType
  <2> QED BY <2>1, <2>2
<1>7. Parsed(j) = c
  <2>1. Parsed(j) = [p \in Parts |-> [f \in DOMAIN c[p] |-> c[p][f]]]
    BY <1>2, <1>4 DEF Parsed
  <2> QED BY <2>1 DEF IsComic
<1> QED BY <1>3, <1>5, <1>7 DEF Parse

\* A payload that was damaged is never replayed as something that is not a comic:
\* whatever the stored JSON is, the parser refuses it or returns a comic.
THEOREM ParsedIsComic ==
  ASSUME NEW j, Parse(j).ok
  PROVE  IsComic(Parse(j).value)
<1> DEFINE c == Parsed(j)
<1>1. /\ ShapeHolds(j)
      /\ \A p \in Parts : \A f \in DOMAIN Fields[p] : Fault(j, p, f) = "none"
  BY DEF Parse, Ok, Err
<1>2. Parse(j).value = c
  BY <1>1 DEF Parse, Ok
<1>3. DOMAIN c = Parts /\ \A p \in Parts : DOMAIN c[p] = DOMAIN j[p]
  BY DEF Parsed
<1>5. \A p \in Parts : DOMAIN Fields[p] \ Optional[p] \subseteq DOMAIN c[p]
  <2> SUFFICES ASSUME NEW p \in Parts, NEW f \in DOMAIN Fields[p] \ Optional[p]
               PROVE  f \in DOMAIN j[p]
    BY <1>3
  <2>1. HasType(j, p, f)
    BY <1>1 DEF Fault
  <2> QED BY <2>1 DEF HasType
<1>6. \A p \in Parts : \A f \in DOMAIN c[p] : c[p][f] \in Values[Fields[p][f]]
  <2> SUFFICES ASSUME NEW p \in Parts, NEW f \in DOMAIN j[p]
               PROVE  Read(Fields[p][f], j[p][f]) \in Values[Fields[p][f]]
    BY <1>3 DEF Parsed
  <2>1. f \in DOMAIN Fields[p]
    BY <1>1 DEF ShapeHolds
  <2>2. Takes(Fields[p][f], j[p][f])
    BY <1>1, <2>1 DEF Fault
  <2> QED BY <2>2 DEF Takes
<1>7. ShapeHolds(c)
  BY <1>1, <1>3 DEF ShapeHolds
<1>8. c = [p \in Parts |-> [f \in DOMAIN c[p] |-> c[p][f]]]
  BY <1>3 DEF Parsed
<1> QED BY <1>2, <1>5, <1>6, <1>7, <1>8 DEF IsComic

-----------------------------------------------------------------------------
\* A text that has been squeezed to nothing was blank, so what is kept of an optional
\* text is not.
LEMMA OptionalTextKept ==
  ASSUME NEW t \in Texts \cup {None}, OptionalText(t) # None
  PROVE  /\ OptionalText(t) \in Texts
         /\ Trim[OptionalText(t)] = OptionalText(t)
         /\ Trim[OptionalText(t)] # Empty
BY PayloadAssumption DEF OptionalText

\* What the use case creates for an input it accepts is a comic.
THEOREM CreatedIsComic ==
  ASSUME NEW i \in Bodies, InputValid(i), NEW u \in Uuids, NEW v \in Uuids, NEW d \in Instants
  PROVE  IsComic(Created(i, u, v, d))
<1> DEFINE c == Created(i, u, v, d)
<1>1. /\ i.title \in Texts
      /\ i.description \in Texts \cup {None}
      /\ i.authorName \in Texts \cup {None}
      /\ i.originHint \in Origins \cup {None}
  BY DEF Bodies
<1>2. /\ u # None /\ v # None /\ d # None
      /\ Trim[i.title] \in Values.title /\ Trim[i.title] # None
      /\ Norm[i.title] \in Values.normalized /\ Norm[i.title] # None
      /\ CanonicalInput(i).originHint \in Origins
      /\ CanonicalInput(i).description \in Texts \cup {None}
      /\ CanonicalInput(i).authorName \in Texts \cup {None}
  <2>1. u # None /\ v # None /\ d # None
    BY PayloadAssumption
  <2>2. Trim[i.title] \in Values.title /\ Trim[i.title] # None
    BY <1>1, PayloadAssumption DEF InputValid, Values
  <2>3. Norm[i.title] \in Values.normalized /\ Norm[i.title] # None
    BY <1>1, PayloadAssumption DEF InputValid, Values
  <2>4. CanonicalInput(i).originHint \in Origins
    BY <1>1 DEF CanonicalInput, Origins
  <2>5. /\ CanonicalInput(i).description \in Texts \cup {None}
        /\ CanonicalInput(i).authorName \in Texts \cup {None}
    BY <1>1, OptionalTextKept DEF CanonicalInput
  <2> QED BY <2>1, <2>2, <2>3, <2>4, <2>5
<1>3. DOMAIN c = Parts
  BY DEF Created, Parts
<1>4. /\ DOMAIN c["comic"] = DOMAIN Fields["comic"]
      /\ \A f \in DOMAIN c["comic"] : c["comic"][f] \in Values[Fields["comic"][f]]
      /\ c["comic"] = [f \in DOMAIN c["comic"] |-> c["comic"][f]]
  BY <1>2 DEF Created, Fields, Values
<1>5. /\ DOMAIN c["primaryTitle"] \subseteq DOMAIN Fields["primaryTitle"]
      /\ DOMAIN Fields["primaryTitle"] \ Optional["primaryTitle"] \subseteq DOMAIN c["primaryTitle"]
      /\ \A f \in DOMAIN c["primaryTitle"] :
            c["primaryTitle"][f] \in Values[Fields["primaryTitle"][f]]
      /\ c["primaryTitle"] = [f \in DOMAIN c["primaryTitle"] |-> c["primaryTitle"][f]]
  BY <1>2 DEF Created, Fields, Values, Optional, TitleKinds
<1>6. /\ DOMAIN c["metadata"] \subseteq DOMAIN Fields["metadata"]
      /\ DOMAIN Fields["metadata"] \ Optional["metadata"] \subseteq DOMAIN c["metadata"]
      /\ \A f \in DOMAIN c["metadata"] : c["metadata"][f] \in Values[Fields["metadata"][f]]
      /\ c["metadata"] = [f \in DOMAIN c["metadata"] |-> c["metadata"][f]]
  <2> DEFINE r == [comicId |-> u, title |-> Trim[i.title],
                   description |-> CanonicalInput(i).description,
                   authorName |-> CanonicalInput(i).authorName,
                   createdAt |-> d, updatedAt |-> d]
  <2>1. c["metadata"] = Present(r)
    BY DEF Created
  <2>2. /\ r.comicId # None /\ r.title # None /\ r.createdAt # None /\ r.updatedAt # None
    BY <1>2
  <2>3. DOMAIN c["metadata"] = {g \in DOMAIN r : r[g] # None}
    BY <2>1 DEF Present
  <2>4. \A f \in DOMAIN c["metadata"] : c["metadata"][f] = r[f] /\ r[f] # None
    BY <2>1 DEF Present
  <2>5. DOMAIN r = {"comicId", "title", "description", "authorName", "createdAt", "updatedAt"}
    OBVIOUS
  <2>6. DOMAIN c["metadata"] \subseteq DOMAIN Fields["metadata"]
    BY <2>3, <2>5 DEF Fields
  <2>7. DOMAIN Fields["metadata"] \ Optional["metadata"] \subseteq DOMAIN c["metadata"]
    BY <2>2, <2>3, <2>5 DEF Fields, Optional
  <2>8. \A f \in DOMAIN r : r[f] # None => r[f] \in Values[Fields["metadata"][f]]
    BY <1>2, <2>5 DEF Fields, Values
  <2>9. \A f \in DOMAIN c["metadata"] : c["metadata"][f] \in Values[Fields["metadata"][f]]
    BY <2>3, <2>4, <2>8
  <2>10. c["metadata"] = [f \in DOMAIN c["metadata"] |-> c["metadata"][f]]
    BY <2>1 DEF Present
  <2> QED BY <2>6, <2>7, <2>9, <2>10
<1>7. ShapeHolds(c)
  BY <1>3, <1>4, <1>5, <1>6 DEF ShapeHolds, Parts
<1>8. \A p \in Parts : /\ DOMAIN Fields[p] \ Optional[p] \subseteq DOMAIN c[p]
                       /\ \A f \in DOMAIN c[p] : c[p][f] \in Values[Fields[p][f]]
                       /\ c[p] = [f \in DOMAIN c[p] |-> c[p][f]]
  BY <1>4, <1>5, <1>6 DEF Parts
<1>9. c = [p \in Parts |-> c[p]]
  BY <1>3 DEF Created
<1>10. c = [p \in Parts |-> [f \in DOMAIN c[p] |-> c[p][f]]]
  BY <1>8, <1>9
<1> QED BY <1>7, <1>8, <1>10 DEF IsComic

-----------------------------------------------------------------------------
\* The free texts of c are trimmed and not blank.
CleanTexts(c) ==
  \A p \in Parts : \A f \in DOMAIN c[p] :
     Fields[p][f] = "text" => Trim[c[p][f]] = c[p][f] /\ c[p][f] # Empty

Verbatim == {"object", "origin", "titleKind", "date"}

\* A written value passes the check of the response schema for its field, and the
\* schema's trimming leaves it as it is.
LEMMA WrittenIsReadable ==
  ASSUME NEW kind \in KindNames, NEW v \in Values[kind],
         kind = "text" => Trim[v] = v /\ v # Empty
  PROVE  /\ FieldReadable(kind, Write(kind, v))
         /\ kind \notin Verbatim => Trim[Write(kind, v)] = Write(kind, v)
<1>1. kind \in {"id", "title", "normalized", "text", "object", "origin", "titleKind", "date"}
  BY DEF KindNames, Values
<1>2. CASE kind = "id"
  BY <1>2, PayloadAssumption DEF Values, FieldReadable, Write
<1>3. CASE kind = "title"
  BY <1>3, PayloadAssumption DEF Values, FieldReadable, Write
<1>4. CASE kind = "normalized"
  BY <1>4, PayloadAssumption DEF Values, FieldReadable, Write
<1>5. CASE kind = "text"
  BY <1>5, PayloadAssumption DEF Values, FieldReadable, Write
<1>6. CASE kind = "object"
  BY <1>6 DEF Values, FieldReadable, Write, Verbatim
<1>7. CASE kind = "origin"
  BY <1>7 DEF Values, FieldReadable, Write, Verbatim
<1>8. CASE kind = "titleKind"
  BY <1>8 DEF Values, FieldReadable, Write, Verbatim
<1>9. CASE kind = "date"
  BY <1>9 DEF Values, FieldReadable, Write, Verbatim
<1> QED BY <1>1, <1>2, <1>3, <1>4, <1>5, <1>6, <1>7, <1>8, <1>9

\* The client reads the answer for a comic, new or replayed, as the server wrote it.
THEOREM ClientReadsComics ==
  ASSUME NEW c, IsComic(c), CleanTexts(c)
  PROVE  LET response == CreateAnswer(Ok(c))
         IN  Accept(response, ComicParsed(response.body)) = Ok(Json(c))
<1> DEFINE j == Json(c)
<1>1. DOMAIN j = Parts /\ \A p \in Parts : DOMAIN j[p] = DOMAIN c[p]
  BY DEF Json
<1>2. DOMAIN c = Parts /\ \A p \in Parts : DOMAIN c[p] \subseteq DOMAIN Fields[p]
  BY DEF IsComic, ShapeHolds
<1>3. ASSUME NEW p \in Parts, NEW f \in DOMAIN j[p]
      PROVE  /\ FieldReadable(Fields[p][f], j[p][f])
             /\ Fields[p][f] \notin Verbatim => Trim[j[p][f]] = j[p][f]
  <2>1. j[p][f] = Write(Fields[p][f], c[p][f])
    BY DEF Json
  <2>2. Fields[p][f] \in KindNames
    BY <1>1, <1>2, FieldsHaveKinds
  <2>3. c[p][f] \in Values[Fields[p][f]]
    BY <1>1 DEF IsComic
  <2>4. Fields[p][f] = "text" => Trim[c[p][f]] = c[p][f] /\ c[p][f] # Empty
    BY <1>1 DEF CleanTexts
  <2> QED BY <2>1, <2>2, <2>3, <2>4, WrittenIsReadable
<1>4. ShapeHolds(j)
  BY <1>1, <1>2 DEF ShapeHolds
<1>5. \A p \in Parts : DOMAIN Fields[p] \ Optional[p] \subseteq DOMAIN j[p]
  BY <1>1 DEF IsComic
<1>6. ComicReadable(j)
  BY <1>3, <1>4, <1>5 DEF ComicReadable
<1>7. ComicRead(j) = j
  <2>1. ComicRead(j) = [p \in Parts |-> [f \in DOMAIN j[p] |-> j[p][f]]]
    BY <1>3 DEF ComicRead, Verbatim
  <2>2. j = [p \in Parts |-> [f \in DOMAIN j[p] |-> j[p][f]]]
    BY <1>1 DEF Json
  <2> QED BY <2>1, <2>2
<1>8. CreateAnswer(Ok(c)) = [status |-> 200, body |-> j]
  BY DEF CreateAnswer, Ok, Success
<1> QED BY <1>6, <1>7, <1>8 DEF Accept, ComicParsed

\* What is created for an accepted request has clean texts.
THEOREM CreatedIsClean ==
  ASSUME NEW i \in Bodies, InputValid(i), NEW u \in Uuids, NEW v \in Uuids, NEW d \in Instants
  PROVE  CleanTexts(Created(i, u, v, d))
<1> DEFINE c == Created(i, u, v, d)
<1>1. SUFFICES ASSUME NEW p \in Parts, NEW f \in DOMAIN c[p], Fields[p][f] = "text"
               PROVE  Trim[c[p][f]] = c[p][f] /\ c[p][f] # Empty
  BY DEF CleanTexts
<1>2. IsComic(c)
  BY CreatedIsComic
<1>3. f \in DOMAIN Fields[p]
  BY <1>2 DEF IsComic, ShapeHolds
<1>4. p = "metadata" /\ f \in {"description", "authorName"}
  <2>1. p # "comic"
    BY <1>1, <1>3 DEF Fields
  <2>2. CASE p = "primaryTitle"
    <3>1. DOMAIN c["primaryTitle"] =
            {"id", "comicId", "title", "normalizedTitle", "titleKind", "createdAt"}
      BY DEF Created
    <3> QED BY <1>1, <2>2, <3>1 DEF Fields
  <2>3. CASE p = "metadata"
    BY <1>1, <1>3, <2>3 DEF Fields
  <2> QED BY <2>1, <2>2, <2>3 DEF Parts
<1>5. /\ i.description \in Texts \cup {None}
      /\ i.authorName \in Texts \cup {None}
  BY DEF Bodies
<1>6. c["metadata"][f] # None
      /\ c["metadata"][f] = IF f = "description" THEN OptionalText(i.description)
                            ELSE OptionalText(i.authorName)
  BY <1>4 DEF Created, Present, CanonicalInput
<1> QED BY <1>4, <1>5, <1>6, OptionalTextKept, PayloadAssumption
-----------------------------------------------------------------------------
(* The demo application: the inductive invariant. *)

\* What the use case may be given: forms that pass the route's schema, trimmed.
Accepted == {Received(FormBody(f)) : f \in {g \in Forms : RequestValid(FormBody(g))}}

Entry(input, comic) == [input |-> input, comic |-> comic]
Row(e) == [key |-> e.input.idempotencyKey, hash |-> CanonicalInput(e.input), payload |-> Json(e.comic)]

\* The ledger of a session has one row for each of its comics, of different keys.
LedgerAgrees ==
  /\ DOMAIN ledger = Sessions /\ DOMAIN comics = Sessions
  /\ \A s \in Sessions :
        /\ ledger[s] = {Row(e) : e \in comics[s]}
        /\ \A d, e \in comics[s] : d.input.idempotencyKey = e.input.idempotencyKey => d = e
        /\ \A e \in comics[s] :
              /\ e.input \in Accepted
              /\ \E u \in Uuids, v \in Uuids, t \in Instants : e.comic = Created(e.input, u, v, t)

\* Whatever a client has been told for a key is the session's comic for it.
ToldIsMade ==
  /\ DOMAIN told = Sessions
  /\ \A s \in Sessions :
        /\ DOMAIN told[s] = Keys
        /\ \A k \in Keys : \A j \in told[s][k] :
              \E e \in comics[s] : e.input.idempotencyKey = k /\ j = Json(e.comic)

JobIsRecord(j) ==
  j = [kind |-> j.kind, body |-> j.body, stage |-> j.stage, awaited |-> j.awaited,
       result |-> j.result, session |-> j.session]

Stages == {"free", "sent", "serving", "settled", "answered"}

\* A creation carries a form, and once the route has let it through a valid one.
BodyIsForm(c) ==
  job[c].kind = "create" /\ server # "down" =>
     job[c].body \in (IF job[c].stage \in {"serving", "settled"} THEN Accepted
                      ELSE {FormBody(f) : f \in Forms})

\* The replies a route turns into an answer.
RouteReplies(kind) ==
  IF kind = "create" THEN {"RUNTIME_SHUTTING_DOWN", "RUNTIME_NOT_OPEN"}
  ELSE Provider!States \cup {"RUNTIME_SHUTTING_DOWN", "RUNTIME_UNAVAILABLE"}

Suspended(kind) ==
  IF kind = "create" THEN {"operating"} ELSE {"opening", "openingBehindClose", "closing"}

\* A provider call runs for a slot that is being served and for no other, and when it
\* has come back its reply is one the route knows.
ServedByProvider(c) ==
  /\ pc[c] # "idle" => job[c].stage = "serving"
  /\ pc[c] = "operating" => on[c] \in Sessions
  /\ job[c].stage = "serving" =>
        /\ job[c].kind \in {"open", "close", "create"}
        /\ pc[c] \in Suspended(job[c].kind)
             \/ (pc[c] = "idle" /\ reply[c] \in RouteReplies(job[c].kind))

\* A creation has settled with the session's comic for its key, made from a request
\* with the same canonical form; or with a conflict, and the canonical forms differ.
SettledRightly(c) ==
  job[c].stage = "settled" =>
     /\ job[c].kind = "create" /\ job[c].session \in Sessions
     /\ \/ job[c].result = Err("INTERNAL_ERROR")
        \/ \E e \in comics[job[c].session] :
              /\ e.input.idempotencyKey = job[c].body.idempotencyKey
              /\ job[c].result = IF CanonicalInput(e.input) = CanonicalInput(job[c].body)
                                 THEN Ok(e.comic) ELSE Err("IDEMPOTENCY_CONFLICT")

AnsweredRightly(c) ==
  job[c].stage = "answered" =>
     \/ job[c].kind = "create" /\ job[c].result = Failure("VALIDATION_FAILED")
     \/ /\ job[c].kind \in {"mount", "health", "createdHealth"}
        /\ \E st \in Provider!States : job[c].result = Success(st)

\* A process that is gone serves nobody.
DownIsIdle ==
  server = "down" => \A c \in Slots : job[c].stage \in {"free", "sent"} /\ pc[c] = "idle"

SlotInv(c) ==
  /\ JobIsRecord(job[c])
  /\ job[c].kind \in Kinds /\ job[c].stage \in Stages /\ job[c].awaited \in BOOLEAN
  /\ BodyIsForm(c) /\ ServedByProvider(c) /\ SettledRightly(c) /\ AnsweredRightly(c)

SlotsInv == DOMAIN job = Slots /\ \A c \in Slots : SlotInv(c)

Flags ==
  /\ created \in 0 .. MaxComics /\ busy \in BOOLEAN
  /\ server \in {"listening", "closing", "down"}
  /\ stop \in [Signals -> {"armed", "shutdown", "closed"}]

ProviderProofs == INSTANCE RuntimeProviderProofs WITH Calls <- Slots \cup Signals

IInv ==
  /\ ProviderProofs!IInv
  /\ LedgerAgrees /\ ToldIsMade /\ SlotsInv /\ DownIsIdle /\ Flags

-----------------------------------------------------------------------------
(* The provider inside the application. *)

LEMMA ProviderAssumed == ProviderProofs!ProviderAssumption
  BY DemoAssumption DEF ProviderProofs!ProviderAssumption, ProviderProofs!Sessions,
     ProviderProofs!IsFiniteSet, IsFiniteSet

LEMMA ProviderTypes ==
  ProviderProofs!TypeOK <=> Provider!TypeOK
  BY DEF ProviderProofs!TypeOK, ProviderProofs!Sessions, ProviderProofs!States, ProviderProofs!Attempts,
     ProviderProofs!Phases, ProviderProofs!Replies, Provider!TypeOK, Provider!Sessions,
     Provider!States, Provider!Attempts, Provider!Phases, Provider!Replies

\* Every call a request or a signal makes keeps the provider's invariant.
LEMMA CallKeepsProvider ==
  ASSUME ProviderProofs!IInv, NEW c \in Slots \cup Signals, Provider!Call(c)
  PROVE  ProviderProofs!IInv'
<1>1. ProviderProofs!Call(c)
  BY DEF Provider!Call, Provider!OpenRejected, Provider!OpenAlreadyOpen, Provider!OpenJoins,
     Provider!OpenCreates, Provider!CloseRejected, Provider!CloseJoins, Provider!CloseNow,
     Provider!ShutdownJoins, Provider!ShutdownDefers, Provider!ShutdownNothingOpen,
     Provider!ShutdownNow, Provider!WithRuntimeRejected, Provider!WithRuntimeStarts,
     Provider!Return, Provider!Suspend, Provider!Awaiting, Provider!SessionsAfterClose,
     Provider!FinalizeShutdown, Provider!FirstUnused, Provider!closure, Provider!outside,
     Provider!Sessions,
     ProviderProofs!Call, ProviderProofs!OpenRejected, ProviderProofs!OpenAlreadyOpen,
     ProviderProofs!OpenJoins, ProviderProofs!OpenCreates, ProviderProofs!CloseRejected,
     ProviderProofs!CloseJoins, ProviderProofs!CloseNow, ProviderProofs!ShutdownJoins,
     ProviderProofs!ShutdownDefers, ProviderProofs!ShutdownNothingOpen,
     ProviderProofs!ShutdownNow, ProviderProofs!WithRuntimeRejected,
     ProviderProofs!WithRuntimeStarts, ProviderProofs!Return, ProviderProofs!Suspend,
     ProviderProofs!Awaiting, ProviderProofs!SessionsAfterClose,
     ProviderProofs!FinalizeShutdown, ProviderProofs!FirstUnused, ProviderProofs!closure,
     ProviderProofs!outside, ProviderProofs!Sessions
<1> QED BY <1>1, ProviderAssumed, ProviderProofs!CallPreserves

\* So does the end of an operation.
LEMMA OperationKeepsProvider ==
  ASSUME ProviderProofs!IInv, NEW c \in Slots, Provider!OperationSettles(c)
  PROVE  ProviderProofs!IInv'
<1>1. ProviderProofs!OperationSettles(c)
  BY DEF Provider!OperationSettles, Provider!Return, Provider!FinalizeShutdown,
     Provider!SessionsAfterClose, Provider!Sessions,
     ProviderProofs!OperationSettles, ProviderProofs!Return, ProviderProofs!FinalizeShutdown,
     ProviderProofs!SessionsAfterClose, ProviderProofs!Sessions
<1> QED BY <1>1, ProviderAssumed, ProviderProofs!OperationPreserves

\* So do the reactions on its promises.
LEMMA ReactionKeepsProvider ==
  ASSUME ProviderProofs!IInv, NEW s \in Sessions,
         Provider!CreateSettles(s) \/ Provider!OpenPromiseSettles(s) \/ Provider!ShutdownContinues(s)
  PROVE  ProviderProofs!IInv'
<1>1. s \in ProviderProofs!Sessions
  BY DEF Sessions, ProviderProofs!Sessions
<1>2. \/ ProviderProofs!CreateSettles(s)
      \/ ProviderProofs!OpenPromiseSettles(s)
      \/ ProviderProofs!ShutdownContinues(s)
  BY DEF Provider!CreateSettles, Provider!CreateResolves, Provider!CreateRejects,
     Provider!OpenPromiseSettles, Provider!ShutdownContinues, Provider!Awaiting,
     Provider!Resumed, Provider!ReturnAll, Provider!FinalizeShutdown,
     Provider!SessionsAfterClose, Provider!Sessions, Provider!calls,
     ProviderProofs!CreateSettles, ProviderProofs!CreateResolves, ProviderProofs!CreateRejects,
     ProviderProofs!OpenPromiseSettles, ProviderProofs!ShutdownContinues, ProviderProofs!Awaiting,
     ProviderProofs!Resumed, ProviderProofs!ReturnAll, ProviderProofs!FinalizeShutdown,
     ProviderProofs!SessionsAfterClose, ProviderProofs!Sessions, ProviderProofs!calls
<1> QED BY <1>1, <1>2, ProviderAssumed, ProviderProofs!ReactionPreserves

\* A step that leaves the provider alone, or uses a reply, keeps it too.
LEMMA ReplyUsedKeepsProvider ==
  ASSUME ProviderProofs!IInv, UNCHANGED <<openPromise, shutdownPromise, runtime,
           activeOperations, state, attempt, session, chain, pc, on>>,
         reply' = reply \/ \E c \in Slots : reply' = [reply EXCEPT ![c] = "none"]
  PROVE  ProviderProofs!IInv'
  BY DEF ProviderProofs!IInv, ProviderProofs!TypeOK, ProviderProofs!PublishedIsLive,
     ProviderProofs!AwaitedIsUnsettled, ProviderProofs!ShuttingDownIsOwed,
     ProviderProofs!ActiveOperationsCount, ProviderProofs!Operating, ProviderProofs!Replies,
     ProviderProofs!ShutdownsContinue

\* And so does the death of the process.
LEMMA DeathKeepsProvider ==
  ASSUME ProviderProofs!IInv, Dies
  PROVE  ProviderProofs!IInv'
<1>1. ProviderProofs!Operating' = {}
  BY DEF Dies, ProviderProofs!Operating, ProviderProofs!IInv, ProviderProofs!TypeOK
<1>2. ProviderProofs!ActiveOperationsCount'
  BY <1>1, ProviderAssumed, ProviderProofs!NothingCounts DEF Dies
<1>3. ProviderProofs!TypeOK'
  BY DEF Dies, ProviderProofs!IInv, ProviderProofs!TypeOK, ProviderProofs!States, Sessions,
     ProviderProofs!Sessions, ProviderProofs!Attempts, ProviderProofs!Phases, ProviderProofs!Replies
<1>4. /\ ProviderProofs!PublishedIsLive' /\ ProviderProofs!AwaitedIsUnsettled'
      /\ ProviderProofs!ShuttingDownIsOwed'
  BY DEF Dies, ProviderProofs!IInv, ProviderProofs!TypeOK, ProviderProofs!PublishedIsLive,
     ProviderProofs!AwaitedIsUnsettled, ProviderProofs!ShuttingDownIsOwed
<1>5. ProviderProofs!ShutdownsContinue'
  <2>1. /\ \A s \in ProviderProofs!Sessions : chain'[s] = "none" /\ shutdownPromise' # s
        /\ \A c \in Slots \cup Signals : pc'[c] = "idle"
    BY ProviderAssumed DEF Dies, ProviderProofs!IInv, ProviderProofs!TypeOK, Sessions,
       ProviderProofs!Sessions, ProviderProofs!ProviderAssumption
  <2> QED BY <2>1 DEF ProviderProofs!ShutdownsContinue
<1> QED BY <1>2, <1>3, <1>4, <1>5 DEF ProviderProofs!IInv

-----------------------------------------------------------------------------
(* The requests. *)

\* What an accepted form is.
LEMMA FormIsBody ==
  ASSUME NEW f \in Forms
  PROVE  /\ FormBody(f) \in Bodies /\ FormBody(f).originHint = None
         /\ FormBody(f).title \in Texts
         /\ FormBody(f).idempotencyKey = f.idempotencyKey /\ f.idempotencyKey \in Texts
  BY DemoAssumption DEF FormTexts, FormBody, Bodies

LEMMA AcceptedIsValid ==
  ASSUME NEW i \in Accepted
  PROVE  /\ i \in Bodies /\ InputValid(i)
         /\ i.title \in Texts /\ Trim[i.title] = i.title /\ Squeeze[i.title] # Empty
         /\ i.idempotencyKey \in Keys
         /\ i.originHint = None
<1>1. PICK f \in Forms : RequestValid(FormBody(f)) /\ i = Received(FormBody(f))
  BY DEF Accepted
<1> DEFINE b == FormBody(f)
<1>2. /\ b \in Bodies /\ b.originHint = None /\ b.title \in Texts
      /\ b.idempotencyKey = f.idempotencyKey /\ f.idempotencyKey \in Texts
  BY FormIsBody
<1>3. DOMAIN b = {"title", "description", "authorName", "originHint", "idempotencyKey"}
  BY DEF FormBody
<1> HIDE DEF b
<1>4. /\ b.title # None /\ b.idempotencyKey # None
      /\ Trim[b.title] # Empty /\ Trim[b.idempotencyKey] # Empty
  BY <1>1, <1>2, PayloadAssumption DEF b, RequestValid, TextFields
<1>5. /\ b.description \in Texts \cup {None} /\ b.authorName \in Texts \cup {None}
  BY <1>2 DEF Bodies
<1>6. /\ DOMAIN i = DOMAIN b
      /\ i = [f1 \in DOMAIN b |-> i[f1]]
      /\ i.title = Trim[b.title]
      /\ i.description = IF b.description # None THEN Trim[b.description] ELSE b.description
      /\ i.authorName = IF b.authorName # None THEN Trim[b.authorName] ELSE b.authorName
      /\ i.originHint = b.originHint
      /\ i.idempotencyKey = Trim[b.idempotencyKey]
  BY <1>1, <1>3, <1>4 DEF b, Received, TextFields
<1>7. /\ i.title \in Texts /\ i.description \in Texts \cup {None}
      /\ i.authorName \in Texts \cup {None} /\ i.originHint = None
      /\ i.idempotencyKey \in Texts
  BY <1>2, <1>5, <1>6, PayloadAssumption
<1>8. i \in Bodies
  BY <1>3, <1>6, <1>7 DEF Bodies
<1>9. Trim[i.title] = i.title /\ Trim[i.idempotencyKey] = i.idempotencyKey
  BY <1>2, <1>6, PayloadAssumption
<1>10. i.title # Empty /\ i.idempotencyKey # Empty
  BY <1>4, <1>6
<1>11. InputValid(i) /\ Squeeze[i.title] # Empty
  BY <1>7, <1>9, <1>10, PayloadAssumption DEF InputValid
<1>12. i.idempotencyKey \in Keys
  BY <1>1, <1>2, <1>6, <1>10 DEF Keys
<1> QED BY <1>7, <1>8, <1>9, <1>11, <1>12

\* A comic fits a request exactly when it was made from one with the same canonical form.
LEMMA MatchesIsSameInput ==
  ASSUME NEW i \in Accepted, NEW j \in Accepted,
         NEW u \in Uuids, NEW v \in Uuids, NEW d \in Instants
  PROVE  Matches(i, Created(j, u, v, d)) <=> CanonicalInput(j) = CanonicalInput(i)
<1> DEFINE comic == Created(j, u, v, d)
           kept == [comicId |-> u, title |-> Trim[j.title],
                    description |-> CanonicalInput(j).description,
                    authorName |-> CanonicalInput(j).authorName,
                    createdAt |-> d, updatedAt |-> d]
<1>1. /\ i.title \in Texts /\ Squeeze[i.title] # Empty /\ i.originHint = None
      /\ j.title \in Texts /\ Squeeze[j.title] # Empty /\ j.originHint = None
      /\ Trim[j.title] = j.title
  BY AcceptedIsValid
<1>2. comic.metadata = Present(kept)
  BY DEF Created
<1>3. i.title # None /\ j.title # None
  BY <1>1, PayloadAssumption
<1>4. comic.metadata.title = j.title
  BY <1>1, <1>2, <1>3 DEF Present
<1>5. \A f \in {"description", "authorName"} : Field(comic.metadata, f) = OptionalText(j[f])
  BY <1>2 DEF Present, Field, CanonicalInput
<1>6. /\ OptionalText(i.title) = Squeeze[i.title]
      /\ OptionalText(comic.metadata.title) = Squeeze[j.title]
  BY <1>1, <1>3, <1>4 DEF OptionalText
<1>7. Squeeze[i.title] = Squeeze[j.title] => Norm[i.title] = Norm[j.title]
  BY <1>1, PayloadAssumption
<1> HIDE DEF comic
<1>8. Matches(i, comic) <=> /\ Squeeze[j.title] = Squeeze[i.title]
                            /\ \A f \in {"description", "authorName"} :
                                  OptionalText(j[f]) = OptionalText(i[f])
  BY <1>5, <1>6 DEF Matches
<1>9. CanonicalInput(j) = CanonicalInput(i) <=>
        /\ Squeeze[j.title] = Squeeze[i.title]
        /\ \A f \in {"description", "authorName"} : OptionalText(j[f]) = OptionalText(i[f])
  BY <1>1, <1>7 DEF CanonicalInput
<1> QED BY <1>8, <1>9 DEF comic

\* What is stored for a session: comics, clean and read back as they were.
LEMMA StoredComic ==
  ASSUME LedgerAgrees, NEW s \in Sessions, NEW e \in comics[s]
  PROVE  /\ e.input \in Accepted /\ e.input.idempotencyKey \in Keys
         /\ IsComic(e.comic) /\ CleanTexts(e.comic)
         /\ Parse(Json(e.comic)) = Ok(e.comic)
<1>1. e.input \in Accepted
  BY DEF LedgerAgrees
<1>2. PICK u \in Uuids, v \in Uuids, t \in Instants : e.comic = Created(e.input, u, v, t)
  BY DEF LedgerAgrees
<1>3. e.input \in Bodies /\ InputValid(e.input) /\ e.input.idempotencyKey \in Keys
  BY <1>1, AcceptedIsValid
<1>4. IsComic(e.comic) /\ CleanTexts(e.comic)
  BY <1>2, <1>3, CreatedIsComic, CreatedIsClean
<1> QED BY <1>1, <1>3, <1>4, RoundTrip

-----------------------------------------------------------------------------
(* The steps. *)

LEMMA CallTypes ==
  ASSUME IInv
  PROVE  /\ pc \in [Slots \cup Signals -> Provider!Phases] /\ DOMAIN on = Slots \cup Signals
         /\ DOMAIN reply = Slots \cup Signals
         /\ runtime \in Sessions \cup {None} /\ state \in Provider!States
  BY ProviderTypes DEF IInv, ProviderProofs!IInv, Provider!TypeOK, Provider!Sessions, Sessions

\* The other slots do not notice what happens to slot c.
LEMMA OthersUnchanged ==
  ASSUME SlotsInv, NEW c \in Slots, DOMAIN job' = Slots, SlotInv(c)',
         \A d \in Slots \ {c} : /\ job'[d] = job[d] /\ pc'[d] = pc[d]
                                /\ on'[d] = on[d] /\ reply'[d] = reply[d],
         \A s \in Sessions : comics[s] \subseteq comics'[s],
         server' = server
  PROVE  SlotsInv'
<1> SUFFICES ASSUME NEW d \in Slots \ {c} PROVE SlotInv(d)'
  BY DEF SlotsInv
<1>1. SlotInv(d)
  BY DEF SlotsInv
<1>2. SettledRightly(d)'
  BY <1>1 DEF SlotInv, SettledRightly
<1> QED BY <1>1, <1>2 DEF SlotInv, BodyIsForm, ServedByProvider, AnsweredRightly

\* Nor does any slot notice a step of the process that leaves it running, or of nobody.
LEMMA AllUnchanged ==
  ASSUME SlotsInv, UNCHANGED <<job, pc, on, reply, comics>>,
         server' = server \/ (server # "down" /\ server' # "down")
  PROVE  SlotsInv'
<1> SUFFICES ASSUME NEW c \in Slots PROVE SlotInv(c)'
  BY DEF SlotsInv
<1>1. SlotInv(c)
  BY DEF SlotsInv
<1>2. BodyIsForm(c)'
  BY <1>1 DEF SlotInv, BodyIsForm
<1>3. ServedByProvider(c)' /\ SettledRightly(c)' /\ AnsweredRightly(c)'
  BY <1>1 DEF SlotInv, ServedByProvider, SettledRightly, AnsweredRightly
<1> QED BY <1>1, <1>2, <1>3 DEF SlotInv

LEMMA SentIs ==
  ASSUME NEW kind, NEW b
  PROVE  Sent(kind, b) = [kind |-> kind, body |-> b, stage |-> "sent", awaited |-> TRUE,
                          result |-> None, session |-> None]
<1> DEFINE s == Sent(kind, b)
           r == [kind |-> kind, body |-> b, stage |-> "sent", awaited |-> TRUE,
                 result |-> None, session |-> None]
<1>1. DOMAIN s = DOMAIN r /\ s = [f \in DOMAIN s |-> s[f]] /\ r = [f \in DOMAIN r |-> r[f]]
  BY DEF NoJob, Sent
<1>2. /\ s.kind = kind /\ s.body = b /\ s.stage = "sent" /\ s.awaited = TRUE
      /\ s.result = None /\ s.session = None
  BY DEF NoJob, Sent
<1>3. /\ DOMAIN r = {"kind", "body", "stage", "awaited", "result", "session"}
      /\ r.kind = kind /\ r.body = b /\ r.stage = "sent" /\ r.awaited = TRUE
      /\ r.result = None /\ r.session = None
  OBVIOUS
<1> HIDE DEF s, r
<1>4. \A f \in DOMAIN r : s[f] = r[f]
  BY <1>2, <1>3
<1> QED BY <1>1, <1>4 DEF s, r

\* A request that is sent, and a slot that is free, are as they should be.
LEMMA FreshSlot ==
  ASSUME NEW c \in Slots, pc'[c] = "idle",
         \/ job'[c] = NoJob
         \/ \E kind \in Kinds \ {"none", "create"} : job'[c] = Sent(kind, None)
         \/ \E f \in Forms : job'[c] = Sent("create", FormBody(f))
         \/ server' = "down" /\ \E kind \in Kinds : job'[c] = Sent(kind, None)
  PROVE  SlotInv(c)' /\ job'[c].stage \in {"free", "sent"}
<1> DEFINE Blank(kind, b, stage, awaited) ==
             [kind |-> kind, body |-> b, stage |-> stage, awaited |-> awaited,
              result |-> None, session |-> None]
<1>1. NoJob = Blank("none", None, "free", FALSE)
  BY DEF NoJob
<1>2. ASSUME NEW kind, NEW b PROVE Sent(kind, b) = Blank(kind, b, "sent", TRUE)
  BY SentIs
<1>3. ASSUME NEW kind \in Kinds, NEW b, NEW stage \in {"free", "sent"}, NEW awaited \in BOOLEAN,
             job'[c] = Blank(kind, b, stage, awaited),
             kind = "create" => server' = "down" \/ b \in {FormBody(f) : f \in Forms}
      PROVE  SlotInv(c)' /\ job'[c].stage \in {"free", "sent"}
  BY <1>3 DEF Stages, SlotInv, JobIsRecord, BodyIsForm, ServedByProvider,
     SettledRightly, AnsweredRightly
<1>4. CASE job'[c] = NoJob
  BY <1>1, <1>3, <1>4 DEF Kinds
<1>5. CASE \E kind \in Kinds \ {"none", "create"} : job'[c] = Sent(kind, None)
  BY <1>2, <1>3, <1>5
<1>6. CASE \E f \in Forms : job'[c] = Sent("create", FormBody(f))
  BY <1>2, <1>3, <1>6 DEF Kinds
<1>7. CASE server' = "down" /\ \E kind \in Kinds : job'[c] = Sent(kind, None)
  BY <1>2, <1>3, <1>7
<1> QED BY <1>4, <1>5, <1>6, <1>7

LEMMA ClickKeeps ==
  ASSUME IInv, NEW c \in Slots, Click(c)
  PROVE  IInv'
<1>1. PICK kind, b : /\ Submit(c, kind, b)
                     /\ \/ kind \in Kinds \ {"none", "create"} /\ b = None
                        \/ kind = "create" /\ \E f \in Forms : b = FormBody(f)
  BY DEF Click, ClickRefresh, ClickOpen, ClickClose, ClickCreate, Kinds
<1>2. pc[c] = "idle" /\ DOMAIN job = Slots
  BY <1>1 DEF IInv, SlotsInv, SlotInv, ServedByProvider, Submit
<1>3. job'[c] = Sent(kind, b) /\ DOMAIN job' = Slots /\ \A d \in Slots \ {c} : job'[d] = job[d]
  BY <1>1, <1>2 DEF Submit
<1>4. SlotInv(c)'
  BY <1>1, <1>2, <1>3, FreshSlot DEF Submit, providerVars
<1>5. SlotsInv'
  BY <1>1, <1>3, <1>4, OthersUnchanged DEF IInv, Submit, providerVars, storeVars
<1>6. ProviderProofs!IInv'
  BY <1>1, ReplyUsedKeepsProvider DEF IInv, Submit, providerVars
<1> QED BY <1>1, <1>5, <1>6 DEF IInv, Submit, storeVars, LedgerAgrees, ToldIsMade, DownIsIdle, Flags

\* A provider call only moves the slot or the signal it is made for.
LEMMA CallTouchesItsOwn ==
  ASSUME IInv, NEW c \in Slots \cup Signals, Provider!Call(c)
  PROVE  \A d \in (Slots \cup Signals) \ {c} :
            pc'[d] = pc[d] /\ on'[d] = on[d] /\ reply'[d] = reply[d]
<1>1. (\E r : Provider!Return(c, r)) \/ (\E p, s : Provider!Suspend(c, p, s))
  BY DEF Provider!Call, Provider!OpenRejected, Provider!OpenAlreadyOpen, Provider!OpenJoins,
     Provider!OpenCreates, Provider!CloseRejected, Provider!CloseJoins, Provider!CloseNow,
     Provider!ShutdownJoins, Provider!ShutdownDefers, Provider!ShutdownNothingOpen,
     Provider!ShutdownNow, Provider!WithRuntimeRejected, Provider!WithRuntimeStarts
<1> QED BY <1>1, CallTypes DEF Provider!Return, Provider!Suspend

\* What a slot's own call does to it.
LEMMA RouteCalls ==
  ASSUME IInv, NEW c \in Slots, NEW kind \in {"open", "close", "create"},
         \/ kind = "open" /\ (\/ Provider!OpenRejected(c) \/ Provider!OpenAlreadyOpen(c)
                              \/ Provider!OpenJoins(c) \/ Provider!OpenCreates(c))
         \/ kind = "close" /\ (\/ Provider!CloseRejected(c) \/ Provider!CloseJoins(c)
                               \/ Provider!CloseNow(c))
         \/ kind = "create" /\ (Provider!WithRuntimeRejected(c) \/ Provider!WithRuntimeStarts(c))
  PROVE  /\ Provider!Call(c)
         /\ pc'[c] = "operating" => on'[c] \in Sessions
         /\ pc'[c] \in Suspended(kind) \/ (pc'[c] = "idle" /\ reply'[c] \in RouteReplies(kind))
<1> DEFINE Comes == \E r \in RouteReplies(kind) : Provider!Return(c, r)
           Waits == \E p \in Suspended(kind) : \E s :
                       Provider!Suspend(c, p, s) /\ (p = "operating" => s \in Sessions)
<1>1. Provider!Call(c)
  BY DEF Provider!Call
<1>2. ASSUME kind = "open" PROVE Comes \/ Waits
  <2>1. Provider!OpenRejected(c) \/ Provider!OpenAlreadyOpen(c) => Comes
    BY <1>2 DEF Provider!OpenRejected, Provider!OpenAlreadyOpen, RouteReplies, Provider!States
  <2>2. Provider!OpenJoins(c) \/ Provider!OpenCreates(c) => Waits
    BY <1>2 DEF Provider!OpenJoins, Provider!OpenCreates, Suspended
  <2> QED BY <1>2, <2>1, <2>2
<1>3. ASSUME kind = "close" PROVE Comes \/ Waits
  <2>1. Provider!CloseRejected(c) \/ Provider!CloseNow(c) => Comes
    BY <1>3 DEF Provider!CloseRejected, Provider!CloseNow, RouteReplies, Provider!States
  <2>2. Provider!CloseJoins(c) => Waits
    BY <1>3 DEF Provider!CloseJoins, Suspended
  <2> QED BY <1>3, <2>1, <2>2
<1>4. ASSUME kind = "create" PROVE Comes \/ Waits
  <2>1. Provider!WithRuntimeRejected(c) => Comes
    BY <1>4 DEF Provider!WithRuntimeRejected, RouteReplies
  <2>2. Provider!WithRuntimeStarts(c) => Waits
    BY <1>4, CallTypes DEF Provider!WithRuntimeStarts, Suspended
  <2> QED BY <1>4, <2>1, <2>2
<1>5. Comes \/ Waits
  BY <1>2, <1>3, <1>4
<1>6. CASE Comes
  BY <1>1, <1>6, CallTypes DEF Provider!Return
<1>7. CASE Waits
  BY <1>1, <1>7, CallTypes DEF Provider!Suspend, Suspended
<1> QED BY <1>5, <1>6, <1>7

\* The two updates a route makes to its request.
LEMMA JobServed ==
  ASSUME NEW j, JobIsRecord(j), NEW stage
  PROVE  [j EXCEPT !.stage = stage] =
           [kind |-> j.kind, body |-> j.body, stage |-> stage, awaited |-> j.awaited,
            result |-> j.result, session |-> j.session]
  BY DEF JobIsRecord

LEMMA JobEnded ==
  ASSUME NEW j, JobIsRecord(j), NEW stage, NEW result
  PROVE  [j EXCEPT !.stage = stage, !.result = result] =
           [kind |-> j.kind, body |-> j.body, stage |-> stage, awaited |-> j.awaited,
            result |-> result, session |-> j.session]
<1> DEFINE ended == [j EXCEPT !.stage = stage, !.result = result]
<1>1. /\ DOMAIN j = {"kind", "body", "stage", "awaited", "result", "session"}
      /\ j = [f \in DOMAIN j |-> j[f]]
  BY DEF JobIsRecord
<1>2. ASSUME NEW k, DOMAIN k = DOMAIN j, k = [f \in DOMAIN k |-> k[f]] PROVE JobIsRecord(k)
  BY <1>1, <1>2 DEF JobIsRecord
<1>3. JobIsRecord(ended)
  BY <1>1, <1>2
<1>4. /\ ended.kind = j.kind /\ ended.body = j.body /\ ended.stage = stage
      /\ ended.awaited = j.awaited /\ ended.result = result /\ ended.session = j.session
  BY <1>1
<1> HIDE DEF ended
<1>5. ended = [kind |-> j.kind, body |-> j.body, stage |-> stage, awaited |-> j.awaited,
               result |-> result, session |-> j.session]
  BY <1>3, <1>4 DEF JobIsRecord
<1> QED BY <1>5 DEF ended

LEMMA ArriveKeeps ==
  ASSUME IInv, NEW c \in Slots, Arrive(c)
  PROVE  IInv'
<1>1. SlotInv(c) /\ DOMAIN job = Slots /\ job[c].stage = "sent" /\ pc[c] = "idle"
  BY DEF Arrive, IInv, SlotsInv, SlotInv, ServedByProvider
<1> DEFINE Updated(b, stage, result) ==
             [kind |-> job[c].kind, body |-> b, stage |-> stage, awaited |-> job[c].awaited,
              result |-> result, session |-> job[c].session]
<1>2. /\ JobIsRecord(job[c]) /\ job[c].kind \in Kinds /\ job[c].awaited \in BOOLEAN
      /\ server = "listening" /\ server' = server
  BY <1>1 DEF SlotInv, Arrive
<1>3. ASSUME ArriveHealth(c) PROVE ProviderProofs!IInv' /\ SlotsInv'
  <2>1. job' = [job EXCEPT ![c] = Updated(job[c].body, "answered", Success(state))]
    <3>1. job' = [job EXCEPT ![c] = [job[c] EXCEPT !.stage = "answered", !.result = Success(state)]]
      BY <1>1, <1>3 DEF ArriveHealth, AnsweredWith
    <3>2. [job[c] EXCEPT !.stage = "answered", !.result = Success(state)]
            = Updated(job[c].body, "answered", Success(state))
      BY <1>2, JobEnded
    <3> HIDE DEF Updated
    <3> QED BY <3>1, <3>2
  <2>2. SlotInv(c)'
    BY <1>1, <1>2, <1>3, <2>1, CallTypes DEF ArriveHealth, providerVars, SlotInv, JobIsRecord,
       Kinds, Stages, BodyIsForm, ServedByProvider, SettledRightly, AnsweredRightly
  <2>3. SlotsInv'
    BY <1>1, <1>2, <1>3, <2>1, <2>2, OthersUnchanged DEF IInv, Arrive, storeVars, ArriveHealth, providerVars
  <2> QED BY <1>3, <2>3, ReplyUsedKeepsProvider DEF IInv, ArriveHealth, providerVars
<1>4. ASSUME job[c].kind \in {"open", "close", "create"}, Provider!Call(c),
             pc'[c] = "operating" => on'[c] \in Sessions,
             \/ pc'[c] \in Suspended(job[c].kind)
             \/ pc'[c] = "idle" /\ reply'[c] \in RouteReplies(job[c].kind),
             NEW b, job[c].kind = "create" => b \in Accepted,
             job' = [job EXCEPT ![c] = Updated(b, "serving", job[c].result)]
      PROVE  ProviderProofs!IInv' /\ SlotsInv'
  <2>1. SlotInv(c)'
    BY <1>1, <1>2, <1>4 DEF SlotInv, JobIsRecord, Kinds, Stages, BodyIsForm, ServedByProvider,
       SettledRightly, AnsweredRightly, Suspended, RouteReplies
  <2>2. SlotsInv'
    BY <1>1, <1>2, <1>4, <2>1, OthersUnchanged, CallTouchesItsOwn DEF IInv, Arrive, storeVars
  <2> QED BY <1>4, <2>2, CallKeepsProvider DEF IInv
<1>5. ASSUME ArriveOpen(c) PROVE ProviderProofs!IInv' /\ SlotsInv'
  <2>1. job' = [job EXCEPT ![c] = Updated(job[c].body, "serving", job[c].result)]
    BY <1>1, <1>2, <1>5, JobServed DEF ArriveOpen, Serving
  <2> HIDE DEF Updated
  <2> QED BY <1>4, <1>5, <2>1, RouteCalls DEF ArriveOpen
<1>6. ASSUME ArriveClose(c) PROVE ProviderProofs!IInv' /\ SlotsInv'
  <2>1. job' = [job EXCEPT ![c] = Updated(job[c].body, "serving", job[c].result)]
    BY <1>1, <1>2, <1>6, JobServed DEF ArriveClose, Serving
  <2> HIDE DEF Updated
  <2> QED BY <1>4, <1>6, <2>1, RouteCalls DEF ArriveClose
<1>7. ASSUME ArriveCreate(c) PROVE ProviderProofs!IInv' /\ SlotsInv'
  <2>1. PICK f \in Forms : job[c].body = FormBody(f)
    BY <1>1, <1>2, <1>7 DEF SlotInv, BodyIsForm, ArriveCreate
  <2>2. CASE ~RequestValid(job[c].body)
    <3>1. /\ job' = [job EXCEPT ![c] = Updated(job[c].body, "answered", Failure("VALIDATION_FAILED"))]
          /\ UNCHANGED providerVars
      BY <1>1, <1>2, <1>7, <2>2 DEF ArriveCreate, AnsweredWith, JobIsRecord
    <3>2. SlotInv(c)'
      BY <1>1, <1>2, <1>7, <2>1, <3>1 DEF ArriveCreate, providerVars, SlotInv, JobIsRecord,
         Kinds, Stages, BodyIsForm, ServedByProvider, SettledRightly, AnsweredRightly
    <3>3. SlotsInv'
      BY <1>1, <1>2, <3>1, <3>2, OthersUnchanged DEF IInv, Arrive, storeVars, providerVars
    <3> QED BY <3>1, <3>3, ReplyUsedKeepsProvider DEF IInv, providerVars
  <2>3. CASE RequestValid(job[c].body)
    <3>1. /\ job' = [job EXCEPT ![c] = Updated(Received(job[c].body), "serving", job[c].result)]
          /\ Provider!WithRuntimeRejected(c) \/ Provider!WithRuntimeStarts(c)
      BY <1>1, <1>2, <1>7, <2>3 DEF ArriveCreate, JobIsRecord
    <3>2. Received(job[c].body) \in Accepted
      BY <2>1, <2>3 DEF Accepted
    <3> HIDE DEF Updated
    <3> QED BY <1>4, <1>7, <3>1, <3>2, RouteCalls DEF ArriveCreate
  <2> QED BY <2>2, <2>3
<1>8. ProviderProofs!IInv' /\ SlotsInv'
  BY <1>3, <1>5, <1>6, <1>7 DEF Arrive
<1> QED BY <1>2, <1>8 DEF IInv, Arrive, storeVars, LedgerAgrees, ToldIsMade, DownIsIdle, Flags

\* The use case settles: c gets the result, and its provider call comes back.
LEMMA FinishKeeps ==
  ASSUME IInv, NEW c \in Slots, pc[c] = "operating", server # "down", server' = server,
         NEW result, Finish(c, result),
         \A s \in Sessions : comics[s] \subseteq comics'[s],
         \/ result = Err("INTERNAL_ERROR")
         \/ \E e \in comics'[on[c]] :
              /\ e.input.idempotencyKey = job[c].body.idempotencyKey
              /\ result = IF CanonicalInput(e.input) = CanonicalInput(job[c].body)
                          THEN Ok(e.comic) ELSE Err("IDEMPOTENCY_CONFLICT")
  PROVE  ProviderProofs!IInv' /\ SlotsInv'
<1>1. SlotInv(c) /\ DOMAIN job = Slots
  BY DEF IInv, SlotsInv
<1>2. /\ JobIsRecord(job[c]) /\ job[c].awaited \in BOOLEAN
      /\ job[c].stage = "serving" /\ job[c].kind = "create" /\ on[c] \in Sessions
      /\ job[c].body \in Accepted
  BY <1>1 DEF SlotInv, ServedByProvider, BodyIsForm, Suspended
<1> DEFINE settled == [job[c] EXCEPT !.stage = "settled", !.result = result, !.session = on[c]]
<1>3. job' = [job EXCEPT ![c] = settled]
  BY <1>1 DEF Finish
<1>4. /\ DOMAIN job[c] = {"kind", "body", "stage", "awaited", "result", "session"}
      /\ job[c] = [f \in DOMAIN job[c] |-> job[c][f]]
  BY <1>2 DEF JobIsRecord
<1>5. /\ DOMAIN settled = DOMAIN job[c] /\ settled = [f \in DOMAIN settled |-> settled[f]]
      /\ settled.kind = "create" /\ settled.body = job[c].body /\ settled.stage = "settled"
      /\ settled.awaited = job[c].awaited /\ settled.result = result /\ settled.session = on[c]
  BY <1>2, <1>4
<1> HIDE DEF settled
<1>6. JobIsRecord(settled)
  BY <1>4, <1>5 DEF JobIsRecord
<1>7. /\ pc'[c] = "idle"
      /\ \A d \in Slots \ {c} : pc'[d] = pc[d] /\ on'[d] = on[d] /\ reply'[d] = reply[d]
  BY CallTypes DEF Finish, Provider!OperationSettles, Provider!Return
<1>8. SlotInv(c)'
  BY <1>1, <1>2, <1>3, <1>5, <1>6, <1>7 DEF SlotInv, Kinds, Stages, BodyIsForm,
     ServedByProvider, SettledRightly, AnsweredRightly
<1>9. SlotsInv'
  BY <1>1, <1>3, <1>7, <1>8, OthersUnchanged DEF IInv
<1> QED BY <1>9, OperationKeepsProvider DEF IInv, Finish

LEMMA CreateKeepsLedger ==
  ASSUME IInv, NEW c \in Slots, pc[c] = "operating", server # "down", CreateNew(c)
  PROVE  /\ LedgerAgrees' /\ created' \in 0 .. MaxComics
         /\ \A s \in Sessions : comics[s] \subseteq comics'[s]
         /\ \E comic : Finish(c, Ok(comic)) /\ Entry(job[c].body, comic) \in comics'[on[c]]
<1> DEFINE s == on[c]
           i == job[c].body
           n == created + 1
           comic == Created(i, ComicId[n], TitleId[n], Now[n])
           new == Entry(i, comic)
<1>1. s \in Sessions /\ i \in Accepted
  BY DEF IInv, SlotsInv, SlotInv, ServedByProvider, BodyIsForm, Suspended
<1>2. n \in 1 .. MaxComics
  BY DemoAssumption DEF IInv, Flags, CreateNew
<1>3. ComicId[n] \in Uuids /\ TitleId[n] \in Uuids /\ Now[n] \in Instants
  BY <1>2, DemoAssumption
<1>4. new.input = i /\ new.comic = comic
  BY DEF Entry
<1>5. /\ ledger' = [ledger EXCEPT ![s] = @ \cup {Row(new)}]
      /\ comics' = [comics EXCEPT ![s] = @ \cup {new}]
      /\ created' = n /\ RowsOf(s, i.idempotencyKey) = {}
      /\ Finish(c, Ok(comic))
  BY <1>4 DEF CreateNew, Row, Entry
<1> HIDE DEF comic, new
<1>6. LedgerAgrees
  BY DEF IInv
<1>7. \A e \in comics[s] : e.input.idempotencyKey # i.idempotencyKey
  <2> SUFFICES ASSUME NEW e \in comics[s], e.input.idempotencyKey = i.idempotencyKey PROVE FALSE
    OBVIOUS
  <2>1. Row(e) \in ledger[s] /\ Row(e).key = i.idempotencyKey
    BY <1>1, <1>6 DEF LedgerAgrees, Row
  <2> QED BY <1>5, <2>1 DEF RowsOf
<1>8. DOMAIN ledger' = Sessions /\ DOMAIN comics' = Sessions
  BY <1>5, <1>6 DEF LedgerAgrees
<1>9. /\ ledger'[s] = ledger[s] \cup {Row(new)} /\ comics'[s] = comics[s] \cup {new}
      /\ \A t \in Sessions \ {s} : ledger'[t] = ledger[t] /\ comics'[t] = comics[t]
  BY <1>1, <1>5, <1>6 DEF LedgerAgrees
<1>10. \A t \in Sessions : ledger'[t] = {Row(e) : e \in comics'[t]}
  BY <1>6, <1>9 DEF LedgerAgrees
<1>11. \A t \in Sessions : \A d, e \in comics'[t] :
          d.input.idempotencyKey = e.input.idempotencyKey => d = e
  BY <1>4, <1>6, <1>7, <1>9 DEF LedgerAgrees
<1>12. \A t \in Sessions : \A e \in comics'[t] :
          /\ e.input \in Accepted
          /\ \E u \in Uuids, v \in Uuids, d \in Instants : e.comic = Created(e.input, u, v, d)
  <2>1. \E u \in Uuids, v \in Uuids, d \in Instants : new.comic = Created(new.input, u, v, d)
    BY <1>3, <1>4 DEF comic
  <2> QED BY <1>1, <1>4, <1>6, <1>9, <2>1 DEF LedgerAgrees
<1>13. LedgerAgrees'
  BY <1>8, <1>10, <1>11, <1>12 DEF LedgerAgrees, Row
<1>14. \A t \in Sessions : comics[t] \subseteq comics'[t]
  BY <1>9
<1> QED BY <1>2, <1>5, <1>9, <1>13, <1>14 DEF new

LEMMA TransactionKeeps ==
  ASSUME IInv, NEW c \in Slots, Transaction(c)
  PROVE  IInv'
<1>1. /\ pc[c] = "operating" /\ server # "down" /\ server' = server
      /\ UNCHANGED <<busy, stop, told>>
  BY DEF Transaction, EventLoop
<1>2. on[c] \in Sessions /\ job[c].stage = "serving"
  BY <1>1 DEF IInv, SlotsInv, SlotInv, ServedByProvider
<1>3. ASSUME CreateNew(c) PROVE IInv'
  <2>1. PICK comic : Finish(c, Ok(comic)) /\ Entry(job[c].body, comic) \in comics'[on[c]]
    BY <1>1, <1>3, CreateKeepsLedger
  <2>2. /\ LedgerAgrees' /\ created' \in 0 .. MaxComics
        /\ \A s \in Sessions : comics[s] \subseteq comics'[s]
    BY <1>1, <1>3, CreateKeepsLedger
  <2>3. /\ Entry(job[c].body, comic).input = job[c].body
        /\ Entry(job[c].body, comic).comic = comic
    BY DEF Entry
  <2>4. ProviderProofs!IInv' /\ SlotsInv'
    BY <1>1, <2>1, <2>2, <2>3, FinishKeeps
  <2>5. ToldIsMade'
    BY <1>1, <2>2 DEF IInv, ToldIsMade
  <2> QED BY <1>1, <2>2, <2>4, <2>5 DEF IInv, DownIsIdle, Flags
<1>4. ASSUME UNCHANGED storeVars, NEW result, Finish(c, result),
             \/ result = Err("INTERNAL_ERROR")
             \/ \E e \in comics[on[c]] :
                  /\ e.input.idempotencyKey = job[c].body.idempotencyKey
                  /\ result = IF CanonicalInput(e.input) = CanonicalInput(job[c].body)
                              THEN Ok(e.comic) ELSE Err("IDEMPOTENCY_CONFLICT")
      PROVE  IInv'
  <2>1. ProviderProofs!IInv' /\ SlotsInv'
    BY <1>1, <1>4, FinishKeeps DEF storeVars
  <2> QED BY <1>1, <1>4, <2>1 DEF storeVars, IInv, LedgerAgrees, ToldIsMade, DownIsIdle, Flags
<1>5. ASSUME Reuse(c) PROVE IInv'
  <2>1. PICK row \in ledger[on[c]] :
          /\ row.key = job[c].body.idempotencyKey
          /\ Finish(c, IF row.hash = CanonicalInput(job[c].body) THEN Parse(row.payload)
                       ELSE Err("IDEMPOTENCY_CONFLICT"))
    BY <1>5 DEF Reuse, RowsOf
  <2>2. PICK e \in comics[on[c]] : row = Row(e)
    BY <1>2, <2>1 DEF IInv, LedgerAgrees
  <2>3. /\ row.key = e.input.idempotencyKey /\ row.hash = CanonicalInput(e.input)
        /\ row.payload = Json(e.comic)
    BY <2>2 DEF Row
  <2>4. Parse(Json(e.comic)) = Ok(e.comic)
    BY <1>2, StoredComic DEF IInv
  <2> QED BY <1>4, <1>5, <2>1, <2>3, <2>4 DEF Reuse
<1>6. ASSUME TransactionFails(c) PROVE IInv'
  BY <1>4, <1>6 DEF TransactionFails
<1> QED BY <1>3, <1>5, <1>6 DEF Transaction

LEMMA ProviderReactsKeeps ==
  ASSUME IInv, NEW s \in Sessions, ProviderReacts(s)
  PROVE  IInv'
<1>1. /\ server # "down" /\ UNCHANGED <<storeVars, busy, job, server, stop, told>>
      /\ \/ Provider!CreateSettles(s) \/ Provider!OpenPromiseSettles(s)
         \/ Provider!ShutdownContinues(s)
  BY DEF ProviderReacts
<1>2. ProviderProofs!IInv'
  BY <1>1, ReactionKeepsProvider DEF IInv
<1>3. ASSUME NEW c \in Slots
      PROVE  \/ pc'[c] = pc[c] /\ on'[c] = on[c] /\ reply'[c] = reply[c]
             \/ /\ pc[c] \in {"opening", "openingBehindClose", "closing"} /\ pc'[c] = "idle"
                /\ reply'[c] \in RouteReplies("open")
  <2>1. CASE Provider!CreateSettles(s)
    BY <2>1 DEF Provider!CreateSettles, Provider!CreateResolves, Provider!CreateRejects, Provider!calls
  <2>2. CASE Provider!OpenPromiseSettles(s)
    BY <2>2, CallTypes DEF Provider!OpenPromiseSettles, Provider!ReturnAll, Provider!Awaiting,
       Provider!Resumed, RouteReplies, Provider!States
  <2>3. CASE Provider!ShutdownContinues(s)
    <3>1. pc[c] # "shutdown"
      BY DEF IInv, SlotsInv, SlotInv, ServedByProvider, Suspended
    <3> QED BY <2>3, <3>1 DEF Provider!ShutdownContinues, Provider!ReturnAll
  <2> QED BY <1>1, <2>1, <2>2, <2>3
<1>4. ASSUME NEW c \in Slots PROVE SlotInv(c)'
  <2>1. SlotInv(c)
    BY DEF IInv, SlotsInv
  <2>2. ServedByProvider(c)'
    BY <1>1, <1>3, <2>1 DEF SlotInv, ServedByProvider, Suspended, RouteReplies
  <2> QED BY <1>1, <2>1, <2>2 DEF SlotInv, BodyIsForm, SettledRightly, AnsweredRightly, storeVars
<1>5. SlotsInv'
  BY <1>1, <1>4 DEF IInv, SlotsInv
<1> QED BY <1>1, <1>2, <1>5 DEF IInv, storeVars, LedgerAgrees, ToldIsMade, DownIsIdle, Flags

\* Every failure is answered with a code the client knows.
LEMMA FailureIsRead ==
  ASSUME NEW code \in ApiErrorCodes, NEW parsed
  PROVE  Accept(Failure(code), parsed) = Err(code)
<1>1. StatusOf[code] # 200
  BY DEF ApiErrorCodes, StatusOf
<1> QED BY <1>1 DEF Accept, Failure

LEMMA SummaryIsRead ==
  ASSUME NEW st \in Provider!States
  PROVE  Accept(Success(st), SummaryParsed(Success(st).body)) = Ok(st)
  BY DEF Accept, Success, SummaryParsed

\* What the client makes of an answer: a value, or an error code; and of a creation's,
\* the session's comic for its key.
LEMMA OutcomeIsRead ==
  ASSUME IInv, NEW c \in Slots, Answered(c)
  PROVE  \/ /\ job[c].kind # "create"
            /\ Outcome(c).ok
         \/ /\ job[c].kind = "create" /\ job[c].stage = "settled" /\ job[c].session \in Sessions
            /\ job[c].body \in Accepted
            /\ \E e \in comics[job[c].session] :
                  /\ e.input.idempotencyKey = job[c].body.idempotencyKey
                  /\ Outcome(c) = Ok(Json(e.comic))
         \/ \E code \in ApiErrorCodes : Outcome(c) = Err(code)
<1>1. /\ server # "down" /\ pc[c] = "idle" /\ job[c].stage \in {"serving", "settled", "answered"}
      /\ SlotInv(c)
  BY DEF Answered, IInv, SlotsInv
<1>2. \A v : Ok(v).ok
  BY DEF Ok
<1>3. CASE job[c].stage = "answered"
  <2>1. Answer(c) = job[c].result
    BY <1>3 DEF Answer
  <2>2. CASE job[c].kind = "create" /\ job[c].result = Failure("VALIDATION_FAILED")
    <3>1. "VALIDATION_FAILED" \in ApiErrorCodes
      BY DEF ApiErrorCodes, StatusOf
    <3> QED BY <2>1, <2>2, <3>1, FailureIsRead DEF Outcome
  <2>3. CASE /\ job[c].kind \in {"mount", "health", "createdHealth"}
             /\ \E st \in Provider!States : job[c].result = Success(st)
    BY <1>2, <2>1, <2>3, SummaryIsRead DEF Outcome
  <2> QED BY <1>1, <1>3, <2>2, <2>3 DEF SlotInv, AnsweredRightly
<1>4. CASE job[c].stage = "settled"
  <2>1. /\ job[c].kind = "create" /\ job[c].session \in Sessions /\ job[c].body \in Accepted
    BY <1>1, <1>4 DEF SlotInv, SettledRightly, BodyIsForm
  <2>2. /\ Answer(c) = CreateAnswer(job[c].result)
        /\ Outcome(c) = Accept(Answer(c), ComicParsed(Answer(c).body))
    BY <1>4, <2>1 DEF Answer, Outcome
  <2>3. ASSUME NEW code, job[c].result = Err(code)
        PROVE  \E web \in ApiErrorCodes : Outcome(c) = Err(web)
    <3>1. CreateAnswer(Err(code)) = Failure(WebCode(code))
      BY DEF CreateAnswer, Err
    <3>2. WebCode(code) \in ApiErrorCodes
      BY DEF WebCode, ApiErrorCodes, StatusOf
    <3> QED BY <2>2, <2>3, <3>1, <3>2, FailureIsRead
  <2>4. ASSUME NEW e \in comics[job[c].session], job[c].result = Ok(e.comic)
        PROVE  Outcome(c) = Ok(Json(e.comic))
    <3>1. IsComic(e.comic) /\ CleanTexts(e.comic)
      BY <2>1, StoredComic DEF IInv
    <3> QED BY <2>2, <2>4, <3>1, ClientReadsComics
  <2> QED BY <1>1, <1>4, <2>1, <2>3, <2>4 DEF SlotInv, SettledRightly
<1>5. CASE job[c].stage = "serving"
  <2>1. reply[c] \in RouteReplies(job[c].kind) /\ job[c].kind \in {"open", "close", "create"}
    BY <1>1, <1>5 DEF SlotInv, ServedByProvider, Suspended
  <2>2. CASE reply[c] \in Provider!States
    <3>1. job[c].kind # "create"
      BY <2>1, <2>2 DEF RouteReplies, Provider!States
    <3>2. Answer(c) = Success(reply[c])
      BY <1>5, <2>2 DEF Answer
    <3> QED BY <1>2, <2>2, <3>1, <3>2, SummaryIsRead DEF Outcome
  <2>3. CASE reply[c] \notin Provider!States
    <3>1. reply[c] \in ApiErrorCodes
      BY <2>1, <2>3 DEF RouteReplies, ApiErrorCodes, StatusOf
    <3>2. Answer(c) = Failure(reply[c])
      BY <1>5, <2>3 DEF Answer
    <3> QED BY <3>1, <3>2, FailureIsRead DEF Outcome
  <2> QED BY <2>2, <2>3
<1> QED BY <1>1, <1>3, <1>4, <1>5

\* A slot becomes free, or carries the refresh after a creation.
LEMMA SlotDone ==
  ASSUME IInv, NEW c \in Slots, pc[c] = "idle",
         \E v : /\ job' = [job EXCEPT ![c] = v]
                /\ v = NoJob \/ \E kind \in Kinds \ {"none", "create"} : v = Sent(kind, None),
         UNCHANGED <<pc, on, server, comics>>,
         reply' = reply \/ reply' = [reply EXCEPT ![c] = "none"]
  PROVE  SlotsInv' /\ DownIsIdle'
<1>1. DOMAIN job = Slots /\ DOMAIN job' = Slots
  BY DEF IInv, SlotsInv
<1>2. SlotInv(c)' /\ job'[c].stage \in {"free", "sent"}
  BY <1>1, FreshSlot
<1>3. SlotsInv'
  BY <1>1, <1>2, OthersUnchanged, CallTypes DEF IInv
<1> QED BY <1>1, <1>2, <1>3 DEF IInv, DownIsIdle

LEMMA DeliverKeeps ==
  ASSUME IInv, NEW c \in Slots, Deliver(c)
  PROVE  IInv'
<1>1. /\ Answered(c) /\ pc[c] = "idle" /\ Consumed(c)
      /\ UNCHANGED <<storeVars, server, stop>>
  BY DEF Deliver, Answered
<1>2. ProviderProofs!IInv'
  BY <1>1, ReplyUsedKeepsProvider DEF IInv, Consumed
<1>3. CASE job[c].kind = "create" /\ Outcome(c).ok
  <2>1. DeliverCreated(c)
    BY <1>3 DEF Deliver
  <2>2. SlotsInv' /\ DownIsIdle'
    BY <1>1, <2>1, SlotDone DEF DeliverCreated, Consumed, storeVars, Kinds
  <2>3. PICK e \in comics[job[c].session] :
          /\ e.input.idempotencyKey = job[c].body.idempotencyKey
          /\ Outcome(c).value = Json(e.comic)
          /\ job[c].session \in Sessions /\ job[c].body.idempotencyKey \in Keys
    BY <1>1, <1>3, OutcomeIsRead, AcceptedIsValid DEF Ok, Err
  <2>4. ToldIsMade'
    BY <1>1, <2>1, <2>3 DEF IInv, ToldIsMade, DeliverCreated, storeVars
  <2> QED BY <1>1, <1>2, <2>1, <2>2, <2>4 DEF IInv, DeliverCreated, storeVars, LedgerAgrees, Flags
<1>4. CASE ~(job[c].kind = "create" /\ Outcome(c).ok)
  <2>1. DeliverOther(c)
    BY <1>4 DEF Deliver
  <2>2. SlotsInv' /\ DownIsIdle'
    BY <1>1, <2>1, SlotDone DEF DeliverOther, Consumed, storeVars
  <2> QED BY <1>1, <1>2, <2>1, <2>2 DEF IInv, DeliverOther, OperationEnds, storeVars,
          LedgerAgrees, ToldIsMade, Flags
<1> QED BY <1>3, <1>4

LEMMA DiscardKeeps ==
  ASSUME IInv, NEW c \in Slots, Discard(c)
  PROVE  IInv'
<1>1. SlotsInv' /\ DownIsIdle'
  BY SlotDone DEF Discard, Answered, Consumed, storeVars
<1>2. ProviderProofs!IInv'
  BY ReplyUsedKeepsProvider DEF IInv, Discard, Consumed
<1> QED BY <1>1, <1>2 DEF IInv, Discard, storeVars, LedgerAgrees, ToldIsMade, Flags

LEMMA LoseKeeps ==
  ASSUME IInv, NEW c \in Slots, Lose(c)
  PROVE  IInv'
<1>1. SlotInv(c) /\ DOMAIN job = Slots
  BY DEF IInv, SlotsInv
<1>2. UNCHANGED <<providerVars, storeVars, server, stop, told>> /\ busy' \in BOOLEAN
  BY DEF Lose, OperationEnds
<1>3. ProviderProofs!IInv'
  BY <1>2, ReplyUsedKeepsProvider DEF IInv, providerVars
<1>4. SlotsInv' /\ DownIsIdle'
  <2>1. CASE job' = [job EXCEPT ![c].awaited = FALSE]
    <3>1. /\ job'[c] = [job[c] EXCEPT !.awaited = FALSE] /\ DOMAIN job' = Slots
          /\ \A d \in Slots \ {c} : job'[d] = job[d]
      BY <1>1, <2>1
    <3>2. /\ JobIsRecord(job'[c]) /\ job'[c].kind = job[c].kind /\ job'[c].body = job[c].body
          /\ job'[c].stage = job[c].stage /\ job'[c].awaited = FALSE
          /\ job'[c].result = job[c].result /\ job'[c].session = job[c].session
      BY <1>1, <3>1 DEF SlotInv, JobIsRecord
    <3>3. SlotInv(c)'
      BY <1>1, <1>2, <3>2 DEF SlotInv, BodyIsForm, ServedByProvider, SettledRightly,
         AnsweredRightly, providerVars, storeVars
    <3>4. SlotsInv'
      BY <1>2, <3>1, <3>3, OthersUnchanged DEF IInv, providerVars, storeVars
    <3> QED BY <1>2, <3>1, <3>2, <3>4 DEF IInv, DownIsIdle, providerVars
  <2>2. CASE /\ HasEffect(job[c].kind) => job[c].stage = "sent"
             /\ job' = [job EXCEPT ![c] = NoJob]
    <3>1. pc[c] = "idle"
      BY <1>1, <2>2 DEF SlotInv, ServedByProvider, HasEffect
    <3> QED BY <1>2, <2>2, <3>1, SlotDone DEF providerVars, storeVars
  <2> QED BY <2>1, <2>2 DEF Lose
<1> QED BY <1>2, <1>3, <1>4 DEF IInv, storeVars, LedgerAgrees, ToldIsMade, Flags

LEMMA RefusedKeeps ==
  ASSUME IInv, NEW c \in Slots, Refused(c)
  PROVE  IInv'
<1>1. UNCHANGED <<providerVars, storeVars, server, stop, told>> /\ busy' \in BOOLEAN
  BY DEF Refused, OperationEnds, IInv, Flags
<1>2. pc[c] = "idle"
  BY DEF Refused, IInv, DownIsIdle, SlotsInv, SlotInv, ServedByProvider
<1>3. SlotsInv' /\ DownIsIdle'
  BY <1>1, <1>2, SlotDone DEF Refused, providerVars, storeVars
<1>4. ProviderProofs!IInv'
  BY <1>1, ReplyUsedKeepsProvider DEF IInv, providerVars
<1> QED BY <1>1, <1>3, <1>4 DEF IInv, storeVars, LedgerAgrees, ToldIsMade, Flags

LEMMA SignalKeeps ==
  ASSUME IInv, NEW g \in Signals, Signal(g)
  PROVE  IInv'
<1>1. /\ Provider!Call(g) /\ UNCHANGED <<storeVars, busy, job, server, told>>
      /\ server # "down" /\ stop' = [stop EXCEPT ![g] = "shutdown"]
  BY DEF Signal, Provider!Call
<1>2. \A c \in Slots : pc'[c] = pc[c] /\ on'[c] = on[c] /\ reply'[c] = reply[c]
  BY <1>1, CallTouchesItsOwn, DemoAssumption
<1>3. SlotsInv'
  <2> SUFFICES ASSUME NEW c \in Slots PROVE SlotInv(c)'
    BY <1>1 DEF IInv, SlotsInv
  <2>1. SlotInv(c)
    BY DEF IInv, SlotsInv
  <2>2. SettledRightly(c)'
    BY <1>1, <2>1 DEF SlotInv, SettledRightly, storeVars
  <2> QED BY <1>1, <1>2, <2>1, <2>2 DEF SlotInv, BodyIsForm, ServedByProvider, AnsweredRightly
<1>4. ProviderProofs!IInv'
  BY <1>1, CallKeepsProvider DEF IInv
<1> QED BY <1>1, <1>3, <1>4 DEF IInv, storeVars, LedgerAgrees, ToldIsMade, DownIsIdle, Flags

LEMMA DiesKeeps ==
  ASSUME IInv, Dies, stop' \in [Signals -> {"armed", "shutdown", "closed"}]
  PROVE  IInv'
<1>1. ProviderProofs!IInv'
  BY DeathKeepsProvider DEF IInv
<1>2. ASSUME NEW c \in Slots PROVE SlotInv(c)' /\ job'[c].stage \in {"free", "sent"} /\ pc'[c] = "idle"
  <2>1. pc'[c] = "idle"
    BY CallTypes DEF Dies
  <2>2. job'[c] = NoJob \/ \E kind \in Kinds : job'[c] = Sent(kind, None)
    BY DEF Dies, IInv, SlotsInv, SlotInv
  <2> QED BY <2>1, <2>2, FreshSlot DEF Dies
<1>3. SlotsInv' /\ DownIsIdle'
  BY <1>2 DEF Dies, SlotsInv, DownIsIdle
<1>4. LedgerAgrees' /\ ToldIsMade'
  BY DEF Dies, LedgerAgrees, ToldIsMade
<1> QED BY <1>1, <1>3, <1>4 DEF IInv, Dies, Flags

LEMMA CloseServerKeeps ==
  ASSUME IInv, NEW g \in Signals, CloseServer(g)
  PROVE  IInv'
<1>1. stop' \in [Signals -> {"armed", "shutdown", "closed"}] /\ server # "down"
  BY DEF CloseServer, IInv, Flags
<1>2. CASE server = "closing"
  BY <1>1, <1>2, DiesKeeps DEF CloseServer
<1>3. CASE server # "closing"
  <2>1. server' = "closing" /\ UNCHANGED <<providerVars, storeVars, busy, job, told>>
    BY <1>3 DEF CloseServer
  <2>2. ProviderProofs!IInv'
    BY <2>1, ReplyUsedKeepsProvider DEF IInv, providerVars
  <2>3. SlotsInv'
    BY <1>1, <2>1, AllUnchanged DEF IInv, storeVars, providerVars
  <2> QED BY <1>1, <2>1, <2>2, <2>3 DEF IInv, storeVars, LedgerAgrees, ToldIsMade, DownIsIdle, Flags
<1> QED BY <1>2, <1>3

LEMMA InitEstablishes == Init => IInv
<1> SUFFICES ASSUME Init PROVE IInv
  OBVIOUS
<1>1. ProviderProofs!IInv
  <2>1. ProviderProofs!Init
    BY DEF Init, Provider!Init, ProviderProofs!Init, Provider!Sessions, ProviderProofs!Sessions
  <2> QED BY <2>1, ProviderAssumed, ProviderProofs!InitEstablishes
<1>2. \A c \in Slots : pc[c] = "idle"
  BY DEF Init, Provider!Init
<1>3. ASSUME NEW c \in Slots PROVE SlotInv(c)
  <2>1. NoJob = [kind |-> "none", body |-> None, stage |-> "free", awaited |-> FALSE,
                 result |-> None, session |-> None]
    BY DEF NoJob
  <2>2. Sent("mount", None) = [kind |-> "mount", body |-> None, stage |-> "sent",
                               awaited |-> TRUE, result |-> None, session |-> None]
    BY SentIs
  <2>3. CASE job[c] = NoJob
    BY <1>2, <2>1, <2>3 DEF SlotInv, JobIsRecord, Kinds, Stages, BodyIsForm, ServedByProvider,
       SettledRightly, AnsweredRightly
  <2>4. CASE job[c] = Sent("mount", None)
    <3>1. /\ JobIsRecord(job[c]) /\ job[c].kind = "mount" /\ job[c].stage = "sent"
          /\ job[c].awaited = TRUE
      BY <2>2, <2>4 DEF JobIsRecord
    <3> QED BY <1>2, <3>1 DEF SlotInv, Kinds, Stages, BodyIsForm, ServedByProvider,
            SettledRightly, AnsweredRightly
  <2> QED BY <2>3, <2>4 DEF Init
<1>4. SlotsInv
  BY <1>3 DEF Init, SlotsInv
<1>5. LedgerAgrees /\ ToldIsMade /\ DownIsIdle /\ Flags
  <2>1. created \in 0 .. MaxComics
    BY DemoAssumption DEF Init
  <2> QED BY <2>1 DEF Init, LedgerAgrees, ToldIsMade, DownIsIdle, Flags
<1> QED BY <1>1, <1>4, <1>5 DEF IInv

LEMMA StepPreserves == IInv /\ [Next]_vars => IInv'
<1> SUFFICES ASSUME IInv, [Next]_vars PROVE IInv'
  OBVIOUS
<1>1. ASSUME NEW c \in Slots, Click(c) \/ Progress(c) \/ Lose(c) PROVE IInv'
  BY <1>1, ClickKeeps, ArriveKeeps, TransactionKeeps, DeliverKeeps, DiscardKeeps,
     RefusedKeeps, LoseKeeps DEF Progress
<1>2. ASSUME NEW s \in Sessions, ProviderReacts(s) PROVE IInv'
  BY <1>2, ProviderReactsKeeps
<1>3. ASSUME NEW g \in Signals, Signal(g) \/ CloseServer(g) PROVE IInv'
  BY <1>3, SignalKeeps, CloseServerKeeps
<1>4. ASSUME Exit \/ \E g \in Signals : Killed(g) PROVE IInv'
  BY <1>4, DiesKeeps DEF Exit, Killed, IInv, Flags
<1>5. CASE UNCHANGED vars
  <2>1. ProviderProofs!IInv'
    BY <1>5, ReplyUsedKeepsProvider DEF IInv, vars, providerVars
  <2>2. SlotsInv' /\ DownIsIdle'
    BY <1>5, AllUnchanged DEF IInv, vars, providerVars, storeVars, DownIsIdle
  <2> QED BY <1>5, <2>1, <2>2 DEF IInv, vars, storeVars, LedgerAgrees, ToldIsMade, Flags
<1> QED BY <1>1, <1>2, <1>3, <1>4, <1>5 DEF Next

-----------------------------------------------------------------------------
(* That nothing gets stuck, beside IInv: the shell with its request, the provider calls *)
(* with what they wait for, the process with its signals.                               *)

\* The request the shell is busy with: one it still waits for, and not the first refresh.
Asks(c) == job[c].awaited /\ job[c].kind # "mount"

BusyIsARequest ==
  /\ busy <=> \E c \in Slots : Asks(c)
  /\ \A c, d \in Slots : Asks(c) /\ Asks(d) => c = d

\* The handlers of the signals: nothing before the signal, then the shutdown, then the
\* server is closed.
Handled ==
  \A g \in Signals :
     /\ pc[g] \in {"idle", "shutdown"} /\ (stop[g] = "armed" => pc[g] = "idle")
     /\ stop[g] = "closed" => server # "listening"

\* What a provider call waits for is under way.
Underway(c) ==
  \/ pc[c] \in {"idle", "operating"}
  \/ pc[c] = "shutdown" /\ on[c] \in Sessions /\ chain[on[c]] = "queued"
  \/ on[c] \in Sessions /\ attempt[on[c]] \in {"pending", "fulfilling", "rejecting"}

\* A request that is served has an operation to end, a promise that will settle or an
\* answer to send; a signal whose handler has begun has the same, or closes the server,
\* or has closed it.
NothingHangs ==
  /\ \A c \in Slots : job[c].stage = "serving" => Underway(c)
  /\ \A g \in Signals :
        stop[g] # "armed" => Underway(g) /\ (stop[g] = "shutdown" \/ server # "listening")

LEMMA SameAsks ==
  ASSUME BusyIsARequest, busy' = busy, \A c \in Slots : Asks(c)' <=> Asks(c)
  PROVE  BusyIsARequest'
  BY DEF BusyIsARequest

\* Slot c changes, and the busy state with it.
LEMMA OneAsks ==
  ASSUME BusyIsARequest, NEW c \in Slots, DOMAIN job = Slots, NEW v,
         job' = [job EXCEPT ![c] = v],
         \/ ~busy /\ busy' /\ Asks(c)'
         \/ busy' = busy /\ (Asks(c)' <=> Asks(c))
         \/ ~Asks(c)' /\ Asks(c) /\ ~busy'
  PROVE  BusyIsARequest'
<1>1. \A d \in Slots \ {c} : Asks(d)' <=> Asks(d)
  BY DEF Asks
<1> QED BY <1>1 DEF BusyIsARequest

\* The request is over, for the shell: runWithBusyState.
LEMMA AsksNoMore ==
  ASSUME BusyIsARequest, busy \in BOOLEAN, NEW c \in Slots, DOMAIN job = Slots, NEW v,
         job' = [job EXCEPT ![c] = v], ~Asks(c)',
         \/ job[c].awaited /\ \E ok : OperationEnds(c, ok)
         \/ ~job[c].awaited /\ busy' = busy
  PROVE  BusyIsARequest'
<1>1. CASE Asks(c)
  BY <1>1, OneAsks DEF OperationEnds, Asks
<1>2. CASE ~Asks(c)
  <2>1. busy' = busy
    BY <1>2 DEF Asks, OperationEnds
  <2> QED BY <1>2, <2>1, OneAsks
<1> QED BY <1>1, <1>2

LEMMA NoJobAsksNothing ==
  ASSUME NEW c \in Slots, DOMAIN job = Slots, job' = [job EXCEPT ![c] = NoJob]
  PROVE  ~Asks(c)'
  BY DEF NoJob, Asks

LEMMA BusyKept ==
  ASSUME IInv, BusyIsARequest, [Next]_vars
  PROVE  BusyIsARequest'
<1>1. DOMAIN job = Slots /\ busy \in BOOLEAN
  BY DEF IInv, SlotsInv, Flags
<1>2. ASSUME NEW c \in Slots, Click(c) PROVE BusyIsARequest'
  <2>1. PICK kind, b : kind \in {"health", "open", "close", "create"} /\ Submit(c, kind, b)
    BY <1>2 DEF Click, ClickRefresh, ClickOpen, ClickClose, ClickCreate
  <2>2. job'[c].awaited /\ job'[c].kind = kind
    BY <1>1, <2>1, SentIs DEF Submit
  <2>3. Asks(c)' /\ ~busy /\ busy'
    BY <2>1, <2>2 DEF Submit, Asks
  <2>4. job' = [job EXCEPT ![c] = Sent(kind, b)]
    BY <2>1 DEF Submit
  <2> QED BY <1>1, <2>3, <2>4, OneAsks
<1>3. ASSUME NEW c \in Slots, Arrive(c) \/ Transaction(c) PROVE BusyIsARequest'
  <2>1. JobIsRecord(job[c])
    BY DEF IInv, SlotsInv, SlotInv
  <2>2. busy' = busy /\ \E v : job' = [job EXCEPT ![c] = v] /\ v.kind = job[c].kind
                                                      /\ v.awaited = job[c].awaited
    <3>1. CASE Arrive(c)
      BY <1>1, <2>1, <3>1 DEF Arrive, ArriveHealth, ArriveOpen, ArriveClose, ArriveCreate,
         AnsweredWith, Serving, JobIsRecord
    <3>2. CASE Transaction(c)
      <4>1. \E result : job' = [job EXCEPT ![c].stage = "settled", ![c].result = result,
                                          ![c].session = on[c]]
        BY <3>2 DEF Transaction, CreateNew, Reuse, TransactionFails, Finish
      <4>2. PICK result : job'[c] = [job[c] EXCEPT !.stage = "settled", !.result = result,
                                                  !.session = on[c]]
                          /\ job' = [job EXCEPT ![c] = job'[c]]
        BY <1>1, <4>1
      <4>3. job'[c].kind = job[c].kind /\ job'[c].awaited = job[c].awaited
        BY <2>1, <4>2 DEF JobIsRecord
      <4> QED BY <3>2, <4>2, <4>3 DEF Transaction
    <3> QED BY <1>3, <3>1, <3>2
  <2>3. Asks(c)' <=> Asks(c)
    BY <1>1, <2>2 DEF Asks
  <2> QED BY <1>1, <2>2, <2>3, OneAsks
<1>4. ASSUME NEW c \in Slots, Deliver(c) PROVE BusyIsARequest'
  <2>1. CASE job[c].kind = "create" /\ Outcome(c).ok
    <3>1. job' = [job EXCEPT ![c] = Sent("createdHealth", None)] /\ busy' = busy
      BY <1>4, <2>1 DEF Deliver, DeliverCreated
    <3>2. Asks(c)' /\ Asks(c)
      BY <1>1, <1>4, <2>1, <3>1, SentIs DEF Asks, Deliver
    <3> QED BY <1>1, <3>1, <3>2, OneAsks
  <2>2. CASE ~(job[c].kind = "create" /\ Outcome(c).ok)
    <3>1. DeliverOther(c) /\ job[c].awaited
      BY <1>4, <2>2 DEF Deliver
    <3> QED BY <1>1, <3>1, AsksNoMore, NoJobAsksNothing DEF DeliverOther
  <2> QED BY <2>1, <2>2
<1>5. ASSUME NEW c \in Slots, Discard(c) \/ Refused(c) PROVE BusyIsARequest'
  <2>1. job' = [job EXCEPT ![c] = NoJob]
    BY <1>5 DEF Discard, Refused
  <2>2. \/ job[c].awaited /\ OperationEnds(c, FALSE)
        \/ ~job[c].awaited /\ busy' = busy
    BY <1>5 DEF Discard, Refused
  <2> QED BY <1>1, <2>1, <2>2, AsksNoMore, NoJobAsksNothing
<1>6. ASSUME NEW c \in Slots, Lose(c) PROVE BusyIsARequest'
  <2>1. JobIsRecord(job[c])
    BY DEF IInv, SlotsInv, SlotInv
  <2>2. job' = [job EXCEPT ![c] = NoJob] \/ job' = [job EXCEPT ![c] = [@ EXCEPT !.awaited = FALSE]]
    BY <1>1, <1>6 DEF Lose
  <2>3. ~Asks(c)'
    BY <1>1, <2>1, <2>2, NoJobAsksNothing DEF Asks, JobIsRecord
  <2> QED BY <1>1, <1>6, <2>2, <2>3, AsksNoMore DEF Lose
<1>7. ASSUME Dies PROVE BusyIsARequest'
  <2>1. ASSUME NEW c \in Slots PROVE Asks(c)' <=> Asks(c)
    <3>1. CASE job[c].awaited
      BY <1>7, <3>1, SentIs DEF Dies, Asks
    <3>2. CASE ~job[c].awaited
      BY <1>7, <3>2 DEF Dies, Asks, NoJob
    <3> QED BY <3>1, <3>2
  <2> QED BY <1>7, <2>1, SameAsks DEF Dies
<1>8. ASSUME UNCHANGED <<busy, job>> PROVE BusyIsARequest'
  BY <1>8 DEF BusyIsARequest, Asks
<1>9. ASSUME NEW g \in Signals, Signal(g) \/ CloseServer(g) \/ Killed(g) PROVE BusyIsARequest'
  BY <1>7, <1>8, <1>9 DEF Signal, CloseServer, Killed
<1> QED BY <1>2, <1>3, <1>4, <1>5, <1>6, <1>7, <1>8, <1>9
    DEF Next, Progress, ProviderReacts, Exit, vars

LEMMA SameHandled ==
  ASSUME Handled, stop' = stop, server' = server \/ server' # "listening",
         \A g \in Signals : pc'[g] = pc[g] \/ pc'[g] = "idle"
  PROVE  Handled'
  BY DEF Handled

LEMMA HandledKept ==
  ASSUME IInv, Handled, [Next]_vars
  PROVE  Handled'
<1>1. Slots \cap Signals = {} /\ Signals \subseteq DOMAIN pc
  BY DemoAssumption, CallTypes
<1>2. ASSUME UNCHANGED <<stop, pc>>, server' = server PROVE Handled'
  BY <1>2, SameHandled
<1>3. ASSUME NEW c \in Slots, Arrive(c) PROVE Handled'
  <2>1. CASE UNCHANGED pc
    BY <1>2, <1>3, <2>1 DEF Arrive
  <2>2. CASE Provider!Call(c)
    BY <1>1, <1>3, <2>2, CallTouchesItsOwn, SameHandled DEF Arrive
  <2> QED BY <1>3, <2>1, <2>2 DEF Arrive, ArriveHealth, ArriveOpen, ArriveClose, ArriveCreate,
          Provider!Call, providerVars
<1>4. ASSUME NEW c \in Slots, Transaction(c) PROVE Handled'
  <2>1. Provider!OperationSettles(c) /\ UNCHANGED <<stop, server>>
    BY <1>4 DEF Transaction, CreateNew, Reuse, TransactionFails, Finish
  <2>2. \A g \in Signals : pc'[g] = pc[g]
    BY <1>1, <2>1, CallTypes DEF Provider!OperationSettles, Provider!Return
  <2> QED BY <2>1, <2>2, SameHandled
<1>5. ASSUME NEW s \in Sessions, ProviderReacts(s) PROVE Handled'
  <2>1. \A g \in Signals : pc'[g] = pc[g] \/ pc'[g] = "idle"
    BY <1>5 DEF ProviderReacts, Provider!CreateSettles, Provider!CreateResolves, Provider!CreateRejects,
       Provider!calls, Provider!OpenPromiseSettles, Provider!ShutdownContinues, Provider!ReturnAll
  <2> QED BY <1>5, <2>1, SameHandled DEF ProviderReacts
<1>6. ASSUME NEW g \in Signals, Signal(g) PROVE Handled'
  <2>1. Provider!Call(g) /\ stop' = [stop EXCEPT ![g] = "shutdown"] /\ server' = server
    BY <1>6 DEF Signal, Provider!Call
  <2>2. pc'[g] \in {"idle", "shutdown"}
    BY <1>1, <1>6 DEF Signal, Provider!ShutdownJoins, Provider!ShutdownDefers,
       Provider!ShutdownNothingOpen, Provider!ShutdownNow, Provider!Return, Provider!Suspend
  <2>3. \A h \in Signals \ {g} : pc'[h] = pc[h] /\ stop'[h] = stop[h]
    BY <2>1, CallTouchesItsOwn DEF IInv, Flags
  <2>4. stop'[g] = "shutdown"
    BY <2>1 DEF IInv, Flags
  <2> QED BY <2>1, <2>2, <2>3, <2>4 DEF Handled
<1>7. ASSUME Dies, stop' \in [Signals -> {"armed", "shutdown", "closed"}] PROVE Handled'
  BY <1>1, <1>7 DEF Dies, Handled
<1>8. ASSUME NEW g \in Signals, CloseServer(g) PROVE Handled'
  <2>1. stop' = [stop EXCEPT ![g] = "closed"] /\ stop' \in [Signals -> {"armed", "shutdown", "closed"}]
    BY <1>8 DEF CloseServer, IInv, Flags
  <2>2. CASE server = "closing"
    BY <1>7, <1>8, <2>1, <2>2 DEF CloseServer
  <2>3. CASE server # "closing"
    BY <1>8, <2>1, <2>3 DEF CloseServer, Handled, providerVars, IInv, Flags
  <2> QED BY <2>2, <2>3
<1>9. ASSUME Exit \/ \E g \in Signals : Killed(g) PROVE Handled'
  BY <1>7, <1>9 DEF Exit, Killed, IInv, Flags
<1>10. ASSUME NEW c \in Slots, Click(c) \/ Deliver(c) \/ Discard(c) \/ Refused(c) \/ Lose(c)
       PROVE  Handled'
  <2>1. UNCHANGED <<stop, server, pc>>
    BY <1>10 DEF Click, ClickRefresh, ClickOpen, ClickClose, ClickCreate, Submit, Deliver, Consumed,
       Discard, Refused, Lose, providerVars
  <2> QED BY <1>2, <2>1
<1> QED BY <1>2, <1>3, <1>4, <1>5, <1>6, <1>8, <1>9, <1>10 DEF Next, Progress, vars, providerVars

LEMMA NothingHangsHere == IInv /\ Handled => NothingHangs
<1> SUFFICES ASSUME IInv, Handled PROVE NothingHangs
  OBVIOUS
<1>1. /\ ProviderProofs!AwaitedIsUnsettled /\ ProviderProofs!ShutdownsContinue
      /\ on \in [Slots \cup Signals -> Sessions \cup {None}]
      /\ None \notin Sessions /\ ProviderProofs!Sessions = Sessions
      /\ attempt \in [Sessions -> Provider!Attempts]
  BY DemoAssumption DEF IInv, ProviderProofs!IInv, ProviderProofs!TypeOK, ProviderProofs!Sessions,
     Sessions, ProviderProofs!Attempts, Provider!Attempts
<1>2. ASSUME NEW c \in Slots, job[c].stage = "serving" PROVE Underway(c)
  <2>1. ServedByProvider(c)
    BY DEF IInv, SlotsInv, SlotInv
  <2>2. pc[c] \in {"idle", "operating", "opening", "openingBehindClose", "closing"}
    BY <1>2, <2>1 DEF ServedByProvider, Suspended
  <2>3. pc[c] \notin {"idle", "operating"} => attempt[on[c]] \in {"pending", "fulfilling", "rejecting"}
    BY <1>1, <2>2 DEF ProviderProofs!AwaitedIsUnsettled
  <2>4. pc[c] \notin {"idle", "operating"} => on[c] \in Sessions
    BY <1>1 DEF ProviderProofs!ShutdownsContinue
  <2> QED BY <2>3, <2>4 DEF Underway
<1>3. ASSUME NEW g \in Signals, stop[g] # "armed"
      PROVE  Underway(g) /\ (stop[g] = "shutdown" \/ server # "listening")
  BY <1>1, <1>3 DEF Handled, IInv, Flags, Underway, ProviderProofs!ShutdownsContinue
<1> QED BY <1>2, <1>3 DEF NothingHangs

LEMMA FlowInitially == Init => BusyIsARequest /\ Handled
<1> SUFFICES ASSUME Init PROVE BusyIsARequest /\ Handled
  OBVIOUS
<1>1. ASSUME NEW c \in Slots PROVE ~Asks(c)
  BY SentIs DEF Init, Asks, NoJob
<1>2. Handled
  BY DEF Init, Provider!Init, Handled
<1> QED BY <1>1, <1>2 DEF Init, BusyIsARequest

-----------------------------------------------------------------------------
(* The theorems. *)

\* The inductive invariant holds in every reachable state.
THEOREM Invariance == Spec => []IInv
  BY InitEstablishes, StepPreserves, PTL DEF Spec

\* Every variable has its type, and a slot holds what its stage promises.
THEOREM TypeCorrect == Spec => []TypeOK
<1>1. IInv => TypeOK
  <2> SUFFICES ASSUME IInv PROVE TypeOK
    OBVIOUS
  <2>1. Provider!TypeOK
    BY ProviderTypes DEF IInv, ProviderProofs!IInv
  <2>2. \A s \in Sessions : \A e \in comics[s] : e.input \in Bodies /\ IsComic(e.comic)
    BY StoredComic, AcceptedIsValid DEF IInv
  <2>3. ASSUME NEW c \in Slots
        PROVE  /\ job[c].kind \in Kinds /\ job[c].awaited \in BOOLEAN /\ job[c].stage \in Stages
               /\ job[c].kind = "create" /\ server # "down" => job[c].body \in Bodies
               /\ job[c].stage = "answered" => job[c].result \in Responses
               /\ job[c].stage = "settled" /\ job[c].result.ok => IsComic(job[c].result.value)
    <3>1. SlotInv(c)
      BY DEF IInv, SlotsInv
    <3>2. job[c].kind = "create" /\ server # "down" => job[c].body \in Bodies
      BY <3>1, FormIsBody, AcceptedIsValid DEF SlotInv, BodyIsForm
    <3>3. job[c].stage = "answered" => job[c].result \in Responses
      <4>1. "VALIDATION_FAILED" \in ApiErrorCodes
        BY DEF ApiErrorCodes, StatusOf
      <4>2. Failure("VALIDATION_FAILED") \in Responses
        BY <4>1 DEF Failure, Responses
      <4>3. \A st \in Provider!States : Success(st) \in Responses
        BY DEF Success, Responses
      <4> QED BY <3>1, <4>2, <4>3 DEF SlotInv, AnsweredRightly
    <3>4. job[c].stage = "settled" /\ job[c].result.ok => IsComic(job[c].result.value)
      <4> SUFFICES ASSUME job[c].stage = "settled", job[c].result.ok
                   PROVE  IsComic(job[c].result.value)
        OBVIOUS
      <4>1. \A code : ~Err(code).ok
        BY DEF Err
      <4>2. PICK e \in comics[job[c].session] : job[c].result = Ok(e.comic)
        BY <3>1, <4>1 DEF SlotInv, SettledRightly
      <4>3. job[c].session \in Sessions /\ job[c].result.value = e.comic
        BY <3>1, <4>2 DEF SlotInv, SettledRightly, Ok
      <4> QED BY <4>3, StoredComic DEF IInv
    <3> QED BY <3>1, <3>2, <3>3, <3>4 DEF SlotInv
  <2> QED BY <2>1, <2>2, <2>3 DEF IInv, Flags, TypeOK, Stages
<1> QED BY <1>1, Invariance, PTL

\* What the runtime provider promises by itself it keeps in the application, where its
\* calls come from requests and signals, where a slot is served again after it was freed
\* and where the process may die at any time: withRuntime() gets no closed runtime,
\* nobody waits on a settled promise, and work is only refused while a shutdown is owed.
THEOREM ProviderServesDemo ==
  Spec => [](Provider!PublishedIsLive /\ Provider!AwaitedIsUnsettled /\ Provider!ShuttingDownIsOwed)
<1>1. ProviderProofs!PublishedIsLive => Provider!PublishedIsLive
  BY DEF ProviderProofs!PublishedIsLive, Provider!PublishedIsLive
<1>2. ProviderProofs!AwaitedIsUnsettled => Provider!AwaitedIsUnsettled
  BY DEF ProviderProofs!AwaitedIsUnsettled, Provider!AwaitedIsUnsettled
<1>3. ProviderProofs!ShuttingDownIsOwed => Provider!ShuttingDownIsOwed
  BY DEF ProviderProofs!ShuttingDownIsOwed, Provider!ShuttingDownIsOwed, ProviderProofs!Sessions,
     Provider!Sessions
<1>4. IInv => Provider!PublishedIsLive /\ Provider!AwaitedIsUnsettled /\ Provider!ShuttingDownIsOwed
  BY <1>1, <1>2, <1>3 DEF IInv, ProviderProofs!IInv
<1> QED BY <1>4, Invariance, PTL

\* The buttons are disabled exactly while the shell waits for a request, and it waits for
\* one at a time: however a request ends, lost, refused or answered, none is forgotten
\* with the shell still busy, and none is sent beside another.
THEOREM BusyWithOneRequest == Spec => []BusyIsARequest
  BY FlowInitially, BusyKept, Invariance, PTL DEF Spec

\* Nothing waits for what has already happened: every request that is served and every
\* signal that is handled has a next step that is under way.
THEOREM NothingIsStuck == Spec => []NothingHangs
<1>1. Spec => []Handled
  BY FlowInitially, HandledKept, Invariance, PTL DEF Spec
<1> QED BY <1>1, NothingHangsHere, Invariance, PTL

\* Retrying a creation with the same key is safe within a session, whatever requests
\* and answers were lost: one comic, and every answer that is read shows it.
THEOREM RetriesAreSafe == Spec => []RetryIsSafe
<1>1. IInv => RetryIsSafe
  BY DEF IInv, RetryIsSafe, LedgerAgrees, ToldIsMade
<1> QED BY <1>1, Invariance, PTL

\* The client's schemas take every answer of the server.
THEOREM AnswersAreReadable == Spec => []AnswersReadable
<1>1. \A code \in ApiErrorCodes : code \notin {InvalidSuccess, InvalidError}
  BY DEF ApiErrorCodes, StatusOf, InvalidSuccess, InvalidError
<1>2. IInv => AnswersReadable
  BY <1>1, OutcomeIsRead DEF AnswersReadable, Ok, Err
<1> QED BY <1>2, Invariance, PTL

\* A creation is answered with the comic it asked for, and with a conflict only when
\* its key is bound to another.
THEOREM AnswersFit == Spec => []AnswerFits
<1>1. IInv => AnswerFits
  <2> SUFFICES ASSUME IInv, NEW c \in Slots, Answered(c), job[c].stage = "settled"
               PROVE  IF job[c].result.ok THEN Matches(job[c].body, job[c].result.value)
                      ELSE job[c].result.value = "IDEMPOTENCY_CONFLICT" =>
                             \E e \in comics[job[c].session] :
                                /\ e.input.idempotencyKey = job[c].body.idempotencyKey
                                /\ ~Matches(job[c].body, e.comic)
    BY DEF AnswerFits
  <2>1. SettledRightly(c) /\ job[c].body \in Accepted /\ job[c].session \in Sessions
    BY DEF IInv, SlotsInv, SlotInv, BodyIsForm, SettledRightly, Answered
  <2>2. ASSUME NEW e \in comics[job[c].session]
        PROVE  Matches(job[c].body, e.comic) <=> CanonicalInput(e.input) = CanonicalInput(job[c].body)
    BY <2>1, MatchesIsSameInput DEF IInv, LedgerAgrees
  <2>3. /\ \A comic : Ok(comic).ok /\ Ok(comic).value = comic
        /\ \A code : ~Err(code).ok /\ Err(code).value = code
    BY DEF Ok, Err
  <2>4. CASE job[c].result = Err("INTERNAL_ERROR")
    BY <2>3, <2>4
  <2>5. ASSUME NEW e \in comics[job[c].session],
               e.input.idempotencyKey = job[c].body.idempotencyKey,
               job[c].result = IF CanonicalInput(e.input) = CanonicalInput(job[c].body)
                               THEN Ok(e.comic) ELSE Err("IDEMPOTENCY_CONFLICT")
        PROVE  IF job[c].result.ok THEN Matches(job[c].body, job[c].result.value)
               ELSE ~Matches(job[c].body, e.comic)
    BY <2>2, <2>3, <2>5
  <2> QED BY <2>1, <2>4, <2>5 DEF SettledRightly
<1> QED BY <1>1, Invariance, PTL
=============================================================================
