---------------------------- MODULE ComicPayloads ----------------------------
(***************************************************************************)
(* What happens to a comic between the form and the answer: the request    *)
(* schema of the web API, the canonical form its hash is taken over, the   *)
(* payload kept for replays and the parser that reads it back, the error   *)
(* codes, and the checks of the API client                                 *)
(* (packages/runtime-contracts/src, apps/web/src/adapter,                  *)
(* apps/web/src/client/api, and the codec of                               *)
(* runtime/core/src/application/create-canonical-comic.ts).                *)
(*                                                                         *)
(* Texts are opaque: what the code does with one (trim it, collapse its    *)
(* whitespace, lower its case, read it as a date) is a function on them.   *)
(***************************************************************************)
EXTENDS Naturals, FiniteSets, Sequences

CONSTANTS
  Texts,     \* the JavaScript strings that occur
  Empty,     \* ""
  Trim,      \* String.prototype.trim
  Squeeze,   \* normalizeWhitespace
  Norm,      \* normalizeTitle
  Uuids,     \* the texts that are UUIDs
  Instants,  \* Date values of years 0 to 9999
  Iso,       \* Date.prototype.toISOString
  DateOf,    \* new Date(text), None when it is not a date
  Objects,   \* JSON objects a comic's metadata may carry
  None       \* undefined, null

Origins == {"unknown", "local", "remote", "mixed"}
TitleKinds == {"primary", "source", "alias"}

ASSUME PayloadAssumption ==
  /\ Empty \in Texts /\ Origins \cup TitleKinds \subseteq Texts
  /\ Trim \in [Texts -> Texts] /\ Squeeze \in [Texts -> Texts] /\ Norm \in [Texts -> Texts]
  /\ \A t \in Texts : /\ Trim[Trim[t]] = Trim[t] /\ Squeeze[Squeeze[t]] = Squeeze[t]
                      /\ Norm[Norm[t]] = Norm[t]
                      /\ Trim[Squeeze[t]] = Squeeze[t] /\ Trim[Norm[t]] = Norm[t]
                      /\ Norm[Squeeze[t]] = Norm[t]
                      /\ Squeeze[t] = Empty <=> Trim[t] = Empty
                      /\ Norm[t] = Empty <=> Trim[t] = Empty
  /\ Trim[Empty] = Empty
  /\ Uuids \subseteq Texts /\ \A u \in Uuids : Trim[u] = u /\ u # Empty
  /\ Iso \in [Instants -> Texts] /\ \A d \in Instants : DateOf[Iso[d]] = d
  /\ DateOf \in [Texts -> Instants \cup {None}]
  /\ None \notin Texts \cup Instants \cup Objects
  /\ Texts \cap Objects = {}

Ok(v) == [ok |-> TRUE, value |-> v]
Err(code) == [ok |-> FALSE, value |-> code]

\* The fields of a record that are not undefined.
Present(r) == [f \in {g \in DOMAIN r : r[g] # None} |-> r[f]]

-----------------------------------------------------------------------------
(* The parts of a created comic, and what each field holds. *)

Parts == {"comic", "metadata", "primaryTitle"}

Fields ==
  [comic |->
     [id |-> "id", normalizedTitle |-> "normalized", originHint |-> "origin",
      createdAt |-> "date", updatedAt |-> "date"],
   metadata |->
     [comicId |-> "id", title |-> "title", description |-> "text", coverPageId |-> "id",
      coverStorageObjectId |-> "id", authorName |-> "text", metadata |-> "object",
      createdAt |-> "date", updatedAt |-> "date"],
   primaryTitle |->
     [id |-> "id", comicId |-> "id", title |-> "title", normalizedTitle |-> "normalized",
      locale |-> "text", sourcePlatformId |-> "id", sourceLinkId |-> "id",
      titleKind |-> "titleKind", createdAt |-> "date"]]

Optional ==
  [comic |-> {},
   metadata |-> {"description", "coverPageId", "coverStorageObjectId", "authorName", "metadata"},
   primaryTitle |-> {"locale", "sourcePlatformId", "sourceLinkId"}]

\* The values of a field in memory, by its kind.
Values ==
  [id |-> Uuids,
   title |-> {t \in Texts : Trim[t] = t /\ t # Empty},
   normalized |-> {t \in Texts : Norm[t] = t /\ t # Empty},
   text |-> Texts,
   object |-> Objects,
   origin |-> Origins,
   titleKind |-> TitleKinds,
   date |-> Instants]

\* j has the parts, and each part only fields it may have.
ShapeHolds(j) ==
  /\ DOMAIN j = Parts
  /\ \A p \in Parts : DOMAIN j[p] \subseteq DOMAIN Fields[p]

\* A created comic, as the types CreatedCanonicalComic, Comic, ComicMetadata and
\* ComicTitle describe it.
IsComic(c) ==
  /\ ShapeHolds(c)
  /\ c = [p \in Parts |-> [f \in DOMAIN c[p] |-> c[p][f]]]
  /\ \A p \in Parts : DOMAIN Fields[p] \ Optional[p] \subseteq DOMAIN c[p]
  /\ \A p \in Parts : \A f \in DOMAIN c[p] : c[p][f] \in Values[Fields[p][f]]

-----------------------------------------------------------------------------
(* The payload a replay reads. *)

Write(kind, v) == IF kind = "date" THEN Iso[v] ELSE v

\* serializeCreatedCanonicalComicReplay: dates as ISO text, absent fields left out.
Json(c) == [p \in Parts |-> [f \in DOMAIN c[p] |-> Write(Fields[p][f], c[p][f])]]

\* The order mapReplayToCreatedCanonicalComic reads the fields in: the first one
\* that fails decides the error.
ComicReads == << <<"comic", "id">>, <<"comic", "normalizedTitle">>, <<"comic", "originHint">> >>

MetadataReads ==
  << <<"metadata", "comicId">>, <<"metadata", "title">>, <<"metadata", "description">>,
     <<"metadata", "coverPageId">>, <<"metadata", "coverStorageObjectId">>,
     <<"metadata", "authorName">>, <<"metadata", "metadata">> >>

TitleReads ==
  << <<"primaryTitle", "id">>, <<"primaryTitle", "comicId">>, <<"primaryTitle", "title">>,
     <<"primaryTitle", "normalizedTitle">>, <<"primaryTitle", "locale">>,
     <<"primaryTitle", "sourcePlatformId">>, <<"primaryTitle", "sourceLinkId">>,
     <<"primaryTitle", "titleKind">> >>

DateReads ==
  << <<"comic", "createdAt">>, <<"comic", "updatedAt">>, <<"metadata", "createdAt">>,
     <<"metadata", "updatedAt">>, <<"primaryTitle", "createdAt">> >>

ReadOrder == ComicReads \o MetadataReads \o TitleReads \o DateReads

\* expectString, expectOptionalString, expectObject: whether a field is there with
\* its JSON type.
HasType(j, p, f) ==
  IF f \in DOMAIN j[p]
  THEN j[p][f] \in (IF Fields[p][f] = "object" THEN Objects ELSE Texts)
  ELSE f \in Optional[p]

\* What the parser makes of a value, and whether it takes it.
Read(kind, v) ==
  CASE kind \in {"id", "title"} -> Trim[v]
    [] kind = "normalized" -> Norm[v]
    [] kind = "date" -> DateOf[v]
    [] OTHER -> v

Takes(kind, v) == Read(kind, v) \in Values[kind]

\* A wrong type, enum value or date is INTERNAL_ERROR; a bad id or title is what its
\* own parser says, VALIDATION_ERROR.
Fault(j, p, f) ==
  IF ~HasType(j, p, f) THEN "INTERNAL_ERROR"
  ELSE IF f \notin DOMAIN j[p] \/ Takes(Fields[p][f], j[p][f]) THEN "none"
  ELSE IF Fields[p][f] \in {"id", "title", "normalized"} THEN "VALIDATION_ERROR"
  ELSE "INTERNAL_ERROR"

FaultAt(j, n) == Fault(j, ReadOrder[n][1], ReadOrder[n][2])

\* Mutant: the optional fields are read but not put into the result.
Parsed_RequiredOnly(j) ==
  [p \in Parts |-> [f \in DOMAIN j[p] \ Optional[p] |-> Read(Fields[p][f], j[p][f])]]

\* Mutant: the dates are handed on as the texts they were stored as.
Parsed_KeepsDates(j) ==
  [p \in Parts |-> [f \in DOMAIN j[p] |->
     IF Fields[p][f] = "date" THEN j[p][f] ELSE Read(Fields[p][f], j[p][f])]]

Parsed(j) == [p \in Parts |-> [f \in DOMAIN j[p] |-> Read(Fields[p][f], j[p][f])]]

\* mapReplayToCreatedCanonicalComic.
Parse(j) ==
  IF ~ShapeHolds(j) THEN Err("INTERNAL_ERROR")
  ELSE IF \A p \in Parts : \A f \in DOMAIN Fields[p] : Fault(j, p, f) = "none"
  THEN Ok(Parsed(j))
  ELSE Err(FaultAt(j, CHOOSE n \in 1 .. Len(ReadOrder) :
                         /\ FaultAt(j, n) # "none"
                         /\ \A m \in 1 .. n - 1 : FaultAt(j, m) = "none"))

-----------------------------------------------------------------------------
(* The request: the schema of the route, and the canonical form. *)

\* A request body; None stands for a field that is not there.
Bodies == [title : Texts, description : Texts \cup {None}, authorName : Texts \cup {None},
           originHint : Origins \cup {None}, idempotencyKey : Texts \cup {None}]

TextFields == {"title", "description", "authorName", "idempotencyKey"}

\* Every text of the body that is there is not blank (CreateComicRequestSchema).
RequestValid(b) == \A f \in TextFields : b[f] # None => Trim[b[f]] # Empty

\* What the handler gets: the schema trims every text.
Received(b) == [f \in DOMAIN b |-> IF f \in TextFields /\ b[f] # None THEN Trim[b[f]] ELSE b[f]]

\* normalizeOptionalText.
OptionalText(t) == IF t = None \/ Squeeze[t] = Empty THEN None ELSE Squeeze[t]

\* canonicalizeCreateCanonicalComicInput.  It stands for its hash as well: SHA-256
\* is taken to be injective.
CanonicalInput(i) ==
  [title |-> Squeeze[i.title],
   normalizedTitle |-> Norm[i.title],
   originHint |-> IF i.originHint = None THEN "unknown" ELSE i.originHint,
   description |-> OptionalText(i.description),
   authorName |-> OptionalText(i.authorName)]

\* The parsers execute() starts with.
InputValid(i) ==
  /\ Trim[i.title] # Empty
  /\ Norm[i.title] # Empty
  /\ i.idempotencyKey # None => Trim[i.idempotencyKey] # Empty

\* What execute() stores and returns for a new comic: the title as it was sent,
\* trimmed; description and author in canonical form.
Created(i, comicId, titleId, now) ==
  [comic |-> [id |-> comicId,
              normalizedTitle |-> Norm[i.title],
              originHint |-> CanonicalInput(i).originHint,
              createdAt |-> now,
              updatedAt |-> now],
   metadata |-> Present([comicId |-> comicId,
                         title |-> Trim[i.title],
                         description |-> CanonicalInput(i).description,
                         authorName |-> CanonicalInput(i).authorName,
                         createdAt |-> now,
                         updatedAt |-> now]),
   primaryTitle |-> [id |-> titleId,
                     comicId |-> comicId,
                     title |-> Trim[i.title],
                     normalizedTitle |-> Norm[i.title],
                     titleKind |-> "primary",
                     createdAt |-> now]]

-----------------------------------------------------------------------------
(* The answer: error codes, statuses, and what the client accepts. *)

\* RUNTIME_ERROR_TABLE.
StatusOf ==
  [VALIDATION_FAILED |-> 400, IDEMPOTENCY_KEY_PAYLOAD_MISMATCH |-> 409,
   RUNTIME_NOT_OPEN |-> 409, RUNTIME_UNAVAILABLE |-> 503, RUNTIME_SHUTTING_DOWN |-> 503,
   INTERNAL |-> 500]

\* API_ERROR_CODES.
ApiErrorCodes == DOMAIN StatusOf

\* mapRuntimeResultError.
WebCode(code) ==
  CASE code = "VALIDATION_ERROR" -> "VALIDATION_FAILED"
    [] code = "IDEMPOTENCY_CONFLICT" -> "IDEMPOTENCY_KEY_PAYLOAD_MISMATCH"
    [] OTHER -> "INTERNAL"

Success(body) == [status |-> 200, body |-> body]
Failure(code) == [status |-> StatusOf[code], body |-> code]

\* Mutant: an absent description is answered as null.
CreateAnswer_NullDescription(result) ==
  IF result.ok
  THEN LET j == Json(result.value)
       IN  Success([j EXCEPT !.metadata =
             [f \in DOMAIN @ \cup {"description"} |-> IF f \in DOMAIN @ THEN @[f] ELSE None]])
  ELSE Failure(WebCode(result.value))

\* The adapter's createComic: every field copied, dates as ISO text.
CreateAnswer(result) ==
  IF result.ok THEN Success(Json(result.value)) ELSE Failure(WebCode(result.value))

\* CreateComicResponseSchema: no foreign field, no missing one, each of its kind.
FieldReadable(kind, v) ==
  CASE kind = "object" -> v \in Objects
    [] kind = "origin" -> v \in Origins
    [] kind = "titleKind" -> v \in TitleKinds
    [] kind = "date" -> v \in {Iso[d] : d \in Instants}
    [] OTHER -> v \in Texts /\ Trim[v] # Empty

ComicReadable(j) ==
  /\ ShapeHolds(j)
  /\ \A p \in Parts : /\ DOMAIN Fields[p] \ Optional[p] \subseteq DOMAIN j[p]
                      /\ \A f \in DOMAIN j[p] : FieldReadable(Fields[p][f], j[p][f])

\* The schema trims the texts it lets through.
ComicRead(j) ==
  [p \in Parts |-> [f \in DOMAIN j[p] |->
     IF Fields[p][f] \in {"object", "origin", "titleKind", "date"} THEN j[p][f] ELSE Trim[j[p][f]]]]

\* The messages of an ApiClientError whose payload the client could not read.
InvalidSuccess == "API returned an invalid success payload."
InvalidError == "API returned an invalid error payload."

\* The response schema's verdict on a body.
ComicParsed(j) == IF ComicReadable(j) THEN Ok(ComicRead(j)) ELSE Err(InvalidSuccess)

\* request() of the client, given the schema's verdict on the body of a success.
Accept(response, parsed) ==
  IF response.status = 200 THEN parsed
  ELSE IF response.body \in ApiErrorCodes THEN Err(response.body) ELSE Err(InvalidError)
=============================================================================
