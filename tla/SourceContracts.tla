---------------------------- MODULE SourceContracts ----------------------------
(***************************************************************************)
(* The integrity verifier of source packages (runtime/core, source-        *)
(* contracts): a pure function over documents and files that a caller      *)
(* holds in memory.  It returns a record of the package, or the error of   *)
(* the first check that fails.                                             *)
(*                                                                         *)
(* A string of a document is a value and its spelling: "plain", or         *)
(* "varied" by blanks around it or, for a hash, by upper-case digits.  The *)
(* validators hand on the value; what the caller passes beside the         *)
(* documents keeps its spelling.  Malformed stands for a string that is    *)
(* missing, blank, of another type or no SHA-256, and for every other      *)
(* fault a schema finds in the document it is in.                          *)
(***************************************************************************)
EXTENDS Naturals, Sequences

CONSTANTS
  Names,        \* package keys, provider keys and versions
  Paths,        \* relative paths
  Versions,     \* versions of the runtime API
  Supported,    \* those the caller supports
  Contents,     \* bytes of a file
  Digests,      \* SHA-256 values, in lower case
  Sha256,       \* Sha256[b]: the digest of the bytes b
  Tags,         \* canonical keys of tags
  KnownTags,    \* those the caller knows: all, when it passes no set of them
  Published,    \* the packages a caller begins with
  Edited(_),    \* Edited(p): what p is passed as when one place of it is changed
  MaxEdits,     \* bound on the changes
  Malformed, None

Spellings == {"plain", "varied"}
Texts(S) == [is : S \cup {Malformed}, spelt : Spellings]
Plain(v) == [is |-> v, spelt |-> "plain"]

UrlKinds == {"relative", "https", "http", "schemeRelative", "otherScheme",
             "unparsable"}

Entries ==
  [packageKey : Texts(Names), providerKey : Texts(Names), version : Texts(Names),
   sha256 : Texts(Digests), url : UrlKinds]
Manifests ==
  [packageKey : Texts(Names), providerKey : Texts(Names), version : Texts(Names),
   entrypoint : Texts(Paths), apiVersion : Texts(Versions),
   archiveSha256 : Texts(Digests), entrypointSha256 : Texts(Digests),
   baseUrl : UrlKinds \cup {None}, mappingFiles : Seq(Texts(Paths))]
Checksums ==
  [files : Seq([path : Texts(Paths), sha256 : Texts(Digests)]),
   packageSha256 : Texts(Digests)]
Mappings ==
  [path : Texts(Paths), providerKey : Texts(Names), tags : Seq(Texts(Tags))]
Inputs ==
  [repositoryPackage : Entries, manifest : Manifests, checksums : Checksums,
   files : Seq([path : Texts(Paths), bytes : Contents]),
   archiveSha256 : Texts(Digests), taxonomyMappings : Seq(Mappings)]
Records ==
  [packageKey : Names, providerKey : Names, version : Names,
   archiveSha256 : Digests, entrypointSha256 : Digests, entrypointPath : Paths,
   taxonomyMappingPaths : Seq(Paths)]

Codes ==
  {"SOURCE_REPOSITORY_INDEX_INVALID", "SOURCE_PACKAGE_MANIFEST_INVALID",
   "SOURCE_PACKAGE_CHECKSUM_MISMATCH", "SOURCE_PACKAGE_HASH_MISMATCH",
   "SOURCE_PACKAGE_TAXONOMY_INVALID", "SOURCE_PACKAGE_IDENTITY_MISMATCH",
   "SOURCE_PACKAGE_API_UNSUPPORTED", "SOURCE_PACKAGE_ENTRYPOINT_MISSING",
   "TAG_MAPPING_INVALID"}

\* Different contents have different digests: the verifier rests on SHA-256.
ASSUME ContractsAssumption ==
  /\ Sha256 \in [Contents -> Digests]
  /\ \A a, b \in Contents : Sha256[a] = Sha256[b] => a = b
  /\ Malformed \notin Names \cup Paths \cup Versions \cup Digests \cup Tags
  /\ None \notin UrlKinds /\ None \notin Records /\ None \notin Codes
  /\ Published \subseteq Inputs
  /\ MaxEdits \in Nat

VARIABLES
  input,   \* what verify() was called with
  record,  \* the verified package it returned, or None
  error,   \* the code it failed with, or None; None beside None: not returned yet
  edits    \* how many changes the input has seen

vars == <<input, record, error, edits>>

-----------------------------------------------------------------------------
(* The validators. *)

WellFormed(document, fields) == \A f \in fields : document[f].is # Malformed

AllWellFormed(texts) == \A i \in DOMAIN texts : texts[i].is # Malformed

\* validateUrlValue without a policy, as the verifier calls it.
UrlAllowed(kind) == kind \in {"relative", "https"}

EntryValid(e) ==
  /\ WellFormed(e, {"packageKey", "providerKey", "version", "sha256"})
  /\ UrlAllowed(e.url)

\* Mutant: the schema lets a blank entrypoint pass.
ManifestValid_BlankEntrypoint(m) ==
  /\ WellFormed(m, {"packageKey", "providerKey", "version", "apiVersion",
                    "archiveSha256", "entrypointSha256"})
  /\ m.baseUrl # None => UrlAllowed(m.baseUrl)
  /\ AllWellFormed(m.mappingFiles)

ManifestValid(m) ==
  /\ WellFormed(m, {"packageKey", "providerKey", "version", "entrypoint",
                    "apiVersion", "archiveSha256", "entrypointSha256"})
  /\ m.baseUrl # None => UrlAllowed(m.baseUrl)
  /\ AllWellFormed(m.mappingFiles)

\* Duplicate paths are looked for after trimming.
ChecksumsValid(c) ==
  /\ c.packageSha256.is # Malformed
  /\ \A i \in DOMAIN c.files : WellFormed(c.files[i], {"path", "sha256"})
  /\ \A i, j \in DOMAIN c.files : c.files[i].path.is = c.files[j].path.is => i = j

MappingValid(m) ==
  /\ m.providerKey.is # Malformed
  /\ AllWellFormed(m.tags)
  /\ \A i \in DOMAIN m.tags : m.tags[i].is \in KnownTags

-----------------------------------------------------------------------------
(* What the verifier compares. *)

\* findDuplicatePaths: the paths the caller passes, as they are spelt.
PathsDistinct(s) == \A i, j \in DOMAIN s : s[i].path = s[j].path => i = j

\* Map.has with a path from a document on a map keyed by the caller's paths.
Has(s, path) == \E i \in DOMAIN s : s[i].path = Plain(path)

\* Map.get and the hash of the bytes: a map keeps the last entry of a key.
HasDigest(files, path, digest) ==
  \E i \in DOMAIN files :
    /\ files[i].path = Plain(path)
    /\ \A j \in DOMAIN files : files[j].path = Plain(path) => j <= i
    /\ Sha256[files[i].bytes] = digest

\* Mutant: the hash the caller passed is compared as it is spelt.
HashesAgree_Raw(p) ==
  \A h \in {p.repositoryPackage.sha256, p.manifest.archiveSha256,
            p.checksums.packageSha256} : Plain(h.is) = p.archiveSha256

HashesAgree(p) ==
  \A h \in {p.repositoryPackage.sha256, p.manifest.archiveSha256,
            p.checksums.packageSha256} : h.is = p.archiveSha256.is

IdentityAgrees(p) ==
  \A f \in {"packageKey", "providerKey", "version"} :
    p.repositoryPackage[f].is = p.manifest[f].is

EntrypointIntact(p) ==
  HasDigest(p.files, p.manifest.entrypoint.is, p.manifest.entrypointSha256.is)

\* Mutant: a file that is not there has no hash to be wrong.
FilesIntact_IfThere(p) ==
  \A i \in DOMAIN p.checksums.files :
    LET c == p.checksums.files[i] IN
      Has(p.files, c.path.is) => HasDigest(p.files, c.path.is, c.sha256.is)

FilesIntact(p) ==
  \A i \in DOMAIN p.checksums.files :
    HasDigest(p.files, p.checksums.files[i].path.is, p.checksums.files[i].sha256.is)

MappingFilesPresent(p) ==
  \A i \in DOMAIN p.manifest.mappingFiles :
    LET path == p.manifest.mappingFiles[i].is IN
    /\ Has(p.files, path)
    /\ \E j \in DOMAIN p.checksums.files : p.checksums.files[j].path.is = path
    /\ Has(p.taxonomyMappings, path)

-----------------------------------------------------------------------------
(* verify() *)

Unless(passed, at, code) == IF passed THEN {} ELSE {[at |-> at, code |-> code]}

\* The checks in the order of the code, before the mappings' payloads are read:
\* those that fail.
PackageFailures(p) ==
  UNION {
    Unless(EntryValid(p.repositoryPackage), 1, "SOURCE_REPOSITORY_INDEX_INVALID"),
    Unless(ManifestValid(p.manifest), 2, "SOURCE_PACKAGE_MANIFEST_INVALID"),
    Unless(ChecksumsValid(p.checksums), 3, "SOURCE_PACKAGE_CHECKSUM_MISMATCH"),
    Unless(p.archiveSha256.is # Malformed, 4, "SOURCE_PACKAGE_HASH_MISMATCH"),
    Unless(PathsDistinct(p.files), 5, "SOURCE_PACKAGE_CHECKSUM_MISMATCH"),
    Unless(PathsDistinct(p.taxonomyMappings), 6, "SOURCE_PACKAGE_TAXONOMY_INVALID"),
    Unless(HashesAgree(p), 7, "SOURCE_PACKAGE_HASH_MISMATCH"),
    Unless(IdentityAgrees(p), 8, "SOURCE_PACKAGE_IDENTITY_MISMATCH"),
    Unless(p.manifest.apiVersion.is \in Supported, 9, "SOURCE_PACKAGE_API_UNSUPPORTED"),
    Unless(Has(p.files, p.manifest.entrypoint.is), 10,
           "SOURCE_PACKAGE_ENTRYPOINT_MISSING"),
    Unless(EntrypointIntact(p), 11, "SOURCE_PACKAGE_CHECKSUM_MISMATCH"),
    Unless(FilesIntact(p), 12, "SOURCE_PACKAGE_CHECKSUM_MISMATCH"),
    Unless(MappingFilesPresent(p), 13, "SOURCE_PACKAGE_TAXONOMY_INVALID")}

\* Mutant: the payloads are looked at first.
PayloadFailures_First(p) ==
  UNION {
    Unless(MappingValid(p.taxonomyMappings[i]), 0, "TAG_MAPPING_INVALID") \cup
    Unless(p.taxonomyMappings[i].providerKey.is = p.manifest.providerKey.is, 13 + 2 * i,
           "SOURCE_PACKAGE_TAXONOMY_INVALID") : i \in DOMAIN p.taxonomyMappings}

\* Every payload the caller passes, whether or not the manifest names its path:
\* the payload itself, then its provider.
PayloadFailures(p) ==
  UNION {
    Unless(MappingValid(p.taxonomyMappings[i]), 12 + 2 * i, "TAG_MAPPING_INVALID") \cup
    Unless(p.taxonomyMappings[i].providerKey.is = p.manifest.providerKey.is, 13 + 2 * i,
           "SOURCE_PACKAGE_TAXONOMY_INVALID") : i \in DOMAIN p.taxonomyMappings}

Failures(p) == PackageFailures(p) \cup PayloadFailures(p)

Accepted(p) == Failures(p) = {}

FirstFailure(p) == CHOOSE c \in Failures(p) : \A d \in Failures(p) : c.at <= d.at

Verified(p) ==
  [packageKey |-> p.manifest.packageKey.is,
   providerKey |-> p.manifest.providerKey.is,
   version |-> p.manifest.version.is,
   archiveSha256 |-> p.archiveSha256.is,
   entrypointSha256 |-> p.manifest.entrypointSha256.is,
   entrypointPath |-> p.manifest.entrypoint.is,
   taxonomyMappingPaths |->
     [i \in DOMAIN p.manifest.mappingFiles |-> p.manifest.mappingFiles[i].is]]

RecordOf(p) == IF Accepted(p) THEN Verified(p) ELSE None
ErrorOf(p) == IF Accepted(p) THEN None ELSE FirstFailure(p).code

Returned == record # None \/ error # None

Init ==
  /\ input \in Published
  /\ record = None
  /\ error = None
  /\ edits = 0

\* The call runs to its end; the caller has not changed what it passed.
Verify ==
  /\ ~Returned
  /\ record' = RecordOf(input)
  /\ error' = ErrorOf(input)
  /\ UNCHANGED <<input, edits>>

\* The caller comes back with a package that differs in one place.
CallAgain ==
  /\ Returned
  /\ edits < MaxEdits
  /\ \E p \in Edited(input) : p \in Inputs /\ input' = p
  /\ record' = None
  /\ error' = None
  /\ edits' = edits + 1

Next == Verify \/ CallAgain

Spec == Init /\ [][Next]_vars

-----------------------------------------------------------------------------
(* Properties. *)

\* Every variable has its type; in particular the record holds no string that is
\* malformed or not normalised.
TypeOK ==
  /\ input \in Inputs
  /\ record \in Records \cup {None}
  /\ error \in Codes \cup {None}
  /\ edits \in 0 .. MaxEdits

\* What the documents of p say some file must contain.
Obligations(p) ==
  {[path |-> p.manifest.entrypoint.is, sha256 |-> p.manifest.entrypointSha256.is]} \cup
  {[path |-> p.checksums.files[i].path.is, sha256 |-> p.checksums.files[i].sha256.is] :
     i \in DOMAIN p.checksums.files}

\* The contents p supplies under a path.
ContentsAt(p, path) ==
  {p.files[i].bytes : i \in {j \in DOMAIN p.files : p.files[j].path = Plain(path)}}

\* The places where the files of p are named by its documents.
Named(p) == {o.path : o \in Obligations(p)}

\* A package the code should accept, whatever it looks at first: valid documents
\* that are about one archive and one package, for every path they name exactly
\* the contents they promise, and tags that are known and of this provider.
Whole(p) ==
  /\ EntryValid(p.repositoryPackage)
  /\ ManifestValid(p.manifest)
  /\ ChecksumsValid(p.checksums)
  /\ \E d \in Digests :
       {p.archiveSha256.is, p.repositoryPackage.sha256.is,
        p.manifest.archiveSha256.is, p.checksums.packageSha256.is} = {d}
  /\ IdentityAgrees(p)
  /\ p.manifest.apiVersion.is \in Supported
  /\ PathsDistinct(p.files) /\ PathsDistinct(p.taxonomyMappings)
  /\ \A o \in Obligations(p) :
       \E b \in Contents : ContentsAt(p, o.path) = {b} /\ Sha256[b] = o.sha256
  /\ \A i \in DOMAIN p.manifest.mappingFiles :
       LET path == p.manifest.mappingFiles[i].is IN
       /\ path \in {p.checksums.files[j].path.is : j \in DOMAIN p.checksums.files}
       /\ \E k \in DOMAIN p.taxonomyMappings :
            p.taxonomyMappings[k].path = Plain(path)
  /\ \A k \in DOMAIN p.taxonomyMappings :
       /\ MappingValid(p.taxonomyMappings[k])
       /\ p.taxonomyMappings[k].providerKey.is = p.repositoryPackage.providerKey.is

\* The verifier returns a record for the whole packages and for no other, and the
\* record's hash is the hash of the one file at the record's entrypoint.
AcceptedIsWhole ==
  Returned =>
    /\ record # None <=> Whole(input)
    /\ record # None =>
         \A b \in ContentsAt(input, record.entrypointPath) :
           Sha256[b] = record.entrypointSha256

\* The package with every string of its documents in its plain spelling.
Respelt(t) == Plain(t.is)
RespeltAll(texts) == [i \in DOMAIN texts |-> Respelt(texts[i])]
PlainEntry(e) ==
  [e EXCEPT !.packageKey = Respelt(@), !.providerKey = Respelt(@),
            !.version = Respelt(@), !.sha256 = Respelt(@)]
PlainManifest(m) ==
  [m EXCEPT !.packageKey = Respelt(@), !.providerKey = Respelt(@),
            !.version = Respelt(@), !.entrypoint = Respelt(@),
            !.apiVersion = Respelt(@), !.archiveSha256 = Respelt(@),
            !.entrypointSha256 = Respelt(@), !.mappingFiles = RespeltAll(@)]
PlainChecksums(c) ==
  [packageSha256 |-> Respelt(c.packageSha256),
   files |-> [i \in DOMAIN c.files |->
               [path |-> Respelt(c.files[i].path), sha256 |-> Respelt(c.files[i].sha256)]]]
PlainMappings(s) ==
  [i \in DOMAIN s |->
    [path |-> s[i].path, providerKey |-> Respelt(s[i].providerKey),
     tags |-> RespeltAll(s[i].tags)]]
Plainly(p) ==
  [repositoryPackage |-> PlainEntry(p.repositoryPackage),
   manifest |-> PlainManifest(p.manifest),
   checksums |-> PlainChecksums(p.checksums),
   files |-> p.files,
   archiveSha256 |-> Respelt(p.archiveSha256),
   taxonomyMappings |-> PlainMappings(p.taxonomyMappings)]

\* Claimed by tests/source-contracts/integrity-verifier.test.ts ("uppercase hash
\* inputs are normalized consistently") of one package, and meant of all: blanks
\* and upper-case digits in the documents change neither the verdict nor the record.
SpellingIsIgnored ==
  Returned => record = RecordOf(Plainly(input)) /\ error = ErrorOf(Plainly(input))

\* Nothing inside a package is judged before it is known to be what the documents
\* promise: a complaint about a payload is only made of an intact package.
IntactBeforeJudged ==
  error = "TAG_MAPPING_INVALID" =>
    /\ HashesAgree(input) /\ IdentityAgrees(input)
    /\ EntrypointIntact(input) /\ FilesIntact(input)
=============================================================================
