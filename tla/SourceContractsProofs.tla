------------------------- MODULE SourceContractsProofs -------------------------
(***************************************************************************)
(* What the verifier accepts, for every input: the whole packages and no   *)
(* other.  The steps are pure, so the inductive invariant only says that   *)
(* the answer is the answer to the input; the work is in the lemmas about  *)
(* the operators.                                                          *)
(***************************************************************************)
EXTENDS SourceContracts, WellFoundedInduction, TLAPS

(* The indexes and the elements of a sequence. *)
LEMMA SequenceType ==
  ASSUME NEW S, NEW s \in Seq(S)
  PROVE  DOMAIN s \subseteq Nat /\ \A i \in DOMAIN s : s[i] \in S
  OBVIOUS

(* A set of checks that is not empty has a first one. *)
LEMMA FirstExists ==
  ASSUME NEW S, S # {}, \A c \in S : c.at \in Nat
  PROVE  \E c \in S : \A d \in S : c.at <= d.at
<1> DEFINE T == {c.at : c \in S}
<1>1. T \subseteq Nat /\ T # {}
  OBVIOUS
<1>2. PICK n \in T : \A m \in T : ~ (<<m, n>> \in OpToRel(<, Nat))
  BY <1>1, NatLessThanWellFounded, WFMin
<1>3. \A m \in T : ~ (m < n)
  BY <1>1, <1>2 DEF OpToRel
<1>4. PICK c \in S : c.at = n
  BY <1>2
<1>5. \A d \in S : d.at \in Nat /\ ~ (d.at < c.at)
  BY <1>3, <1>4
<1> QED
  BY <1>5

-----------------------------------------------------------------------------
(* What it means to be accepted. *)

LEMMA PackageFailuresNone ==
  ASSUME NEW p
  PROVE  PackageFailures(p) = {} <=>
           /\ EntryValid(p.repositoryPackage)
           /\ ManifestValid(p.manifest)
           /\ ChecksumsValid(p.checksums)
           /\ p.archiveSha256.is # Malformed
           /\ PathsDistinct(p.files)
           /\ PathsDistinct(p.taxonomyMappings)
           /\ HashesAgree(p)
           /\ IdentityAgrees(p)
           /\ p.manifest.apiVersion.is \in Supported
           /\ Has(p.files, p.manifest.entrypoint.is)
           /\ EntrypointIntact(p)
           /\ FilesIntact(p)
           /\ MappingFilesPresent(p)
  BY DEF PackageFailures, Unless

LEMMA PayloadFailuresNone ==
  ASSUME NEW p
  PROVE  PayloadFailures(p) = {} <=>
           \A i \in DOMAIN p.taxonomyMappings :
             /\ MappingValid(p.taxonomyMappings[i])
             /\ p.taxonomyMappings[i].providerKey.is = p.manifest.providerKey.is
<1> DEFINE m(i) == p.taxonomyMappings[i]
           Valid(i) == MappingValid(m(i))
           Its(i) == m(i).providerKey.is = p.manifest.providerKey.is
           F(i) == Unless(Valid(i), 12 + 2 * i, "TAG_MAPPING_INVALID") \cup
                   Unless(Its(i), 13 + 2 * i, "SOURCE_PACKAGE_TAXONOMY_INVALID")
           D == DOMAIN p.taxonomyMappings
<1>1. PayloadFailures(p) = UNION {F(i) : i \in D}
  BY DEF PayloadFailures
<1>2. ASSUME NEW i PROVE F(i) = {} <=> Valid(i) /\ Its(i)
  <2> HIDE DEF Valid, Its
  <2> QED
    BY DEF Unless
<1>3. UNION {F(i) : i \in D} = {} <=> \A i \in D : F(i) = {}
  <2> HIDE DEF F, D
  <2> QED
    OBVIOUS
<1> HIDE DEF F
<1> QED
  BY <1>1, <1>2, <1>3

LEMMA AcceptedMeans ==
  ASSUME NEW p
  PROVE  Accepted(p) <=> PackageFailures(p) = {} /\ PayloadFailures(p) = {}
  BY DEF Accepted, Failures

-----------------------------------------------------------------------------
(* What it means to be refused. *)

LEMMA FailuresType ==
  ASSUME NEW p \in Inputs, NEW c \in Failures(p)
  PROVE  c.at \in Nat /\ c.code \in Codes
<1>1. CASE c \in PackageFailures(p)
  BY <1>1 DEF PackageFailures, Unless, Codes
<1>2. CASE c \in PayloadFailures(p)
  <2>1. DOMAIN p.taxonomyMappings \subseteq Nat
    <3>1. p.taxonomyMappings \in Seq(Mappings)
      BY DEF Inputs
    <3> QED
      BY <3>1
  <2> QED
    BY <1>2, <2>1 DEF PayloadFailures, Unless, Codes
<1> QED
  BY <1>1, <1>2 DEF Failures

LEMMA FirstIsFirst ==
  ASSUME NEW p \in Inputs, ~Accepted(p)
  PROVE  /\ FirstFailure(p) \in Failures(p)
         /\ \A d \in Failures(p) : FirstFailure(p).at <= d.at
<1>1. Failures(p) # {} /\ \A c \in Failures(p) : c.at \in Nat
  BY FailuresType DEF Accepted
<1>2. \E c \in Failures(p) : \A d \in Failures(p) : c.at <= d.at
  BY <1>1, FirstExists
<1> QED
  BY <1>2, Zenon DEF FirstFailure

-----------------------------------------------------------------------------
(* The verifier accepts the whole packages and no other. *)

LEMMA OneFile ==
  ASSUME NEW p \in Inputs, PathsDistinct(p.files), NEW path, NEW digest
  PROVE  HasDigest(p.files, path, digest) <=>
           \E b \in Contents : ContentsAt(p, path) = {b} /\ Sha256[b] = digest
<1> DEFINE fs == p.files
<1>1. fs \in Seq([path : Texts(Paths), bytes : Contents])
  BY DEF Inputs
<1>2. DOMAIN fs \subseteq Nat /\ \A i \in DOMAIN fs : fs[i].bytes \in Contents
  <2>1. /\ DOMAIN fs \subseteq Nat
        /\ \A i \in DOMAIN fs : fs[i] \in [path : Texts(Paths), bytes : Contents]
    <3> HIDE DEF fs
    <3> QED
      BY <1>1, SequenceType
  <2> QED
    BY <2>1
<1>3. \A i, j \in DOMAIN fs : fs[i].path = fs[j].path => i = j
  BY DEF PathsDistinct
<1>4. ContentsAt(p, path) =
        {fs[i].bytes : i \in {j \in DOMAIN fs : fs[j].path = Plain(path)}}
  BY DEF ContentsAt
<1> HIDE DEF fs
<1>5. ASSUME HasDigest(fs, path, digest)
      PROVE  \E b \in Contents : ContentsAt(p, path) = {b} /\ Sha256[b] = digest
  <2>1. PICK i \in DOMAIN fs : fs[i].path = Plain(path) /\ Sha256[fs[i].bytes] = digest
    BY <1>5 DEF HasDigest
  <2>2. ContentsAt(p, path) = {fs[i].bytes}
    BY <1>3, <1>4, <2>1
  <2> QED
    BY <1>2, <2>1, <2>2
<1>6. ASSUME NEW b \in Contents, ContentsAt(p, path) = {b}, Sha256[b] = digest
      PROVE  HasDigest(fs, path, digest)
  <2>1. PICK i \in DOMAIN fs : fs[i].path = Plain(path) /\ fs[i].bytes = b
    BY <1>4, <1>6
  <2>2. \A j \in DOMAIN fs : fs[j].path = Plain(path) => j <= i
    BY <1>2, <1>3, <2>1
  <2> QED
    BY <1>6, <2>1, <2>2 DEF HasDigest
<1> QED
  BY <1>5, <1>6 DEF fs

\* All the places a hash of the archive is given agree iff there is one hash.
LEMMA OneArchive ==
  ASSUME NEW p \in Inputs
  PROVE  (p.archiveSha256.is # Malformed /\ HashesAgree(p)) <=>
           \E d \in Digests :
             {p.archiveSha256.is, p.repositoryPackage.sha256.is,
              p.manifest.archiveSha256.is, p.checksums.packageSha256.is} = {d}
<1>1. p.archiveSha256.is \in Digests \cup {Malformed} /\ Malformed \notin Digests
  BY ContractsAssumption DEF Inputs, Texts
<1> QED
  BY <1>1 DEF HashesAgree

LEMMA ObligationsMet ==
  ASSUME NEW p \in Inputs, PathsDistinct(p.files)
  PROVE  (EntrypointIntact(p) /\ FilesIntact(p)) <=>
           \A o \in Obligations(p) :
             \E b \in Contents : ContentsAt(p, o.path) = {b} /\ Sha256[b] = o.sha256
<1> DEFINE Met(path, digest) ==
             \E b \in Contents : ContentsAt(p, path) = {b} /\ Sha256[b] = digest
<1>0. \A path, digest : HasDigest(p.files, path, digest) <=> Met(path, digest)
  BY OneFile
<1>1. EntrypointIntact(p) <=> Met(p.manifest.entrypoint.is, p.manifest.entrypointSha256.is)
  <2> HIDE DEF Met
  <2> QED
    BY <1>0, Zenon DEF EntrypointIntact
<1>2. FilesIntact(p) <=> \A i \in DOMAIN p.checksums.files :
                          Met(p.checksums.files[i].path.is, p.checksums.files[i].sha256.is)
  <2> HIDE DEF Met
  <2> QED
    BY <1>0, Zenon DEF FilesIntact
<1>3. (\A o \in Obligations(p) : Met(o.path, o.sha256)) <=>
        /\ Met(p.manifest.entrypoint.is, p.manifest.entrypointSha256.is)
        /\ \A i \in DOMAIN p.checksums.files :
             Met(p.checksums.files[i].path.is, p.checksums.files[i].sha256.is)
  <2> HIDE DEF Met
  <2> DEFINE entry == [path |-> p.manifest.entrypoint.is,
                       sha256 |-> p.manifest.entrypointSha256.is]
             file(i) == [path |-> p.checksums.files[i].path.is,
                         sha256 |-> p.checksums.files[i].sha256.is]
  <2>1. (\A o \in Obligations(p) : Met(o.path, o.sha256)) <=>
          /\ Met(entry.path, entry.sha256)
          /\ \A i \in DOMAIN p.checksums.files : Met(file(i).path, file(i).sha256)
    <3> HIDE DEF entry, file
    <3>1. Obligations(p) = {entry} \cup {file(i) : i \in DOMAIN p.checksums.files}
      BY DEF Obligations, entry, file
    <3> QED
      BY <3>1, Zenon
  <2> QED
    BY <2>1
<1> QED
  BY <1>1, <1>2, <1>3

\* A path HasDigest speaks of is one Has finds.
LEMMA DigestHas ==
  ASSUME NEW files, NEW path, NEW digest, HasDigest(files, path, digest)
  PROVE  Has(files, path)
  BY DEF HasDigest, Has

LEMMA MappingFilesMean ==
  ASSUME NEW p \in Inputs, FilesIntact(p)
  PROVE  MappingFilesPresent(p) <=>
           \A i \in DOMAIN p.manifest.mappingFiles :
             LET path == p.manifest.mappingFiles[i].is IN
             /\ path \in {p.checksums.files[j].path.is : j \in DOMAIN p.checksums.files}
             /\ \E k \in DOMAIN p.taxonomyMappings :
                  p.taxonomyMappings[k].path = Plain(path)
<1>1. \A j \in DOMAIN p.checksums.files : Has(p.files, p.checksums.files[j].path.is)
  BY DigestHas DEF FilesIntact
<1>2. \A path : Has(p.taxonomyMappings, path) <=>
        \E k \in DOMAIN p.taxonomyMappings : p.taxonomyMappings[k].path = Plain(path)
  BY DEF Has
<1> QED
  BY <1>1, <1>2 DEF MappingFilesPresent

\* For every input: accepted is whole.  (validators.ts, integrity-verifier.ts)
THEOREM AcceptedWhole ==
  ASSUME NEW p \in Inputs
  PROVE  Accepted(p) <=> Whole(p)
<1>1. IdentityAgrees(p) =>
        p.repositoryPackage.providerKey.is = p.manifest.providerKey.is
  BY DEF IdentityAgrees
<1>2. EntrypointIntact(p) => Has(p.files, p.manifest.entrypoint.is)
  BY DigestHas DEF EntrypointIntact
<1>3. ASSUME Accepted(p) PROVE Whole(p)
  BY <1>1, <1>3, AcceptedMeans, PackageFailuresNone, PayloadFailuresNone, OneArchive,
     ObligationsMet, MappingFilesMean DEF Whole
<1>4. ASSUME Whole(p) PROVE Accepted(p)
  <2>1. EntrypointIntact(p) /\ FilesIntact(p)
    BY <1>4, ObligationsMet DEF Whole
  <2> QED
    BY <1>1, <1>2, <1>4, <2>1, AcceptedMeans, PackageFailuresNone, PayloadFailuresNone,
       OneArchive, MappingFilesMean DEF Whole
<1> QED
  BY <1>3, <1>4

\* Two accepted packages with the same documents hold the same bytes wherever the
\* documents name a file: no covered file can be exchanged unnoticed.
THEOREM DocumentsPinFiles ==
  ASSUME NEW p \in Inputs, NEW q \in Inputs, Accepted(p), Accepted(q),
         p.manifest = q.manifest, p.checksums = q.checksums,
         NEW path \in Named(p)
  PROVE  ContentsAt(p, path) = ContentsAt(q, path)
<1>1. Obligations(p) = Obligations(q)
  BY DEF Obligations
<1>2. PICK o \in Obligations(p) : o.path = path
  BY DEF Named
<1>3. PICK a \in Contents : ContentsAt(p, path) = {a} /\ Sha256[a] = o.sha256
  BY <1>2, AcceptedWhole DEF Whole
<1>4. PICK b \in Contents : ContentsAt(q, path) = {b} /\ Sha256[b] = o.sha256
  BY <1>1, <1>2, AcceptedWhole DEF Whole
<1> QED
  BY <1>3, <1>4, ContractsAssumption

-----------------------------------------------------------------------------
(* The invariants. *)

\* A call that has returned has returned the answer to its input.
Answered == Returned => record = RecordOf(input) /\ error = ErrorOf(input)

Inv == TypeOK /\ Answered

LEMMA VerifiedType ==
  ASSUME NEW p \in Inputs, Accepted(p)
  PROVE  Verified(p) \in Records
<1>1. ManifestValid(p.manifest) /\ p.archiveSha256.is # Malformed
  BY AcceptedMeans, PackageFailuresNone
<1>2. p.manifest \in Manifests /\ p.archiveSha256 \in Texts(Digests)
  BY DEF Inputs
<1>3. /\ p.manifest.packageKey.is \in Names
      /\ p.manifest.providerKey.is \in Names
      /\ p.manifest.version.is \in Names
      /\ p.manifest.entrypoint.is \in Paths
      /\ p.manifest.entrypointSha256.is \in Digests
      /\ p.archiveSha256.is \in Digests
  BY <1>1, <1>2 DEF ManifestValid, WellFormed, Manifests, Texts
<1>4. [i \in DOMAIN p.manifest.mappingFiles |-> p.manifest.mappingFiles[i].is] \in Seq(Paths)
  <2> DEFINE s == p.manifest.mappingFiles
  <2>1. s \in Seq(Texts(Paths)) /\ \A i \in DOMAIN s : s[i].is # Malformed
    BY <1>1, <1>2 DEF ManifestValid, AllWellFormed, Manifests
  <2> HIDE DEF s
  <2>2. DOMAIN s = 1 .. Len(s) /\ Len(s) \in Nat /\ \A i \in DOMAIN s : s[i] \in Texts(Paths)
    BY <2>1
  <2>3. \A i \in DOMAIN s : s[i].is \in Paths
    BY <2>1, <2>2 DEF Texts
  <2>4. [i \in DOMAIN s |-> s[i].is] \in Seq(Paths)
    BY <2>2, <2>3
  <2> QED
    BY <2>4 DEF s
<1> QED
  BY <1>3, <1>4 DEF Verified, Records

LEMMA ErrorType ==
  ASSUME NEW p \in Inputs
  PROVE  ErrorOf(p) \in Codes \cup {None}
  BY FirstIsFirst, FailuresType DEF ErrorOf

\* Inv is an invariant: what a call has returned answers the input it was called with.
THEOREM Invariance == Spec => []Inv
<1>1. Init => Inv
  BY ContractsAssumption DEF Init, Inv, TypeOK, Answered, Returned
<1>2. ASSUME Inv, [Next]_vars PROVE Inv'
  <2>1. CASE Verify
    <3>1. input \in Inputs /\ edits \in 0 .. MaxEdits
      BY <1>2 DEF Inv, TypeOK
    <3>2. RecordOf(input) \in Records \cup {None}
      BY <3>1, VerifiedType DEF RecordOf
    <3>3. TypeOK'
      BY <2>1, <3>1, <3>2, ErrorType DEF Verify, TypeOK
    <3>4. Answered'
      BY <2>1 DEF Verify, Answered, RecordOf, ErrorOf, Returned
    <3> QED
      BY <3>3, <3>4 DEF Inv
  <2>2. CASE CallAgain
    <3>1. edits' \in 0 .. MaxEdits
      BY <1>2, <2>2, ContractsAssumption DEF CallAgain, Inv, TypeOK
    <3> QED
      BY <2>2, <3>1 DEF CallAgain, Inv, TypeOK, Answered, Returned
  <2>3. CASE UNCHANGED vars
    BY <1>2, <2>3 DEF vars, Inv, TypeOK, Answered, Returned
  <2> QED
    BY <1>2, <2>1, <2>2, <2>3 DEF Next
<1> QED
  BY <1>1, <1>2, PTL DEF Spec

\* Every variable has its type; a returned record holds only well-formed strings.
THEOREM TypeCorrect == Spec => []TypeOK
<1>1. Inv => TypeOK
  BY DEF Inv
<1> QED
  BY <1>1, Invariance, PTL

\* verify() returns a record for the whole packages and for no other.
THEOREM Soundness == Spec => []AcceptedIsWhole
<1>1. ASSUME Inv PROVE AcceptedIsWhole
  <2> SUFFICES ASSUME Returned PROVE /\ record # None <=> Whole(input)
                                     /\ record # None =>
                                          \A b \in ContentsAt(input, record.entrypointPath) :
                                            Sha256[b] = record.entrypointSha256
    BY DEF AcceptedIsWhole
  <2>1. input \in Inputs /\ record = RecordOf(input)
    BY <1>1 DEF Inv, TypeOK, Answered
  <2>2. record # None <=> Accepted(input)
    BY <2>1, VerifiedType, ContractsAssumption DEF RecordOf
  <2>3. ASSUME Accepted(input), NEW b \in ContentsAt(input, record.entrypointPath)
        PROVE  Sha256[b] = record.entrypointSha256
    <3>1. /\ record.entrypointPath = input.manifest.entrypoint.is
          /\ record.entrypointSha256 = input.manifest.entrypointSha256.is
      BY <2>1, <2>3 DEF RecordOf, Verified
    <3> DEFINE o == [path |-> input.manifest.entrypoint.is,
                     sha256 |-> input.manifest.entrypointSha256.is]
    <3>2. o \in Obligations(input)
      BY DEF Obligations
    <3>3. PICK c \in Contents : ContentsAt(input, o.path) = {c} /\ Sha256[c] = o.sha256
      BY <2>1, <2>3, <3>2, AcceptedWhole DEF Whole
    <3> QED
      BY <2>3, <3>1, <3>3
  <2> QED
    BY <2>1, <2>2, <2>3, AcceptedWhole
<1> QED
  BY <1>1, Invariance, PTL

\* A complaint about a payload is only made of an intact package.
THEOREM IntactFirst == Spec => []IntactBeforeJudged
<1>1. ASSUME Inv PROVE IntactBeforeJudged
  <2> SUFFICES ASSUME error = "TAG_MAPPING_INVALID"
               PROVE  /\ HashesAgree(input) /\ IdentityAgrees(input)
                      /\ EntrypointIntact(input) /\ FilesIntact(input)
    BY DEF IntactBeforeJudged
  <2> DEFINE c == FirstFailure(input)
  <2>1. input \in Inputs /\ error \in Codes \cup {None}
    BY <1>1 DEF Inv, TypeOK
  <2>2. error = ErrorOf(input) /\ error # None
    <3>1. error # None
      BY ContractsAssumption DEF Codes
    <3> QED
      BY <1>1, <3>1 DEF Inv, Answered, Returned
  <2>3. ~Accepted(input) /\ c.code = "TAG_MAPPING_INVALID"
    BY <2>2 DEF ErrorOf
  <2>4. c \in Failures(input) /\ \A d \in Failures(input) : c.at <= d.at
    BY <2>1, <2>3, FirstIsFirst
  <2>5. c.at \in Nat /\ c.at > 13
    <3>1. c \in PayloadFailures(input)
      BY <2>3, <2>4 DEF Failures, PackageFailures, Unless
    <3>2. \A i \in DOMAIN input.taxonomyMappings : i \in Nat /\ i >= 1
      <4>1. input.taxonomyMappings \in Seq(Mappings)
        BY <2>1 DEF Inputs
      <4> QED
        BY <4>1
    <3> QED
      BY <2>3, <3>1, <3>2 DEF PayloadFailures, Unless
  <2>6. PackageFailures(input) = {}
    <3>1. \A d \in PackageFailures(input) : d.at \in Nat /\ d.at <= 13
      BY DEF PackageFailures, Unless
    <3> QED
      BY <2>4, <2>5, <3>1 DEF Failures
  <2> QED
    BY <2>6, PackageFailuresNone
<1> QED
  BY <1>1, Invariance, PTL

-----------------------------------------------------------------------------
(* The spelling of the documents. *)

LEMMA RespeltIs == \A t : Respelt(t).is = t.is
  BY DEF Respelt, Plain

LEMMA RespeltAllIs ==
  ASSUME NEW s
  PROVE  /\ DOMAIN RespeltAll(s) = DOMAIN s
         /\ \A i \in DOMAIN s : RespeltAll(s)[i].is = s[i].is
  BY RespeltIs DEF RespeltAll

LEMMA PlainEntryIs ==
  ASSUME NEW e \in Entries
  PROVE  /\ PlainEntry(e).url = e.url
         /\ \A f \in {"packageKey", "providerKey", "version", "sha256"} :
              PlainEntry(e)[f].is = e[f].is
  BY RespeltIs DEF PlainEntry, Entries

LEMMA PlainManifestIs ==
  ASSUME NEW m \in Manifests
  PROVE  /\ PlainManifest(m).baseUrl = m.baseUrl
         /\ PlainManifest(m).mappingFiles = RespeltAll(m.mappingFiles)
         /\ \A f \in {"packageKey", "providerKey", "version", "entrypoint", "apiVersion",
                     "archiveSha256", "entrypointSha256"} :
              PlainManifest(m)[f].is = m[f].is
  BY RespeltIs DEF PlainManifest, Manifests

LEMMA PlainChecksumsIs ==
  ASSUME NEW c
  PROVE  /\ PlainChecksums(c).packageSha256.is = c.packageSha256.is
         /\ DOMAIN PlainChecksums(c).files = DOMAIN c.files
         /\ \A i \in DOMAIN c.files :
              /\ PlainChecksums(c).files[i].path.is = c.files[i].path.is
              /\ PlainChecksums(c).files[i].sha256.is = c.files[i].sha256.is
  BY RespeltIs DEF PlainChecksums

LEMMA PlainMappingsIs ==
  ASSUME NEW s
  PROVE  /\ DOMAIN PlainMappings(s) = DOMAIN s
         /\ \A i \in DOMAIN s :
              /\ PlainMappings(s)[i].path = s[i].path
              /\ PlainMappings(s)[i].providerKey.is = s[i].providerKey.is
              /\ MappingValid(PlainMappings(s)[i]) <=> MappingValid(s[i])
<1>1. \A i \in DOMAIN s : /\ PlainMappings(s)[i].path = s[i].path
                          /\ PlainMappings(s)[i].providerKey.is = s[i].providerKey.is
                          /\ PlainMappings(s)[i].tags = RespeltAll(s[i].tags)
  BY RespeltIs DEF PlainMappings
<1>2. DOMAIN PlainMappings(s) = DOMAIN s
  BY DEF PlainMappings
<1> QED
  BY <1>1, <1>2, RespeltAllIs DEF MappingValid, AllWellFormed

\* Each check finds in the respelt package what it finds in the package.
LEMMA SameValidity ==
  ASSUME NEW p \in Inputs
  PROVE  /\ EntryValid(Plainly(p).repositoryPackage) <=> EntryValid(p.repositoryPackage)
         /\ ManifestValid(Plainly(p).manifest) <=> ManifestValid(p.manifest)
         /\ ChecksumsValid(Plainly(p).checksums) <=> ChecksumsValid(p.checksums)
<1>1. p.repositoryPackage \in Entries /\ p.manifest \in Manifests
  BY DEF Inputs
<1>2. /\ Plainly(p).repositoryPackage = PlainEntry(p.repositoryPackage)
      /\ Plainly(p).manifest = PlainManifest(p.manifest)
      /\ Plainly(p).checksums = PlainChecksums(p.checksums)
  BY DEF Plainly
<1>3. EntryValid(PlainEntry(p.repositoryPackage)) <=> EntryValid(p.repositoryPackage)
  BY <1>1, PlainEntryIs DEF EntryValid, WellFormed
<1>4. ManifestValid(PlainManifest(p.manifest)) <=> ManifestValid(p.manifest)
  BY <1>1, PlainManifestIs, RespeltAllIs DEF ManifestValid, WellFormed, AllWellFormed
<1>5. ChecksumsValid(PlainChecksums(p.checksums)) <=> ChecksumsValid(p.checksums)
  BY PlainChecksumsIs DEF ChecksumsValid, WellFormed
<1> QED
  BY <1>2, <1>3, <1>4, <1>5

LEMMA SameComparisons ==
  ASSUME NEW p \in Inputs
  PROVE  /\ Plainly(p).files = p.files
         /\ Plainly(p).archiveSha256.is = p.archiveSha256.is
         /\ PathsDistinct(Plainly(p).taxonomyMappings) <=> PathsDistinct(p.taxonomyMappings)
         /\ HashesAgree(Plainly(p)) <=> HashesAgree(p)
         /\ IdentityAgrees(Plainly(p)) <=> IdentityAgrees(p)
         /\ Plainly(p).manifest.apiVersion.is = p.manifest.apiVersion.is
         /\ Plainly(p).manifest.entrypoint.is = p.manifest.entrypoint.is
         /\ EntrypointIntact(Plainly(p)) <=> EntrypointIntact(p)
         /\ FilesIntact(Plainly(p)) <=> FilesIntact(p)
         /\ MappingFilesPresent(Plainly(p)) <=> MappingFilesPresent(p)
<1> DEFINE q == Plainly(p)
<1>1. p.repositoryPackage \in Entries /\ p.manifest \in Manifests
  BY DEF Inputs
<1>2. /\ q.repositoryPackage = PlainEntry(p.repositoryPackage)
      /\ q.manifest = PlainManifest(p.manifest)
      /\ q.checksums = PlainChecksums(p.checksums)
      /\ q.taxonomyMappings = PlainMappings(p.taxonomyMappings)
      /\ q.files = p.files
      /\ q.archiveSha256.is = p.archiveSha256.is
  BY RespeltIs DEF Plainly
<1> HIDE DEF q
<1>3. \A f \in {"packageKey", "providerKey", "version", "sha256"} :
        q.repositoryPackage[f].is = p.repositoryPackage[f].is
  BY <1>1, <1>2, PlainEntryIs
<1>4. /\ q.manifest.mappingFiles = RespeltAll(p.manifest.mappingFiles)
      /\ \A f \in {"packageKey", "providerKey", "version", "entrypoint", "apiVersion",
                  "archiveSha256", "entrypointSha256"} : q.manifest[f].is = p.manifest[f].is
  BY <1>1, <1>2, PlainManifestIs
<1>5. PathsDistinct(q.taxonomyMappings) <=> PathsDistinct(p.taxonomyMappings)
  BY <1>2, PlainMappingsIs DEF PathsDistinct
<1>6. HashesAgree(q) <=> HashesAgree(p)
  BY <1>2, <1>3, <1>4, PlainChecksumsIs DEF HashesAgree
<1>7. IdentityAgrees(q) <=> IdentityAgrees(p)
  BY <1>3, <1>4 DEF IdentityAgrees
<1>8. EntrypointIntact(q) <=> EntrypointIntact(p)
  BY <1>2, <1>4 DEF EntrypointIntact
<1>9. FilesIntact(q) <=> FilesIntact(p)
  BY <1>2, PlainChecksumsIs DEF FilesIntact
<1>10. MappingFilesPresent(q) <=> MappingFilesPresent(p)
  <2>1. \A path : Has(q.taxonomyMappings, path) <=> Has(p.taxonomyMappings, path)
    BY <1>2, PlainMappingsIs DEF Has
  <2>2. /\ DOMAIN q.manifest.mappingFiles = DOMAIN p.manifest.mappingFiles
        /\ \A i \in DOMAIN p.manifest.mappingFiles :
             q.manifest.mappingFiles[i].is = p.manifest.mappingFiles[i].is
    BY <1>4, RespeltAllIs
  <2>3. \A path : (\E j \in DOMAIN q.checksums.files : q.checksums.files[j].path.is = path)
              <=> (\E j \in DOMAIN p.checksums.files : p.checksums.files[j].path.is = path)
    BY <1>2, PlainChecksumsIs
  <2> DEFINE Present(x, path) ==
               /\ Has(x.files, path)
               /\ \E j \in DOMAIN x.checksums.files : x.checksums.files[j].path.is = path
               /\ Has(x.taxonomyMappings, path)
  <2>4. \A path : Present(q, path) <=> Present(p, path)
    BY <1>2, <2>1, <2>3
  <2>5. \A x : MappingFilesPresent(x) <=>
          \A i \in DOMAIN x.manifest.mappingFiles : Present(x, x.manifest.mappingFiles[i].is)
    BY DEF MappingFilesPresent
  <2> HIDE DEF Present
  <2> QED
    BY <2>2, <2>4, <2>5
<1> QED
  BY <1>2, <1>4, <1>5, <1>6, <1>7, <1>8, <1>9, <1>10 DEF q

LEMMA SameFailures ==
  ASSUME NEW p \in Inputs
  PROVE  Failures(Plainly(p)) = Failures(p)
<1>1. PackageFailures(Plainly(p)) = PackageFailures(p)
  BY SameValidity, SameComparisons DEF PackageFailures, Unless
<1>2. PayloadFailures(Plainly(p)) = PayloadFailures(p)
  <2>1. Plainly(p).taxonomyMappings = PlainMappings(p.taxonomyMappings)
    BY DEF Plainly
  <2>2. Plainly(p).manifest.providerKey.is = p.manifest.providerKey.is
    BY PlainManifestIs DEF Plainly, Inputs
  <2> QED
    BY <2>1, <2>2, PlainMappingsIs DEF PayloadFailures, Unless
<1> QED
  BY <1>1, <1>2 DEF Failures

LEMMA SameRecord ==
  ASSUME NEW p \in Inputs
  PROVE  Verified(Plainly(p)) = Verified(p)
<1>1. p.manifest \in Manifests
  BY DEF Inputs
<1>2. /\ Plainly(p).manifest = PlainManifest(p.manifest)
      /\ Plainly(p).archiveSha256.is = p.archiveSha256.is
  BY RespeltIs DEF Plainly
<1>3. [i \in DOMAIN Plainly(p).manifest.mappingFiles |->
         Plainly(p).manifest.mappingFiles[i].is] =
      [i \in DOMAIN p.manifest.mappingFiles |-> p.manifest.mappingFiles[i].is]
  BY <1>1, <1>2, PlainManifestIs, RespeltAllIs
<1> QED
  BY <1>1, <1>2, <1>3, PlainManifestIs DEF Verified

\* Blanks and upper-case digits in the documents change neither verdict nor record.
THEOREM SpellingIgnored == Spec => []SpellingIsIgnored
<1>1. ASSUME Inv PROVE SpellingIsIgnored
  <2>1. input \in Inputs
    BY <1>1 DEF Inv, TypeOK
  <2>2. RecordOf(Plainly(input)) = RecordOf(input) /\ ErrorOf(Plainly(input)) = ErrorOf(input)
    <3>1. Failures(Plainly(input)) = Failures(input)
      BY <2>1, SameFailures
    <3>2. FirstFailure(Plainly(input)) = FirstFailure(input)
      BY <3>1, Zenon DEF FirstFailure
    <3>3. Accepted(Plainly(input)) <=> Accepted(input)
      BY <3>1 DEF Accepted
    <3> QED
      BY <2>1, <3>2, <3>3, SameRecord DEF RecordOf, ErrorOf
  <2> QED
    BY <1>1, <2>2 DEF Inv, Answered, SpellingIsIgnored
<1> QED
  BY <1>1, Invariance, PTL
=============================================================================
