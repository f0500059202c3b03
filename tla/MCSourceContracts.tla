--------------------------- MODULE MCSourceContracts ---------------------------
(* Small instance of SourceContracts for TLC: two published packages, and every *)
(* package that MaxEdits changes of one place make of them.                     *)
EXTENDS SourceContracts, SequencesExt

MCNames == {"copymanga", "other", "1.2.3"}
MCPaths == {"index.js", "tags.json", "extra.js"}
MCContents == {"code", "tags"}
MCDigests == {"c0de", "7a95", "a4c1"}
MCSha256 == [b \in MCContents |-> IF b = "code" THEN "c0de" ELSE "7a95"]

\* A package with a taxonomy, all of whose files are named, and one without.
Files == <<[path |-> Plain("index.js"), bytes |-> "code"],
           [path |-> Plain("tags.json"), bytes |-> "tags"]>>
Tagged ==
  [repositoryPackage |->
     [packageKey |-> Plain("copymanga"), providerKey |-> Plain("copymanga"),
      version |-> Plain("1.2.3"), sha256 |-> Plain("a4c1"), url |-> "relative"],
   manifest |->
     [packageKey |-> Plain("copymanga"), providerKey |-> Plain("copymanga"),
      version |-> Plain("1.2.3"), entrypoint |-> Plain("index.js"),
      apiVersion |-> Plain("v1"), archiveSha256 |-> Plain("a4c1"),
      entrypointSha256 |-> Plain("c0de"), baseUrl |-> "https",
      mappingFiles |-> <<Plain("tags.json")>>],
   checksums |->
     [files |-> <<[path |-> Plain("index.js"), sha256 |-> Plain("c0de")],
                  [path |-> Plain("tags.json"), sha256 |-> Plain("7a95")]>>,
      packageSha256 |-> Plain("a4c1")],
   files |-> Files,
   archiveSha256 |-> Plain("a4c1"),
   taxonomyMappings |->
     <<[path |-> Plain("tags.json"), providerKey |-> Plain("copymanga"),
        tags |-> <<Plain("theme.action")>>]>>]
Untagged ==
  [Tagged EXCEPT !.manifest.mappingFiles = <<>>, !.manifest.baseUrl = None,
                 !.checksums.files = <<>>, !.taxonomyMappings = <<>>,
                 !.files = SubSeq(Files, 1, 1)]

MCPublished == {Tagged, Untagged}

-----------------------------------------------------------------------------
\* The sequences one change away from s, whose elements have the fields fs and
\* may be given the values in fs[f], and may be followed by one in more.
Changed(s, fs, more) ==
  UNION {{[s EXCEPT ![i][f] = v] : v \in fs[f]} : i \in DOMAIN s, f \in DOMAIN fs}
  \cup {Append(s, x) : x \in more} \cup {RemoveAt(s, i) : i \in DOMAIN s}

\* The records one change away from r.
Altered(r, fs) == UNION {{[r EXCEPT ![f] = v] : v \in fs[f]} : f \in DOMAIN fs}

MCEdited(p) ==
  LET names == Texts({"copymanga", "other"})
      hashes == Texts(MCDigests)
      paths == Texts(MCPaths)
      entries == Altered(p.repositoryPackage,
        [packageKey |-> names, providerKey |-> names, version |-> Texts({"1.2.3", "other"}),
         sha256 |-> hashes, url |-> UrlKinds])
      manifests == Altered(p.manifest,
        [packageKey |-> names, providerKey |-> names, version |-> Texts({"1.2.3", "other"}),
         entrypoint |-> paths, apiVersion |-> Texts({"v1", "v2"}), archiveSha256 |-> hashes,
         entrypointSha256 |-> hashes, baseUrl |-> UrlKinds \cup {None},
         mappingFiles |-> {<<>>, <<Plain("tags.json")>>, <<Plain(Malformed)>>,
           <<[is |-> "tags.json", spelt |-> "varied"], Plain("extra.js")>>}])
      checksums == {[p.checksums EXCEPT !.packageSha256 = h] : h \in hashes} \cup
        {[p.checksums EXCEPT !.files = s] : s \in Changed(p.checksums.files,
           [path |-> paths, sha256 |-> hashes],
           {[path |-> t, sha256 |-> Plain("c0de")] : t \in paths})}
      files == Changed(p.files, [path |-> paths, bytes |-> MCContents],
                       {[path |-> t, bytes |-> "code"] : t \in paths})
      mappings == Changed(p.taxonomyMappings,
        [path |-> paths, providerKey |-> names,
         tags |-> {<<>>, <<Plain(Malformed)>>, <<Plain("theme.action"), Plain("new")>>}],
        {[path |-> t, providerKey |-> Plain("copymanga"), tags |-> <<>>] : t \in paths})
  IN {[p EXCEPT !.repositoryPackage = x] : x \in entries} \cup
     {[p EXCEPT !.manifest = x] : x \in manifests} \cup
     {[p EXCEPT !.checksums = x] : x \in checksums} \cup
     {[p EXCEPT !.files = x] : x \in files} \cup
     {[p EXCEPT !.archiveSha256 = x] : x \in hashes} \cup
     {[p EXCEPT !.taxonomyMappings = x] : x \in mappings}

==============================================================================
