-------------------------- MODULE ReaderTargetProofs --------------------------
(* Theorems of ReaderTarget: for any platforms, links, chapters and calls. *)
EXTENDS ReaderTarget, TLAPS

\* What is known of a running update: its platform's status is one it has held, and an
\* update that only ever saw deprecated writes deprecated.
UpdateInv ==
  \A u \in Updaters :
    /\ at[u] \in {"write", "refresh"} =>
         target[u] \in Platforms /\ wanted[u] \in Statuses /\ status[target[u]] \in held[u]
    /\ at[u] = "write" /\ held[u] = {"deprecated"} => wanted[u] = "deprecated"

\* What resolver r has read is what a reader would read now.
Current(r) == \A c \in known[r] : order[r][c] = SourceOrder(c)

\* Resolver r has read all chapters and picked the one before all others.
Decided(r) ==
  /\ known[r] = ComicChapters
  /\ chosen[r] \in ComicChapters
  /\ \A d \in ComicChapters \ {chosen[r]} : Before(order[r], chosen[r], d)

ResolverInv ==
  \A r \in Resolvers :
    /\ pc[r] = "idle" => known[r] = {}
    /\ pc[r] = "kind" => chosen[r] \in ComicChapters
    /\ pc[r] = "kind" /\ known[r] # {} => Decided(r)
    /\ pc[r] # "idle" /\ stable[r] => Current(r)
    /\ AnsweredFirst(r) => pc[r] = "done" /\ Decided(r)
    /\ AnsweredFirst(r) /\ stable[r] /\ result[r].kind # "remote" => ActiveLinks(chosen[r]) = {}

Inv == TypeOK /\ UpdateInv /\ ResolverInv

-----------------------------------------------------------------------------
(* Source orders. *)

\* The least order the resolver computes: none when no active link has one, else the
\* order of an active link that is below those of all others.
LEMMA LeastOrder ==
  ASSUME NEW c \in ComicChapters
  PROVE  LET orders == {l.order : l \in ActiveLinks(c)} \ {None}
         IN  /\ orders \subseteq Int
             /\ orders = {} => SourceOrder(c) = None
             /\ orders # {} => /\ SourceOrder(c) \in orders
                               /\ \A n \in orders : SourceOrder(c) <= n
<1> DEFINE orders == {l.order : l \in ActiveLinks(c)} \ {None}
<1>1. ActiveLinks(c) \subseteq Links
  BY DEF ActiveLinks
<1>2. orders \in SUBSET ({l.order : l \in Links} \ {None})
  BY <1>1
<1>3. orders \subseteq Int
  BY <1>1, LinksAssumption
<1>4. orders # {} => \E m \in orders : \A n \in orders : m <= n
  BY <1>2, LinksAssumption
<1>5. SourceOrder(c) = IF orders = {} THEN None
                       ELSE CHOOSE m \in orders : \A n \in orders : m <= n
  BY DEF SourceOrder
<1> HIDE DEF orders
<1>6. orders # {} => SourceOrder(c) \in orders /\ \A n \in orders : SourceOrder(c) <= n
  BY <1>4, <1>5
<1> QED
  BY <1>3, <1>5, <1>6 DEF orders

LEMMA SourceOrderType == \A c \in ComicChapters : SourceOrder(c) \in Int \cup {None}
  BY LeastOrder

\* Comparing least orders is what the documentation says of the links.
LEMMA OrderMeansLinks ==
  ASSUME NEW c \in ComicChapters, NEW d \in ComicChapters
  PROVE  NullableLess(SourceOrder(c), SourceOrder(d)) <=> OrderedBefore(c, d)
<1> DEFINE oc == {l.order : l \in ActiveLinks(c)} \ {None}
           od == {l.order : l \in ActiveLinks(d)} \ {None}
<1>1. /\ oc \subseteq Int /\ (oc = {} => SourceOrder(c) = None)
      /\ oc # {} => SourceOrder(c) \in oc /\ \A n \in oc : SourceOrder(c) <= n
  BY LeastOrder
<1>2. /\ od \subseteq Int /\ (od = {} => SourceOrder(d) = None)
      /\ od # {} => SourceOrder(d) \in od /\ \A n \in od : SourceOrder(d) <= n
  BY LeastOrder
<1>3. OrderedBefore(c, d) <=> \E m \in oc : \A n \in od : m < n
  BY DEF OrderedBefore
<1>4. None \notin oc /\ None \notin od
  OBVIOUS
<1> HIDE DEF oc, od
<1>5. CASE oc = {}
  BY <1>1, <1>3, <1>5 DEF NullableLess
<1>6. CASE oc # {} /\ od = {}
  BY <1>1, <1>2, <1>3, <1>4, <1>6 DEF NullableLess
<1>7. CASE oc # {} /\ od # {}
  <2>1. /\ SourceOrder(c) \in oc /\ SourceOrder(c) \in Int /\ \A n \in oc : SourceOrder(c) <= n
        /\ SourceOrder(d) \in od /\ SourceOrder(d) \in Int /\ \A n \in od : SourceOrder(d) <= n
    BY <1>1, <1>2, <1>7
  <2>2. ASSUME SourceOrder(c) < SourceOrder(d), NEW n \in od
        PROVE  SourceOrder(c) < n
    <3>1. n \in Int /\ SourceOrder(d) <= n
      BY <1>2, <2>1
    <3> QED
      BY <2>1, <2>2, <3>1
  <2>3. ASSUME NEW m \in oc, \A n \in od : m < n
        PROVE  SourceOrder(c) < SourceOrder(d)
    <3>1. m \in Int /\ SourceOrder(c) <= m /\ m < SourceOrder(d)
      BY <1>1, <2>1, <2>3
    <3> QED
      BY <2>1, <3>1
  <2>4. NullableLess(SourceOrder(c), SourceOrder(d)) <=> SourceOrder(c) < SourceOrder(d)
    BY <1>4, <2>1 DEF NullableLess
  <2> QED
    BY <1>3, <2>1, <2>2, <2>3, <2>4
<1> QED
  BY <1>5, <1>6, <1>7

\* The comparator of the sort is a strict total order on the chapters, whatever source
\* orders were read: the chapter picked does not depend on the order of the query's rows.
THEOREM SortIsTotal ==
  ASSUME NEW o \in [ComicChapters -> Int \cup {None}]
  PROVE  /\ \A c \in ComicChapters : ~Before(o, c, c)
         /\ \A c, d \in ComicChapters : c # d => Before(o, c, d) \/ Before(o, d, c)
         /\ \A c, d, e \in ComicChapters : Before(o, c, d) /\ Before(o, d, e) => Before(o, c, e)
<1>1. ASSUME NEW c \in ComicChapters
      PROVE  /\ Number[c] \in Int \cup {None} /\ o[c] \in Int \cup {None}
             /\ Created[c] \in Int /\ c \in Int
  BY ChaptersAssumption
<1>2. \A c \in ComicChapters : ~Before(o, c, c)
  BY <1>1 DEF Before
<1>3. \A a, b \in Int \cup {None} : a # b => NullableLess(a, b) \/ NullableLess(b, a)
  BY ChaptersAssumption DEF NullableLess
<1>4. \A a, b \in Int \cup {None} : ~(NullableLess(a, b) /\ NullableLess(b, a)) /\ ~NullableLess(a, a)
  BY ChaptersAssumption DEF NullableLess
<1>5. \A a, b, c \in Int \cup {None} : NullableLess(a, b) /\ NullableLess(b, c) => NullableLess(a, c)
  BY ChaptersAssumption DEF NullableLess
<1>6. ASSUME NEW c \in ComicChapters, NEW d \in ComicChapters, c # d
      PROVE  Before(o, c, d) \/ Before(o, d, c)
  <2>1. /\ c \in Int /\ d \in Int /\ Created[c] \in Int /\ Created[d] \in Int
        /\ Number[c] # Number[d] =>
             NullableLess(Number[c], Number[d]) \/ NullableLess(Number[d], Number[c])
        /\ o[c] # o[d] => NullableLess(o[c], o[d]) \/ NullableLess(o[d], o[c])
    BY <1>1, <1>3
  <2> QED
    BY <1>6, <2>1 DEF Before
<1>7. ASSUME NEW c \in ComicChapters, NEW d \in ComicChapters, NEW e \in ComicChapters,
             Before(o, c, d), Before(o, d, e)
      PROVE  Before(o, c, e)
  <2>1. /\ c \in Int /\ d \in Int /\ e \in Int
        /\ Created[c] \in Int /\ Created[d] \in Int /\ Created[e] \in Int
    BY <1>1
  <2>2. /\ NullableLess(Number[c], Number[d]) /\ NullableLess(Number[d], Number[e])
             => NullableLess(Number[c], Number[e]) /\ Number[c] # Number[e]
        /\ NullableLess(o[c], o[d]) /\ NullableLess(o[d], o[e])
             => NullableLess(o[c], o[e]) /\ o[c] # o[e]
    BY <1>1, <1>4, <1>5
  <2> QED
    BY <1>7, <2>1, <2>2 DEF Before
<1> QED
  BY <1>2, <1>6, <1>7
-----------------------------------------------------------------------------
(* The invariant: the steps of updates and resolvers, one by one. *)

LEMMA InitInv == Init => Inv
<1> SUFFICES ASSUME Init PROVE Inv
  OBVIOUS
<1>1. TypeOK
  BY PlatformsAssumption DEF Init, InitPlatforms, TypeOK, PlatformsTypeOK, Codes, Reasons,
     NoResult, Unread
<1>2. UpdateInv
  BY DEF Init, InitPlatforms, UpdateInv
<1>3. ResolverInv
  BY DEF Init, ResolverInv, AnsweredFirst, NoResult
<1> QED
  BY <1>1, <1>2, <1>3 DEF Inv

\* A step of an update keeps what is known of updates.
LEMMA PlatformStepInv ==
  ASSUME PlatformsTypeOK, UpdateInv, NEW u \in Updaters, PlatformStep(u)
  PROVE  PlatformsTypeOK' /\ UpdateInv'
<1> USE DEF PlatformsTypeOK, UpdateInv, UpdateEnds
<1>1. CASE BeginUpdate(u)
  BY <1>1 DEF BeginUpdate, Allowed, Statuses
<1>2. CASE RefuseUpdate(u)
  BY <1>2 DEF RefuseUpdate
<1>3. CASE WriteStatus(u)
  <2>1. /\ target[u] \in Platforms /\ wanted[u] \in Statuses
        /\ status' = [status EXCEPT ![target[u]] = wanted[u]]
    BY <1>3 DEF WriteStatus
  <2>2. PlatformsTypeOK'
    BY <1>3, <2>1 DEF WriteStatus
  <2>3. ASSUME NEW v \in Updaters, at'[v] \in {"write", "refresh"}
        PROVE  /\ target'[v] \in Platforms /\ wanted'[v] \in Statuses
               /\ status'[target'[v]] \in held'[v]
    BY <1>3, <2>1, <2>3 DEF WriteStatus
  <2>4. ASSUME NEW v \in Updaters, at'[v] = "write", held'[v] = {"deprecated"}
        PROVE  wanted'[v] = "deprecated"
    <3>1. at[v] = "write" /\ wanted'[v] = wanted[v]
      BY <1>3, <2>4 DEF WriteStatus
    <3>2. held[v] \subseteq held'[v] /\ held[v] # {}
      BY <1>3, <3>1 DEF WriteStatus
    <3> QED
      BY <2>4, <3>1, <3>2
  <2> QED
    BY <2>2, <2>3, <2>4
<1>4. CASE Refresh(u)
  <2>1. status[target[u]] \in Statuses
    BY <1>4 DEF Refresh
  <2> QED
    BY <1>4, <2>1 DEF Refresh
<1>5. CASE UpdateFails(u)
  BY <1>5 DEF UpdateFails
<1>6. CASE UpdateReturned(u)
  BY <1>6 DEF UpdateReturned, ForgetUpdates
<1> QED
  BY <1>1, <1>2, <1>3, <1>4, <1>5, <1>6 DEF PlatformStep

LEMMA RestartInv ==
  ASSUME PlatformsTypeOK, Restart
  PROVE  PlatformsTypeOK' /\ UpdateInv'
  BY PlatformsAssumption DEF PlatformsTypeOK, UpdateInv, Restart, ForgetUpdates, Statuses

\* With the status of every platform unchanged, the links read the same.
LEMMA SameLinks ==
  ASSUME status' = status
  PROVE  /\ \A c : ActiveLinks(c)' = ActiveLinks(c)
         /\ \A c : SourceOrder(c)' = SourceOrder(c)
  BY DEF ActiveLinks, SourceOrder

LEMMA ResolverTypes ==
  ASSUME TypeOK, NEW r \in Resolvers, ResolveStep(r), UNCHANGED platformVars
  PROVE  TypeOK'
<1> USE DEF TypeOK, Goto, Return, Codes, Reasons, Target, Refused, NoResult
<1>0. PlatformsTypeOK'
  BY DEF PlatformsTypeOK, platformVars
<1>1. CASE StartRequested(r)
  BY <1>0, <1>1 DEF StartRequested
<1>2. CASE Refuse(r)
  <2>1. \E code \in Codes, reason \in Reasons : Return(r, Refused(code, reason))
    BY <1>2 DEF Refuse
  <2> QED
    BY <1>0, <1>2, <2>1 DEF Refuse
<1>3. CASE StartFirst(r)
  BY <1>0, <1>3 DEF StartFirst
<1>4. CASE ReadLinks(r)
  <2>1. PICK c \in ComicChapters \ known[r] :
          /\ known' = [known EXCEPT ![r] = @ \cup {c}]
          /\ order' = [order EXCEPT ![r] = [@ EXCEPT ![c] = SourceOrder(c)]]
    BY <1>4 DEF ReadLinks
  <2>2. [order[r] EXCEPT ![c] = SourceOrder(c)] \in [ComicChapters -> Int \cup {None}]
    BY SourceOrderType
  <2>3. order' \in [Resolvers -> [ComicChapters -> Int \cup {None}]]
    BY <2>1, <2>2
  <2> QED
    BY <1>0, <1>4, <2>1, <2>3 DEF ReadLinks
<1>5. CASE Choose(r)
  BY <1>0, <1>5 DEF Choose
<1>6. CASE ReadKind(r)
  <2>1. \E k \in {"local", "remote"} :
          result' = [result EXCEPT ![r] = Target(Reason(r), k)]
    BY <1>6 DEF ReadKind
  <2>2. Reason(r) \in Reasons
    BY DEF Reason
  <2> QED
    BY <1>0, <1>6, <2>1, <2>2 DEF ReadKind
<1>7. CASE ResolveFails(r)
  BY <1>0, <1>7 DEF ResolveFails
<1>8. CASE Resolved(r)
  BY <1>0, <1>8 DEF Resolved, ForgetResolvers, Unread
<1> QED
  BY <1>1, <1>2, <1>3, <1>4, <1>5, <1>6, <1>7, <1>8 DEF ResolveStep

\* A step of resolver r keeps what is known of resolvers.
LEMMA ResolverStepInv ==
  ASSUME TypeOK, ResolverInv, NEW r \in Resolvers, ResolveStep(r), UNCHANGED platformVars
  PROVE  ResolverInv'
<1>1. status' = status
  BY DEF platformVars
<1> DEFINE P(q) ==
      /\ pc[q] = "idle" => known[q] = {}
      /\ pc[q] = "kind" => chosen[q] \in ComicChapters
      /\ pc[q] = "kind" /\ known[q] # {} => Decided(q)
      /\ pc[q] # "idle" /\ stable[q] => Current(q)
      /\ AnsweredFirst(q) => pc[q] = "done" /\ Decided(q)
      /\ AnsweredFirst(q) /\ stable[q] /\ result[q].kind # "remote" => ActiveLinks(chosen[q]) = {}
<1> SUFFICES ASSUME NEW q \in Resolvers PROVE P(q)'
  BY DEF ResolverInv
<1>2. P(q)
  BY DEF ResolverInv
<1>3. CASE q # r
  <2>1. /\ pc'[q] = pc[q] /\ known'[q] = known[q] /\ order'[q] = order[q]
        /\ chosen'[q] = chosen[q] /\ result'[q] = result[q] /\ stable'[q] = stable[q]
    <3> USE DEF TypeOK, Goto
    <3>1. CASE StartRequested(r) \/ StartFirst(r) \/ ReadLinks(r)
      BY <1>3, <3>1 DEF StartRequested, StartFirst, ReadLinks
    <3>2. CASE Refuse(r) \/ Choose(r) \/ ReadKind(r) \/ ResolveFails(r)
      <4>1. UNCHANGED <<known, order, stable>> /\ \A d \in Resolvers \ {r} : chosen'[d] = chosen[d]
        BY <3>2 DEF Refuse, Choose, ReadKind, ResolveFails
      <4>2. \A d \in Resolvers \ {r} : pc'[d] = pc[d] /\ result'[d] = result[d]
        BY <3>2 DEF Refuse, Choose, ReadKind, ResolveFails, Return
      <4> QED
        BY <1>3, <4>1, <4>2
    <3>3. CASE Resolved(r)
      BY <1>3, <3>3 DEF Resolved, ForgetResolvers
    <3> QED
      BY <3>1, <3>2, <3>3 DEF ResolveStep
  <2> QED
    BY <1>1, <1>2, <2>1, SameLinks DEF Decided, Current, AnsweredFirst, Before
<1>4. CASE q = r
  <2> USE DEF Goto, Return, AnsweredFirst, TypeOK
  <2>1. CASE StartRequested(r)
    BY <1>2, <1>4, <2>1 DEF StartRequested, Current
  <2>2. CASE Refuse(r)
    <3>1. /\ pc'[r] = "done" /\ result'[r].code # "ok"
          /\ known'[r] = {}
      BY <1>2, <1>4, <2>2 DEF Refuse, Refused
    <3> QED
      BY <1>4, <3>1 DEF Current
  <2>3. CASE StartFirst(r)
    BY <1>2, <1>4, <2>3 DEF StartFirst, Current
  <2>4. CASE ReadLinks(r)
    <3>1. PICK c \in ComicChapters \ known[r] :
            /\ known' = [known EXCEPT ![r] = @ \cup {c}]
            /\ order' = [order EXCEPT ![r] = [@ EXCEPT ![c] = SourceOrder(c)]]
      BY <2>4 DEF ReadLinks
    <3>2. /\ pc'[r] = "links" /\ result'[r] = result[r] /\ stable'[r] = stable[r]
          /\ known'[r] = known[r] \cup {c}
          /\ order'[r] = [order[r] EXCEPT ![c] = SourceOrder(c)]
          /\ ~AnsweredFirst(r)
      BY <1>2, <1>4, <2>4, <3>1 DEF ReadLinks
    <3>3. stable[r] => Current(r)'
      <4> SUFFICES ASSUME stable[r], NEW d \in known[r] \cup {c}
                   PROVE  order'[r][d] = SourceOrder(d)
        BY <1>1, <3>2, SameLinks DEF Current
      <4>1. d \in ComicChapters /\ order[r] \in [ComicChapters -> Int \cup {None}]
        BY DEF TypeOK
      <4>2. d # c => order[r][d] = SourceOrder(d)
        BY <1>2, <1>4, <2>4 DEF ReadLinks, Current
      <4> QED
        BY <3>2, <4>1, <4>2
    <3> QED
      BY <1>4, <3>2, <3>3
  <2>5. CASE Choose(r)
    <3>1. /\ pc'[r] = "kind" /\ known'[r] = known[r] /\ order'[r] = order[r]
          /\ result'[r] = result[r] /\ stable'[r] = stable[r] /\ ~AnsweredFirst(r)
          /\ known[r] = ComicChapters
      BY <1>2, <1>4, <2>5 DEF Choose
    <3>2. /\ chosen'[r] \in ComicChapters
          /\ \A d \in ComicChapters \ {chosen'[r]} : Before(order[r], chosen'[r], d)
      BY <2>5 DEF Choose
    <3>3. Decided(r)'
      BY <3>1, <3>2 DEF Decided, Before
    <3>4. stable[r] => Current(r)'
      BY <1>1, <1>2, <1>4, <2>5, <3>1, SameLinks DEF Current, Choose
    <3> QED
      BY <1>4, <3>1, <3>2, <3>3, <3>4
  <2>6. CASE ReadKind(r)
    <3>1. /\ pc'[r] = "done" /\ known'[r] = known[r] /\ order'[r] = order[r]
          /\ chosen'[r] = chosen[r] /\ stable'[r] = stable[r]
          /\ result'[r] = Target(Reason(r), IF ActiveLinks(chosen[r]) = {} THEN "local"
                                            ELSE "remote")
      BY <2>6 DEF ReadKind
    <3>2. stable[r] => Current(r)'
      BY <1>1, <1>2, <1>4, <2>6, <3>1, SameLinks DEF Current, ReadKind
    <3>3. result'[r].reason = "first_canonical_chapter" => Decided(r)
      BY <1>2, <1>4, <2>6, <3>1 DEF Reason, Target, ReadKind
    <3>4. Decided(r) => Decided(r)'
      BY <3>1 DEF Decided, Before
    <3>5. result'[r].kind # "remote" => ActiveLinks(chosen[r])' = {}
      BY <1>1, <3>1, SameLinks DEF Target, ActiveLinks
    <3> QED
      BY <1>4, <3>1, <3>2, <3>3, <3>4, <3>5
  <2>7. CASE ResolveFails(r)
    <3>1. /\ pc'[r] = "done" /\ known'[r] = known[r] /\ order'[r] = order[r]
          /\ stable'[r] = stable[r] /\ result'[r].code # "ok"
      BY <2>7 DEF ResolveFails, Refused
    <3>2. stable[r] => Current(r)'
      BY <1>1, <1>2, <1>4, <2>7, <3>1, SameLinks DEF Current, ResolveFails
    <3> QED
      BY <1>4, <3>1, <3>2
  <2>8. CASE Resolved(r)
    BY <1>4, <2>8 DEF Resolved, ForgetResolvers, NoResult
  <2> QED
    BY <2>1, <2>2, <2>3, <2>4, <2>5, <2>6, <2>7, <2>8 DEF ResolveStep
<1> QED
  BY <1>3, <1>4

\* A step of an update leaves the resolvers what they know, or takes their stability away.
LEMMA UpdateStepInv ==
  ASSUME TypeOK, ResolverInv, NEW u \in Updaters, UpdateStep(u)
  PROVE  ResolverInv'
<1>1. /\ pc' = pc /\ known' = known /\ order' = order /\ chosen' = chosen /\ result' = result
      /\ stable' = [r \in Resolvers |-> pc[r] = "idle" \/ (stable[r] /\ status' = status)]
  BY DEF UpdateStep
<1>2. ASSUME NEW r \in Resolvers, pc[r] # "idle", stable'[r]
      PROVE  stable[r] /\ status' = status
  BY <1>1, <1>2
<1>3. ASSUME NEW r \in Resolvers
      PROVE  /\ Decided(r)' <=> Decided(r)
             /\ AnsweredFirst(r)' <=> AnsweredFirst(r)
  BY <1>1 DEF Decided, Before, AnsweredFirst
<1>4. ASSUME NEW r \in Resolvers, pc[r] # "idle", stable'[r]
      PROVE  Current(r)'
  BY <1>1, <1>2, <1>4, SameLinks DEF ResolverInv, Current
<1>5. ASSUME NEW r \in Resolvers, AnsweredFirst(r)', stable'[r], result'[r].kind # "remote"
      PROVE  ActiveLinks(chosen[r])' = {}
  <2>1. pc[r] # "idle" /\ AnsweredFirst(r)
    BY <1>3, <1>5 DEF ResolverInv
  <2>2. stable[r] /\ status' = status
    BY <1>2, <1>5, <2>1
  <2> QED
    BY <1>1, <1>5, <2>1, <2>2 DEF ResolverInv, ActiveLinks
<1> QED
  BY <1>1, <1>3, <1>4, <1>5 DEF ResolverInv

\* The invariant holds in every reachable state: what a resolver has read is what it
\* would read now unless a status has changed, its choice is the one before all others,
\* and an update that only saw deprecated writes deprecated.
THEOREM Invariance == Spec => []Inv
<1>1. Init => Inv
  BY InitInv
<1>2. Inv /\ [Next]_vars => Inv'
  <2> SUFFICES ASSUME Inv, [Next]_vars PROVE Inv'
    OBVIOUS
  <2>1. TypeOK /\ PlatformsTypeOK /\ UpdateInv /\ ResolverInv
    BY DEF Inv, TypeOK
  <2>2. ASSUME NEW u \in Updaters, UpdateStep(u) PROVE Inv'
    <3>1. PlatformsTypeOK' /\ UpdateInv'
      BY <2>1, <2>2, PlatformStepInv DEF UpdateStep
    <3>2. TypeOK'
      BY <2>1, <2>2, <3>1 DEF UpdateStep, TypeOK
    <3> QED
      BY <2>1, <2>2, <3>1, <3>2, UpdateStepInv DEF Inv
  <2>3. ASSUME NEW r \in Resolvers, ResolveStep(r), UNCHANGED platformVars PROVE Inv'
    <3>1. UpdateInv'
      BY <2>1, <2>3 DEF UpdateInv, platformVars
    <3> QED
      BY <2>1, <2>3, <3>1, ResolverTypes, ResolverStepInv DEF Inv
  <2>4. CASE RestartAll
    <3>1. PlatformsTypeOK' /\ UpdateInv'
      BY <2>1, <2>4, RestartInv DEF RestartAll
    <3>2. TypeOK'
      BY <2>1, <2>4, <3>1 DEF RestartAll, ForgetResolvers, TypeOK, Unread, Codes, Reasons, NoResult
    <3>3. ResolverInv'
      BY <2>4 DEF RestartAll, ForgetResolvers, ResolverInv, AnsweredFirst, NoResult
    <3> QED
      BY <3>1, <3>2, <3>3 DEF Inv
  <2>5. CASE UNCHANGED vars
    <3>1. status' = status /\ platformVars' = platformVars /\ resolverVars' = resolverVars
      BY <2>5 DEF vars, platformVars
    <3>2. TypeOK'
      BY <2>1, <3>1 DEF TypeOK, PlatformsTypeOK, platformVars, resolverVars
    <3>3. UpdateInv'
      BY <2>1, <3>1 DEF UpdateInv, platformVars
    <3>4. ResolverInv'
      BY <2>1, <3>1, SameLinks DEF ResolverInv, Decided, Current, AnsweredFirst, Before,
         ActiveLinks, resolverVars
    <3> QED
      BY <3>2, <3>3, <3>4 DEF Inv
  <2> QED
    BY <2>2, <2>3, <2>4, <2>5 DEF Next
<1> QED
  BY <1>1, <1>2, PTL DEF Spec

\* Every variable has its type.
THEOREM TypeCorrect == Spec => []TypeOK
<1>1. Inv => TypeOK
  BY DEF Inv
<1> QED
  BY <1>1, Invariance, PTL

-----------------------------------------------------------------------------
(* What the resolver opens. *)

\* A chapter before all others by the comparator has the least number.
LEMMA DecidedByNumber ==
  ASSUME TypeOK, NEW r \in Resolvers, Decided(r)
  PROVE  chosen[r] \in FirstByNumber
<1> DEFINE c == chosen[r]
<1>1. c \in ComicChapters /\ \A d \in ComicChapters \ {c} : Before(order[r], c, d)
  BY DEF Decided
<1>2. ASSUME NEW d \in ComicChapters
      PROVE  ~NullableLess(Number[d], Number[c])
  <2>1. Number[c] \in Int \cup {None} /\ Number[d] \in Int \cup {None}
    BY <1>1, ChaptersAssumption
  <2>2. Number[d] = Number[c] \/ NullableLess(Number[c], Number[d])
    BY <1>1 DEF Before
  <2> QED
    BY <2>1, <2>2, ChaptersAssumption DEF NullableLess
<1> QED
  BY <1>1, <1>2 DEF FirstByNumber

\* Whatever statuses change while it reads, the resolver opens a chapter of the least
\* number (NumberDecides).
THEOREM NumberAlwaysDecides == Spec => []NumberDecides
<1>1. Inv => NumberDecides
  BY DecidedByNumber DEF Inv, ResolverInv, NumberDecides
<1> QED
  BY <1>1, Invariance, PTL

\* With the statuses the resolver read still in place, a chapter before all others by the
\* comparator is the first by each component of the documented order in turn.
LEMMA DecidedIsFirst ==
  ASSUME TypeOK, NEW r \in Resolvers, Decided(r), Current(r)
  PROVE  chosen[r] \in FirstById
<1> DEFINE c == chosen[r]
<1>1. c \in ComicChapters /\ \A d \in ComicChapters \ {c} : Before(order[r], c, d)
  BY DEF Decided
<1>2. \A d \in ComicChapters : order[r][d] = SourceOrder(d)
  BY DEF Decided, Current
<1>3. c \in FirstByNumber
  BY DecidedByNumber
<1>4. ASSUME NEW d \in FirstByNumber
      PROVE  d \in ComicChapters /\ Number[d] = Number[c]
  <2>1. /\ d \in ComicChapters
        /\ ~NullableLess(Number[c], Number[d]) /\ ~NullableLess(Number[d], Number[c])
    BY <1>1, <1>3 DEF FirstByNumber
  <2>2. Number[c] \in Int \cup {None} /\ Number[d] \in Int \cup {None}
    BY <1>1, <2>1, ChaptersAssumption
  <2> QED
    BY <2>1, <2>2, ChaptersAssumption DEF NullableLess
<1>5. ASSUME NEW d \in FirstByNumber
      PROVE  /\ d \in ComicChapters /\ SourceOrder(d) \in Int \cup {None}
             /\ SourceOrder(c) \in Int \cup {None}
             /\ SourceOrder(d) = SourceOrder(c) \/ NullableLess(SourceOrder(c), SourceOrder(d))
  BY <1>1, <1>2, <1>4, SourceOrderType DEF Before
<1>6. c \in FirstByOrder
  <2>1. ASSUME NEW d \in FirstByNumber PROVE ~OrderedBefore(d, c)
    <3>1. ~NullableLess(SourceOrder(d), SourceOrder(c))
      BY <1>5, ChaptersAssumption DEF NullableLess
    <3> QED
      BY <1>1, <1>5, <3>1, OrderMeansLinks
  <2> QED
    BY <1>3, <2>1 DEF FirstByOrder
<1>7. ASSUME NEW d \in FirstByOrder
      PROVE  /\ d \in ComicChapters /\ Number[d] = Number[c]
             /\ order[r][d] = order[r][c]
  <2>1. d \in FirstByNumber /\ d \in ComicChapters /\ ~OrderedBefore(c, d)
    BY <1>3, <1>4 DEF FirstByOrder
  <2>2. ~NullableLess(SourceOrder(c), SourceOrder(d))
    BY <1>1, <2>1, OrderMeansLinks
  <2> QED
    BY <1>1, <1>2, <1>4, <1>5, <2>1, <2>2
<1>8. ASSUME NEW d \in FirstByOrder
      PROVE  /\ Created[c] <= Created[d]
             /\ Created[d] = Created[c] => c <= d
  <2>1. /\ Created[c] \in Int /\ Created[d] \in Int /\ c \in Int /\ d \in Int
    BY <1>1, <1>7, ChaptersAssumption
  <2>2. d # c => Before(order[r], c, d)
    BY <1>1, <1>7
  <2> QED
    BY <1>7, <2>1, <2>2 DEF Before
<1>9. c \in FirstByAge
  BY <1>6, <1>8 DEF FirstByAge
<1>10. ASSUME NEW d \in FirstByAge PROVE c <= d
  <2>1. d \in FirstByOrder /\ Created[d] <= Created[c]
    BY <1>6 DEF FirstByAge
  <2>2. Created[c] \in Int /\ Created[d] \in Int
    BY <1>1, <1>7, <2>1, ChaptersAssumption
  <2> QED
    BY <1>8, <2>1, <2>2
<1> QED
  BY <1>9, <1>10 DEF FirstById

\* With stable platforms the resolver opens the first chapter of the documented order
\* (FirstIsCanonical), although it reads the links of each chapter on its own.
THEOREM FirstChapterIsCanonical == Spec => []FirstIsCanonical
<1>1. Inv => FirstIsCanonical
  BY DecidedIsFirst DEF Inv, ResolverInv, FirstIsCanonical
<1> QED
  BY <1>1, Invariance, PTL

\* With stable platforms a chapter with a source order is answered as remote
\* (OrderedIsRemote): order and kind, read by different queries, agree.
THEOREM OrderAndKindAgree == Spec => []OrderedIsRemote
<1>1. Inv => OrderedIsRemote
  <2> SUFFICES ASSUME Inv, NEW r \in Resolvers, AnsweredFirst(r), stable[r],
                      order[r][chosen[r]] # None, result[r].kind # "remote"
               PROVE  FALSE
    BY DEF OrderedIsRemote
  <2>1. Decided(r) /\ Current(r) /\ ActiveLinks(chosen[r]) = {}
    BY DEF Inv, ResolverInv
  <2>2. chosen[r] \in ComicChapters /\ order[r][chosen[r]] = SourceOrder(chosen[r])
    BY <2>1 DEF Decided, Current
  <2>3. SourceOrder(chosen[r]) = None
    BY <2>1, <2>2, LeastOrder
  <2> QED
    BY <2>2, <2>3
<1> QED
  BY <1>1, Invariance, PTL

-----------------------------------------------------------------------------
(* What updates do to a deprecated platform. *)

\* Only an update that read a platform before its deprecation, or the seed, brings it back
\* (DeprecationStands).
THEOREM DeprecationMostlyStands == Spec => DeprecationStands
<1> DEFINE A == \A p \in Platforms : Undeprecated(p) =>
                  \/ p = Local /\ Restart
                  \/ \E u \in Updaters : /\ WriteStatus(u) /\ target[u] = p
                                         /\ "deprecated" \in held[u]
                                         /\ held[u] \ {"deprecated"} # {}
<1>1. Inv /\ [Next]_vars => [A]_platformVars
  <2> SUFFICES ASSUME Inv, [Next]_vars, NEW p \in Platforms, Undeprecated(p)
               PROVE  \/ p = Local /\ Restart
                      \/ \E u \in Updaters : /\ WriteStatus(u) /\ target[u] = p
                                             /\ "deprecated" \in held[u]
                                             /\ held[u] \ {"deprecated"} # {}
    OBVIOUS
  <2>1. status' # status
    BY DEF Undeprecated
  <2>2. CASE RestartAll
    BY <2>2 DEF RestartAll, Restart, Undeprecated, Inv, TypeOK, PlatformsTypeOK
  <2>3. ASSUME NEW u \in Updaters, UpdateStep(u)
        PROVE  /\ WriteStatus(u) /\ target[u] = p
               /\ "deprecated" \in held[u] /\ held[u] \ {"deprecated"} # {}
    <3>1. WriteStatus(u)
      BY <2>1, <2>3 DEF UpdateStep, PlatformStep, BeginUpdate, RefuseUpdate, Refresh,
         UpdateFails, UpdateReturned
    <3>2. target[u] = p /\ wanted[u] # "deprecated" /\ at[u] = "write"
      BY <3>1 DEF WriteStatus, Undeprecated, Inv, TypeOK, PlatformsTypeOK
    <3>3. "deprecated" \in held[u] /\ held[u] # {"deprecated"}
      BY <3>2 DEF Inv, UpdateInv, Undeprecated
    <3> QED
      BY <3>1, <3>2, <3>3
  <2> QED
    BY <2>1, <2>2, <2>3 DEF Next, vars, platformVars
<1> QED
  BY <1>1, Invariance, PTL DEF Spec, DeprecationStands

=============================================================================
