------------------------ MODULE CanonicalComicsProofs ------------------------
(***************************************************************************)
(* Proofs about CanonicalComics, for any number of requests, keys, inputs  *)
(* and ids: the inductive invariant, the safety properties of the module,  *)
(* and that it implements IdempotentCreation.                              *)
(***************************************************************************)
EXTENDS CanonicalComics, TLAPS

USE ComicsAssumption

-----------------------------------------------------------------------------
(* The inductive invariant. *)

comicId(r) == answer[r][1]

\* The ledger as the transaction of r leaves it, with row in the place of its key.
LedgerWith(r, row) ==
  IF key(r) = NoKey THEN store.ledger ELSE [store.ledger EXCEPT ![key(r)] = row]

Unbound(r) == key(r) # NoKey => store.ledger[key(r)] = NoRow

\* The transaction of r has claimed its key and made nothing yet.
Claimed(r) ==
  /\ Unbound(r)
  /\ work = [store EXCEPT !.ledger = LedgerWith(r, ClaimedRow(hash(r)))]

\* The transaction of r has made a comic; how much of it follows from pc[r].
Created(r) ==
  /\ Unbound(r)
  /\ answer[r] \in Answers
  /\ answer[r] = <<comicId(r), input(r)>>
  /\ comicId(r) \notin store.comics
  /\ origin[comicId(r)] = key(r)
  /\ work.comics = store.comics \cup {comicId(r)}
  /\ work.metadata = IF pc[r] = "metadata" THEN store.metadata
                     ELSE [store.metadata EXCEPT ![comicId(r)] = input(r)]
  /\ work.titles = IF pc[r] \in {"metadata", "title"} THEN store.titles
                   ELSE [store.titles EXCEPT ![comicId(r)] = input(r)]
  /\ work.ledger = LedgerWith(r, IF pc[r] = "commit" THEN CompletedRow(hash(r), answer[r])
                                 ELSE ClaimedRow(hash(r)))

\* The key of r is bound to its input, and answer[r] is what it is bound to.
Answered(r) == /\ key(r) \in Keys
               /\ answer[r] \in Answers
               /\ store.ledger[key(r)] = CompletedRow(hash(r), answer[r])

Replaying(r) == work = store /\ Answered(r)

Conflicting(r) == /\ key(r) \in Keys
                  /\ store.ledger[key(r)] # NoRow
                  /\ store.ledger[key(r)].hash # hash(r)

\* Where request r is, and what its transaction has changed so far.
RequestOK(r) ==
  /\ pc[r] \in InTransaction <=> holder = r
  /\ pc[r] \in InTransaction \cup {"waiting"} => input(r) \in Inputs
  /\ pc[r] \in {"lookup", "claim", "complete"} => key(r) # NoKey
  /\ pc[r] \in {"lookup", "claim"} => work = store
  /\ pc[r] = "claim" => Unbound(r)
  /\ pc[r] = "comic" => Claimed(r)
  /\ pc[r] \in {"metadata", "title", "complete"} => Created(r)
  /\ pc[r] = "commit" => Created(r) \/ Replaying(r)
  /\ pc[r] = "rollback" => outcome[r] # "ok"
  /\ pc[r] \in {"rollback", "reply"} /\ outcome[r] = "IDEMPOTENCY_CONFLICT" => Conflicting(r)
  /\ pc[r] = "reply" /\ outcome[r] = "ok" /\ key(r) # NoKey => Answered(r)

\* A committed row names a comic made for its key and its hash, ...
LedgerOK ==
  \A k \in Keys : store.ledger[k] # NoRow =>
    /\ store.ledger[k].status = "completed"
    /\ LET a == store.ledger[k].result
       IN  /\ a[1] \in store.comics
           /\ origin[a[1]] = k
           /\ store.metadata[a[1]] = a[2]
           /\ Canonical[a[2]] = store.ledger[k].hash

\* ... and a comic made for a key is the one the row of the key names.
OriginOK ==
  \A c \in store.comics : origin[c] # NoKey =>
    /\ store.ledger[origin[c]] # NoRow
    /\ store.ledger[origin[c]].result[1] = c

\* What was told about a key is what the key is bound to.
ToldOK ==
  \A k \in Keys : \A t \in told[k] :
    /\ store.ledger[k] # NoRow
    /\ t = <<store.ledger[k].hash, store.ledger[k].result>>

IInv ==
  /\ TypeOK
  /\ holder = None => work = store
  /\ \A r \in Requests : RequestOK(r)
  /\ CommittedIsComplete
  /\ LedgerOK
  /\ OriginOK
  /\ ToldOK

-----------------------------------------------------------------------------
(* What a request's step leaves alone. *)

\* The holder of the connection is the only request in a transaction, so a step of
\* request r that commits nothing keeps what is known of every other request.
LEMMA OthersKeep ==
  ASSUME IInv, NEW r \in Requests,
         pc[r] \in InTransaction \/ (holder' = holder /\ work' = work),
         store' = store, holder' \in {holder, None},
         \A q \in Requests \ {r} :
            /\ pc'[q] = pc[q]
            /\ request'[q] = request[q]
            /\ answer'[q] = answer[q]
            /\ outcome'[q] = outcome[q],
         origin' = origin \/ pc[r] \in InTransaction
  PROVE  \A q \in Requests \ {r} : RequestOK(q)'
PROOF
<1> SUFFICES ASSUME NEW q \in Requests \ {r} PROVE RequestOK(q)'
  OBVIOUS
<1>1. RequestOK(q) /\ RequestOK(r)
  BY DEF IInv
<1>2. CASE pc[r] \in InTransaction
  <2>1. pc[q] \notin InTransaction /\ holder = r
    BY <1>1, <1>2 DEF RequestOK
  <2>2. pc'[q] \notin InTransaction /\ holder' # q
    BY <2>1
  <2>3. key(q)' = key(q) /\ input(q)' = input(q) /\ hash(q)' = hash(q)
    BY DEF key, input, hash
  <2> QED
    BY <1>1, <2>1, <2>2, <2>3 DEF RequestOK, InTransaction, Answered, Conflicting
<1>3. CASE holder' = holder /\ work' = work /\ origin' = origin
  BY <1>1, <1>3 DEF RequestOK, InTransaction, Answered, Conflicting, Replaying, Created,
     Claimed, Unbound, LedgerWith, comicId, key, input, hash
<1> QED
  BY <1>2, <1>3

LEMMA InitInvariant == Init => IInv
PROOF
<1> SUFFICES ASSUME Init PROVE IInv
  OBVIOUS
<1>1. store \in Store /\ work \in Store
  BY DEF Init, EmptyStore, Store
<1>2. TypeOK
  BY <1>1 DEF Init, NoRequest, TypeOK
<1>3. \A r \in Requests : RequestOK(r)
  BY DEF Init, RequestOK, InTransaction
<1>4. CommittedIsComplete /\ LedgerOK /\ OriginOK
  BY DEF Init, EmptyStore, CommittedIsComplete, LedgerOK, OriginOK
<1>5. ToldOK
  BY DEF Init, ToldOK
<1> QED
  BY <1>2, <1>3, <1>4, <1>5 DEF Init, IInv

-----------------------------------------------------------------------------
(* Steps outside a transaction. *)

\* The committed store, what callers were told and who made which comic stay.
LEMMA StoreKept ==
  ASSUME IInv, store' = store, told' = told, origin' = origin
  PROVE  CommittedIsComplete' /\ LedgerOK' /\ OriginOK' /\ ToldOK'
BY DEF IInv, CommittedIsComplete, LedgerOK, OriginOK, ToldOK

LEMMA StartStep ==
  ASSUME IInv, NEW r \in Requests, NEW k \in Keys \cup {NoKey}, NEW i \in Inputs,
         Start(r, k, i)
  PROVE  IInv'
PROOF
<1>1. TypeOK'
  BY DEF IInv, TypeOK, Start, Goto
<1>2. \A q \in Requests \ {r} : RequestOK(q)'
  BY OthersKeep DEF Start, Goto, IInv, TypeOK
<1>3. RequestOK(r)'
  BY DEF IInv, TypeOK, RequestOK, Start, Goto, InTransaction, input, key
<1> QED
  BY <1>1, <1>2, <1>3, StoreKept DEF IInv, Start

LEMMA InvalidStep ==
  ASSUME IInv, NEW r \in Requests, Invalid(r)
  PROVE  IInv'
PROOF
<1>1. TypeOK'
  BY DEF IInv, TypeOK, Invalid, Goto
<1>2. \A q \in Requests \ {r} : RequestOK(q)'
  BY OthersKeep DEF Invalid, Goto, IInv, TypeOK
<1>3. RequestOK(r)'
  BY DEF IInv, TypeOK, RequestOK, Invalid, Goto, InTransaction
<1> QED
  BY <1>1, <1>2, <1>3, StoreKept DEF IInv, Invalid

LEMMA BeginStep ==
  ASSUME IInv, NEW r \in Requests, Begin(r)
  PROVE  IInv'
PROOF
<1>1. TypeOK'
  BY DEF IInv, TypeOK, Begin, Goto, InTransaction, key
<1>2. RequestOK(r) /\ work = store /\ \A q \in Requests : pc[q] \notin InTransaction
  BY DEF IInv, Begin, RequestOK
<1>3. \A q \in Requests \ {r} : RequestOK(q)'
  <2> SUFFICES ASSUME NEW q \in Requests \ {r} PROVE RequestOK(q)'
    OBVIOUS
  <2> QED
    BY <1>2 DEF IInv, TypeOK, Begin, Goto, RequestOK, InTransaction, Answered,
       Conflicting, key, input, hash
<1>4. key(r)' = key(r) /\ input(r)' = input(r) /\ hash(r)' = hash(r)
  BY DEF Begin, key, input, hash
<1>5. Claimed(r)' \/ key(r) # NoKey
  <2> SUFFICES ASSUME key(r) = NoKey PROVE Claimed(r)'
    OBVIOUS
  <2>1. [store EXCEPT !.ledger = store.ledger] = store
    BY DEF IInv, TypeOK, Store
  <2> QED
    BY <1>2, <1>4, <2>1 DEF Claimed, Unbound, LedgerWith, Begin
<1>6. RequestOK(r)'
  BY <1>2, <1>4, <1>5 DEF IInv, TypeOK, RequestOK, Begin, Goto, InTransaction
<1> QED
  BY <1>1, <1>3, <1>6, StoreKept DEF IInv, Begin, TypeOK

LEMMA ReplyStep ==
  ASSUME IInv, NEW r \in Requests, Reply(r) \/ ReplyLost(r)
  PROVE  IInv'
PROOF
<1> DEFINE Told == told' = [told EXCEPT ![key(r)] = @ \cup {<<hash(r), answer[r]>>}]
<1>1. told' = told \/ (Answered(r) /\ Told)
  <2>1. CASE ReplyLost(r)
    BY <2>1 DEF ReplyLost
  <2>2. CASE Reply(r)
    <3>1. pc[r] = "reply" /\ RequestOK(r)
      BY <2>2 DEF Reply, IInv
    <3>2. CASE outcome[r] = "ok" /\ key(r) # NoKey
      BY <2>2, <3>1, <3>2 DEF RequestOK, Reply
    <3>3. CASE ~(outcome[r] = "ok" /\ key(r) # NoKey)
      BY <2>2, <3>3 DEF Reply
    <3> QED
      BY <3>2, <3>3
  <2> QED
    BY <2>1, <2>2
<1>2. hash(r) \in Inputs \/ ~Answered(r)
  BY DEF IInv, TypeOK, Store, LedgerRows, NoRow, Answered, CompletedRow
<1>3. told' \in [Keys -> SUBSET (Inputs \X Answers)]
  <2>1. CASE told' = told
    BY <2>1 DEF IInv, TypeOK
  <2>2. CASE Answered(r) /\ Told
    <3>1. <<hash(r), answer[r]>> \in Inputs \X Answers /\ key(r) \in Keys
      BY <1>2, <2>2 DEF Answered
    <3>2. told \in [Keys -> SUBSET (Inputs \X Answers)]
      BY DEF IInv, TypeOK
    <3> QED
      BY <2>2, <3>1, <3>2
  <2> QED
    BY <1>1, <2>1, <2>2
<1>4. TypeOK'
  BY <1>3 DEF IInv, TypeOK, Reply, ReplyLost, Over, NoRequest
<1>5. \A q \in Requests \ {r} : RequestOK(q)'
  BY OthersKeep DEF Reply, ReplyLost, Over, IInv, TypeOK
<1>6. RequestOK(r)'
  BY DEF IInv, TypeOK, RequestOK, Reply, ReplyLost, Over, InTransaction
<1>7. ToldOK'
  <2>1. CASE told' = told
    BY <2>1 DEF IInv, ToldOK, Reply, ReplyLost, Over
  <2>2. CASE Answered(r) /\ Told
    <3>1. store' = store /\ told \in [Keys -> SUBSET (Inputs \X Answers)] /\ ToldOK
      BY DEF Reply, ReplyLost, Over, IInv, TypeOK
    <3> SUFFICES ASSUME NEW k \in Keys, NEW t \in told'[k]
                 PROVE  store.ledger[k] # NoRow /\ t = <<store.ledger[k].hash, store.ledger[k].result>>
      BY <3>1 DEF ToldOK
    <3>2. t \in told[k] \/ (k = key(r) /\ t = <<hash(r), answer[r]>>)
      BY <2>2, <3>1
    <3> QED
      BY <2>2, <3>1, <3>2 DEF ToldOK, Answered, CompletedRow, NoRow
  <2> QED
    BY <1>1, <2>1, <2>2
<1>8. CommittedIsComplete' /\ LedgerOK' /\ OriginOK'
  BY DEF IInv, CommittedIsComplete, LedgerOK, OriginOK, Reply, ReplyLost, Over
<1> QED
  BY <1>4, <1>5, <1>6, <1>7, <1>8 DEF IInv, Reply, ReplyLost, Over

LEMMA CrashStep ==
  ASSUME IInv, Crash
  PROVE  IInv'
PROOF
<1>1. TypeOK'
  BY DEF IInv, TypeOK, Crash, Over, NoRequest
<1>2. \A q \in Requests : RequestOK(q)'
  BY DEF Crash, Over, RequestOK, InTransaction
<1> QED
  BY <1>1, <1>2, StoreKept DEF IInv, Crash, Over

LEMMA CloseStep ==
  ASSUME IInv, Close
  PROVE  IInv'
PROOF
<1>1. TypeOK'
  BY DEF IInv, TypeOK, Close, Unanswered, InTransaction
<1>2. ASSUME NEW q \in Requests PROVE RequestOK(q)'
  <2>1. RequestOK(q)
    BY DEF IInv
  <2>2. key(q)' = key(q) /\ input(q)' = input(q) /\ hash(q)' = hash(q)
    BY DEF Close, key, input, hash
  <2>3. CASE Unanswered(q)
    BY <2>3 DEF Close, RequestOK, InTransaction, IInv, TypeOK
  <2>4. CASE ~Unanswered(q)
    <3>1. pc'[q] = pc[q] /\ outcome'[q] = outcome[q] /\ pc[q] \notin InTransaction
      BY <2>4 DEF Close, Unanswered, IInv, TypeOK
    <3> QED
      BY <2>1, <2>2, <2>4, <3>1 DEF Close, RequestOK, InTransaction, Answered, Conflicting,
         Unanswered, IInv, TypeOK
  <2> QED
    BY <2>3, <2>4
<1> QED
  BY <1>1, <1>2, StoreKept DEF IInv, Close

-----------------------------------------------------------------------------
(* The statements of a transaction. *)

LEMMA RollbackStep ==
  ASSUME IInv, NEW r \in Requests, Rollback(r)
  PROVE  IInv'
PROOF
<1>1. TypeOK'
  BY DEF IInv, TypeOK, Rollback, Goto
<1>2. pc[r] \in InTransaction /\ RequestOK(r)
  BY DEF Rollback, InTransaction, IInv
<1>3. \A q \in Requests \ {r} : RequestOK(q)'
  BY <1>2, OthersKeep DEF Rollback, Goto, IInv, TypeOK
<1>4. RequestOK(r)'
  BY <1>2 DEF IInv, TypeOK, RequestOK, Rollback, Goto, InTransaction, Conflicting, key,
     input, hash
<1> QED
  BY <1>1, <1>3, <1>4, StoreKept DEF IInv, Rollback

LEMMA StatementFailsStep ==
  ASSUME IInv, NEW r \in Requests, StatementFails(r)
  PROVE  IInv'
PROOF
<1>1. TypeOK'
  BY DEF IInv, TypeOK, StatementFails, Fail, Goto, InTransaction
<1>2. pc[r] \in InTransaction /\ RequestOK(r) /\ holder = r
  BY DEF StatementFails, IInv, RequestOK
<1>3. \A q \in Requests \ {r} : RequestOK(q)'
  BY <1>2, OthersKeep DEF StatementFails, Fail, Goto, IInv, TypeOK
<1>4. RequestOK(r)'
  BY <1>2 DEF IInv, TypeOK, RequestOK, StatementFails, Fail, Goto, InTransaction, input
<1> QED
  BY <1>1, <1>2, <1>3, <1>4, StoreKept DEF IInv, StatementFails

LEMMA LookupStep ==
  ASSUME IInv, NEW r \in Requests, Lookup(r)
  PROVE  IInv'
PROOF
<1>1. /\ pc[r] = "lookup" /\ RequestOK(r) /\ TypeOK
      /\ UNCHANGED <<store, work, holder, request, told, origin>>
  BY DEF Lookup, LookupFresh, LookupRefused, LookupReplay, IInv
<1>2. /\ pc[r] \in InTransaction /\ holder = r /\ work = store
      /\ key(r) \in Keys /\ input(r) \in Inputs /\ hash(r) \in Inputs
  BY <1>1 DEF RequestOK, InTransaction, TypeOK, key, input, hash
<1>3. key(r)' = key(r) /\ input(r)' = input(r) /\ hash(r)' = hash(r)
  BY <1>1 DEF key, input, hash
<1>4. TypeOK' /\ RequestOK(r)'
  <2>1. CASE LookupFresh(r)
    <3>1. TypeOK'
      BY <2>1, <1>1 DEF TypeOK, LookupFresh, Goto, InTransaction
    <3>2. RequestOK(r)'
      BY <2>1, <1>1, <1>2, <1>3 DEF TypeOK, RequestOK, LookupFresh, Goto, InTransaction, Unbound
    <3> QED
      BY <3>1, <3>2
  <2>2. CASE LookupRefused(r)
    <3>1. store.ledger[key(r)].status = "completed" /\ Conflicting(r)
      BY <2>2, <1>2 DEF LookupRefused, IInv, LedgerOK, Conflicting
    <3>2. TypeOK'
      BY <2>2, <1>1 DEF TypeOK, LookupRefused, Fail, Goto, InTransaction
    <3>3. Conflicting(r)'
      BY <3>1, <1>1, <1>3 DEF Conflicting
    <3>4. pc'[r] = "rollback" /\ outcome'[r] = "IDEMPOTENCY_CONFLICT"
      BY <2>2, <1>1, <1>2, <3>1 DEF LookupRefused, Fail, Goto, TypeOK
    <3>5. RequestOK(r)'
      BY <1>1, <1>2, <1>3, <3>3, <3>4 DEF RequestOK, InTransaction
    <3> QED
      BY <3>2, <3>5
  <2>3. CASE LookupReplay(r)
    <3>1. store.ledger[key(r)] \in LedgerRows \cup {NoRow}
      BY <1>1, <1>2 DEF TypeOK, Store
    <3>2. store.ledger[key(r)].status = "completed" /\ store.ledger[key(r)].hash = hash(r)
      BY <2>3, <1>2 DEF LookupReplay
    <3>3. /\ store.ledger[key(r)].result \in Answers
          /\ store.ledger[key(r)] = CompletedRow(hash(r), store.ledger[key(r)].result)
      BY <3>1, <3>2 DEF LedgerRows, NoRow, CompletedRow
    <3>4. answer' = [answer EXCEPT ![r] = store.ledger[key(r)].result]
      BY <2>3, <1>2 DEF LookupReplay, Replayed
    <3>5. TypeOK'
      BY <2>3, <1>1, <3>3, <3>4 DEF TypeOK, LookupReplay, Goto, InTransaction
    <3>6. answer'[r] = store.ledger[key(r)].result
      BY <3>4, <1>1 DEF TypeOK
    <3>7. Replaying(r)'
      BY <1>1, <1>2, <1>3, <3>3, <3>6 DEF Replaying, Answered, CompletedRow
    <3>8. RequestOK(r)'
      BY <2>3, <1>1, <1>2, <1>3, <3>7 DEF TypeOK, RequestOK, LookupReplay, Goto, InTransaction
    <3> QED
      BY <3>5, <3>8
  <2> QED
    BY <2>1, <2>2, <2>3 DEF Lookup
<1>5. \A q \in Requests \ {r} : RequestOK(q)'
  BY <1>1, <1>2, OthersKeep DEF Lookup, LookupFresh, LookupRefused, LookupReplay, Fail, Goto, TypeOK
<1> QED
  BY <1>1, <1>2, <1>4, <1>5, StoreKept DEF IInv

LEMMA ClaimStep ==
  ASSUME IInv, NEW r \in Requests, Claim(r)
  PROVE  IInv'
PROOF
<1>1. /\ pc[r] = "claim" /\ RequestOK(r) /\ TypeOK
      /\ UNCHANGED <<store, holder, request, answer, outcome, told, origin>>
  BY DEF Claim, IInv
<1>2. /\ pc[r] \in InTransaction /\ holder = r /\ work = store /\ Unbound(r)
      /\ key(r) \in Keys /\ key(r) # NoKey /\ input(r) \in Inputs /\ hash(r) \in Inputs
  BY <1>1 DEF RequestOK, InTransaction, TypeOK, key, input, hash
<1>3. key(r)' = key(r) /\ input(r)' = input(r) /\ hash(r)' = hash(r)
  BY <1>1 DEF key, input, hash
<1>4. work' = [store EXCEPT !.ledger = LedgerWith(r, ClaimedRow(hash(r)))]
  BY <1>1, <1>2 DEF Claim, LedgerWith, TypeOK, Store
<1>5. ClaimedRow(hash(r)) \in LedgerRows
  BY <1>2 DEF ClaimedRow, LedgerRows
<1>6. work' \in Store
  BY <1>1, <1>2, <1>4, <1>5 DEF TypeOK, Store, LedgerWith
<1>7. TypeOK'
  BY <1>1, <1>6 DEF TypeOK, Claim, Goto, InTransaction
<1>8. Claimed(r)'
  BY <1>1, <1>2, <1>3, <1>4 DEF Claimed, Unbound, LedgerWith, ClaimedRow
<1>9. RequestOK(r)'
  BY <1>1, <1>2, <1>3, <1>8 DEF TypeOK, RequestOK, Claim, Goto, InTransaction
<1>10. \A q \in Requests \ {r} : RequestOK(q)'
  BY <1>1, <1>2, OthersKeep DEF Claim, Goto, TypeOK
<1> QED
  BY <1>1, <1>2, <1>7, <1>9, <1>10, StoreKept DEF IInv

LEMMA CreateComicStep ==
  ASSUME IInv, NEW r \in Requests, CreateComic(r)
  PROVE  IInv'
PROOF
<1>1. /\ pc[r] = "comic" /\ RequestOK(r) /\ TypeOK
      /\ UNCHANGED <<store, holder, request, outcome, told>>
  BY DEF CreateComic, IInv
<1>2. pc[r] \in InTransaction /\ holder = r /\ Claimed(r) /\ input(r) \in Inputs
  BY <1>1 DEF RequestOK, InTransaction
<1>3. key(r)' = key(r) /\ input(r)' = input(r) /\ hash(r)' = hash(r)
  BY <1>1 DEF key, input, hash
<1>4. /\ work.comics = store.comics /\ work.metadata = store.metadata
      /\ work.titles = store.titles /\ work.ledger = LedgerWith(r, ClaimedRow(hash(r)))
  BY <1>1, <1>2 DEF Claimed, TypeOK, Store
<1>5. PICK c \in Ids \ work.comics :
        /\ work' = [work EXCEPT !.comics = @ \cup {c}]
        /\ answer' = [answer EXCEPT ![r] = <<c, input(r)>>]
        /\ origin' = [origin EXCEPT ![c] = key(r)]
  BY DEF CreateComic
<1>6. c \in Ids /\ c \notin store.comics /\ <<c, input(r)>> \in Answers
  BY <1>2, <1>4, <1>5 DEF Answers
<1>7. key(r) \in Keys \cup {NoKey}
  BY <1>1 DEF TypeOK, key
<1>8. TypeOK'
  <2>1. work' \in Store
    BY <1>1, <1>5 DEF TypeOK, Store
  <2>2. answer' \in [Requests -> Answers \cup {None}] /\ origin' \in [Ids -> Keys \cup {NoKey}]
    BY <1>1, <1>5, <1>6, <1>7 DEF TypeOK
  <2> QED
    BY <1>1, <2>1, <2>2 DEF TypeOK, CreateComic, Goto, InTransaction
<1>9. RequestOK(r)'
  <2>1. /\ work'.comics = store.comics \cup {c} /\ work'.metadata = store.metadata
        /\ work'.titles = store.titles /\ work'.ledger = LedgerWith(r, ClaimedRow(hash(r)))
    BY <1>1, <1>4, <1>5 DEF TypeOK, Store
  <2>2. answer'[r] = <<c, input(r)>> /\ origin'[c] = key(r) /\ pc'[r] = "metadata"
    BY <1>1, <1>5, <1>6 DEF TypeOK, CreateComic, Goto
  <2>3. LedgerWith(r, ClaimedRow(hash(r)))' = LedgerWith(r, ClaimedRow(hash(r)))
    BY <1>1, <1>3 DEF LedgerWith, ClaimedRow
  <2>4. Created(r)'
    BY <1>1, <1>2, <1>3, <1>6, <2>1, <2>2, <2>3 DEF Created, Claimed, Unbound, comicId
  <2> QED
    BY <1>1, <1>2, <1>3, <2>2, <2>4 DEF RequestOK, InTransaction
<1>10. \A q \in Requests \ {r} : RequestOK(q)'
  BY <1>1, <1>2, <1>5, OthersKeep DEF CreateComic, Goto, TypeOK
<1>11. \A d \in store.comics : d \in Ids /\ origin'[d] = origin[d]
  BY <1>1, <1>5, <1>6 DEF TypeOK, Store
<1>12. CommittedIsComplete' /\ ToldOK'
  BY <1>1 DEF IInv, CommittedIsComplete, ToldOK
<1>13. LedgerOK' /\ OriginOK'
  BY <1>1, <1>11 DEF IInv, LedgerOK, OriginOK
<1> QED
  BY <1>1, <1>2, <1>8, <1>9, <1>10, <1>12, <1>13 DEF IInv

\* What holds once a comic is made: its parts have their types.
LEMMA CreatedTypes ==
  ASSUME IInv, NEW r \in Requests, Created(r), input(r) \in Inputs
  PROVE  /\ answer[r][1] = comicId(r) /\ answer[r][2] = input(r)
         /\ comicId(r) \in Ids /\ hash(r) \in Inputs
         /\ key(r) \in Keys \cup {NoKey}
BY DEF IInv, TypeOK, Created, Answers, comicId, hash, key

LEMMA CreateMetadataStep ==
  ASSUME IInv, NEW r \in Requests, CreateMetadata(r)
  PROVE  IInv'
PROOF
<1>1. /\ pc[r] = "metadata" /\ RequestOK(r) /\ TypeOK
      /\ UNCHANGED <<store, holder, request, answer, outcome, told, origin>>
  BY DEF CreateMetadata, IInv
<1>2. pc[r] \in InTransaction /\ holder = r /\ Created(r) /\ input(r) \in Inputs
  BY <1>1 DEF RequestOK, InTransaction
<1>3. /\ key(r)' = key(r) /\ input(r)' = input(r) /\ hash(r)' = hash(r) /\ comicId(r)' = comicId(r)
      /\ LedgerWith(r, ClaimedRow(hash(r)))' = LedgerWith(r, ClaimedRow(hash(r)))
  BY <1>1 DEF key, input, hash, comicId, LedgerWith, ClaimedRow
<1>4. work' = [work EXCEPT !.metadata = [store.metadata EXCEPT ![comicId(r)] = input(r)]]
  BY <1>1, <1>2, CreatedTypes DEF CreateMetadata, Created, TypeOK, Store
<1>5. work' \in Store
  BY <1>1, <1>2, <1>4 DEF TypeOK, Store
<1>6. TypeOK' /\ pc'[r] = "title"
  BY <1>1, <1>5 DEF TypeOK, CreateMetadata, Goto, InTransaction
<1>7. Created(r)'
  <2>1. /\ work'.comics = work.comics /\ work'.titles = work.titles
        /\ work'.ledger = work.ledger
        /\ work'.metadata = [store.metadata EXCEPT ![comicId(r)] = input(r)]
    BY <1>1, <1>4 DEF TypeOK, Store
  <2> QED
    BY <1>1, <1>2, <1>3, <1>6, <2>1 DEF Created, Unbound
<1>8. RequestOK(r)'
  BY <1>1, <1>2, <1>3, <1>6, <1>7 DEF RequestOK, InTransaction
<1>9. \A q \in Requests \ {r} : RequestOK(q)'
  BY <1>1, <1>2, OthersKeep DEF CreateMetadata, Goto, TypeOK
<1> QED
  BY <1>1, <1>2, <1>6, <1>8, <1>9, StoreKept DEF IInv

LEMMA AddPrimaryTitleStep ==
  ASSUME IInv, NEW r \in Requests, AddPrimaryTitle(r)
  PROVE  IInv'
PROOF
<1>1. /\ pc[r] = "title" /\ RequestOK(r) /\ TypeOK
      /\ UNCHANGED <<store, holder, request, answer, outcome, told, origin>>
  BY DEF AddPrimaryTitle, IInv
<1>2. pc[r] \in InTransaction /\ holder = r /\ Created(r) /\ input(r) \in Inputs
  BY <1>1 DEF RequestOK, InTransaction
<1>3. /\ key(r)' = key(r) /\ input(r)' = input(r) /\ hash(r)' = hash(r) /\ comicId(r)' = comicId(r)
      /\ LedgerWith(r, ClaimedRow(hash(r)))' = LedgerWith(r, ClaimedRow(hash(r)))
  BY <1>1 DEF key, input, hash, comicId, LedgerWith, ClaimedRow
<1>4. work' = [work EXCEPT !.titles = [store.titles EXCEPT ![comicId(r)] = input(r)]]
  BY <1>1, <1>2, CreatedTypes DEF AddPrimaryTitle, Created, TypeOK, Store
<1>5. work' \in Store
  BY <1>1, <1>2, <1>4 DEF TypeOK, Store
<1>6. TypeOK' /\ pc'[r] = IF key(r) = NoKey THEN "commit" ELSE "complete"
  BY <1>1, <1>5 DEF TypeOK, AddPrimaryTitle, Goto, InTransaction
<1>7. Created(r)'
  <2>1. /\ work'.comics = work.comics /\ work'.metadata = work.metadata
        /\ work'.ledger = work.ledger
        /\ work'.titles = [store.titles EXCEPT ![comicId(r)] = input(r)]
    BY <1>1, <1>4 DEF TypeOK, Store
  <2>2. work.ledger = LedgerWith(r, ClaimedRow(hash(r)))
    BY <1>1, <1>2 DEF Created
  <2>3. CASE key(r) = NoKey
    <3>1. work.ledger = store.ledger
      BY <2>2, <2>3 DEF LedgerWith
    <3> QED
      BY <1>1, <1>2, <1>3, <1>6, <2>1, <2>3, <3>1 DEF Created, Unbound, LedgerWith
  <2>4. CASE key(r) # NoKey
    BY <1>1, <1>2, <1>3, <1>6, <2>1, <2>2, <2>4 DEF Created, Unbound
  <2> QED
    BY <2>3, <2>4
<1>8. RequestOK(r)'
  BY <1>1, <1>2, <1>3, <1>6, <1>7 DEF RequestOK, InTransaction
<1>9. \A q \in Requests \ {r} : RequestOK(q)'
  BY <1>1, <1>2, OthersKeep DEF AddPrimaryTitle, Goto, TypeOK
<1> QED
  BY <1>1, <1>2, <1>6, <1>8, <1>9, StoreKept DEF IInv

LEMMA MarkCompletedStep ==
  ASSUME IInv, NEW r \in Requests, MarkCompleted(r)
  PROVE  IInv'
PROOF
<1> DEFINE done == CompletedRow(hash(r), answer[r])
<1>1. /\ pc[r] = "complete" /\ RequestOK(r) /\ TypeOK
      /\ UNCHANGED <<store, holder, request, answer, told, origin>>
  BY DEF MarkCompleted, IInv
<1>2. /\ pc[r] \in InTransaction /\ holder = r /\ Created(r) /\ input(r) \in Inputs
      /\ key(r) # NoKey
  BY <1>1 DEF RequestOK, InTransaction
<1>3. key(r)' = key(r) /\ input(r)' = input(r) /\ hash(r)' = hash(r) /\ comicId(r)' = comicId(r)
  BY <1>1 DEF key, input, hash, comicId
<1>4. key(r) \in Keys /\ hash(r) \in Inputs /\ answer[r] \in Answers
  BY <1>2, CreatedTypes DEF Created
<1>5. work.ledger = [store.ledger EXCEPT ![key(r)] = ClaimedRow(hash(r))]
  BY <1>1, <1>2 DEF Created, LedgerWith
<1>6. work.ledger[key(r)] = ClaimedRow(hash(r)) /\ work.ledger[key(r)] # NoRow
  BY <1>1, <1>4, <1>5 DEF TypeOK, Store, ClaimedRow, NoRow
<1>7. /\ work' = [work EXCEPT !.ledger[key(r)] = done]
      /\ pc' = [pc EXCEPT ![r] = "commit"] /\ outcome' = outcome
  BY <1>6 DEF MarkCompleted, Goto
<1>8. done \in LedgerRows
  BY <1>4 DEF CompletedRow, LedgerRows
<1>9. TypeOK'
  <2>1. work' \in Store
    BY <1>1, <1>4, <1>7, <1>8 DEF TypeOK, Store
  <2> QED
    BY <1>1, <1>7, <2>1 DEF TypeOK, InTransaction
<1>10. Created(r)'
  <2>1. /\ work'.comics = work.comics /\ work'.metadata = work.metadata
        /\ work'.titles = work.titles
        /\ work'.ledger = [work.ledger EXCEPT ![key(r)] = done]
    BY <1>1, <1>7 DEF TypeOK, Store
  <2>2. work'.ledger = [store.ledger EXCEPT ![key(r)] = done]
    BY <1>1, <1>4, <1>5, <2>1 DEF TypeOK, Store
  <2>3. LedgerWith(r, done)' = [store.ledger EXCEPT ![key(r)] = done]
    BY <1>1, <1>2, <1>3 DEF LedgerWith, CompletedRow
  <2>4. pc'[r] = "commit"
    BY <1>1, <1>7 DEF TypeOK
  <2> QED
    BY <1>1, <1>2, <1>3, <2>1, <2>2, <2>3, <2>4 DEF Created, Unbound
<1>11. RequestOK(r)'
  BY <1>1, <1>2, <1>3, <1>7, <1>10 DEF RequestOK, InTransaction, TypeOK
<1>12. \A q \in Requests \ {r} : RequestOK(q)'
  BY <1>1, <1>2, <1>7, OthersKeep DEF TypeOK
<1> QED
  BY <1>1, <1>2, <1>9, <1>11, <1>12, StoreKept DEF IInv

\* The row of a key is written once, when its comic is committed.
LEMMA CreatedLedger ==
  ASSUME IInv, NEW r \in Requests, Commit(r), Created(r)
  PROVE  /\ input(r) \in Inputs /\ comicId(r) \in Ids \ store.comics
         /\ store'.comics = store.comics \cup {comicId(r)}
         /\ store'.metadata = [store.metadata EXCEPT ![comicId(r)] = input(r)]
         /\ store'.titles = [store.titles EXCEPT ![comicId(r)] = input(r)]
         /\ store'.ledger = IF key(r) = NoKey THEN store.ledger
                            ELSE [store.ledger EXCEPT ![key(r)] =
                                    CompletedRow(hash(r), <<comicId(r), input(r)>>)]
         /\ origin[comicId(r)] = key(r) /\ Unbound(r)
PROOF
<1>1. pc[r] = "commit" /\ RequestOK(r) /\ store' = work
  BY DEF Commit, IInv
<1>2. input(r) \in Inputs
  BY <1>1 DEF RequestOK, InTransaction
<1> QED
  BY <1>1, <1>2, CreatedTypes DEF Created, LedgerWith

LEMMA CommitStep ==
  ASSUME IInv, NEW r \in Requests, Commit(r)
  PROVE  IInv'
PROOF
<1>1. /\ pc[r] = "commit" /\ RequestOK(r) /\ TypeOK /\ store' = work /\ holder' = None
      /\ pc' = [pc EXCEPT ![r] = "reply"] /\ outcome' = [outcome EXCEPT ![r] = "ok"]
      /\ UNCHANGED <<work, request, answer, told, origin>>
  BY DEF Commit, IInv, Goto
<1>2. pc[r] \in InTransaction /\ holder = r /\ input(r) \in Inputs
  BY <1>1 DEF RequestOK, InTransaction
<1>3. Created(r) \/ Replaying(r)
  BY <1>1 DEF RequestOK
<1>4. TypeOK'
  BY <1>1 DEF TypeOK
<1>5. \A q \in Requests : key(q)' = key(q) /\ input(q)' = input(q) /\ hash(q)' = hash(q)
  BY <1>1 DEF key, input, hash
<1>6. \A k \in Keys : store.ledger[k] # NoRow => store'.ledger[k] = store.ledger[k]
  <2>1. CASE Replaying(r)
    BY <1>1, <2>1 DEF Replaying
  <2>2. CASE Created(r)
    BY <1>1, <2>2, CreatedLedger DEF TypeOK, Store, Unbound
  <2> QED
    BY <1>3, <2>1, <2>2
<1>7. \A q \in Requests \ {r} : RequestOK(q)'
  <2> SUFFICES ASSUME NEW q \in Requests \ {r} PROVE RequestOK(q)'
    OBVIOUS
  <2>1. RequestOK(q) /\ pc[q] \notin InTransaction /\ pc'[q] = pc[q] /\ outcome'[q] = outcome[q]
        /\ answer'[q] = answer[q]
    BY <1>1, <1>2 DEF IInv, RequestOK, TypeOK
  <2>2. Answered(q) => Answered(q)'
    BY <1>5, <1>6, <2>1 DEF Answered, CompletedRow, NoRow
  <2>3. Conflicting(q) => Conflicting(q)'
    BY <1>5, <1>6 DEF Conflicting
  <2> QED
    BY <1>1, <1>5, <2>1, <2>2, <2>3 DEF RequestOK, InTransaction
<1>8. Answered(r)' \/ key(r) = NoKey
  <2>1. CASE Replaying(r)
    BY <1>1, <1>5, <2>1 DEF Replaying, Answered, CompletedRow
  <2>2. CASE Created(r) /\ key(r) # NoKey
    <3>1. answer[r] \in Answers /\ answer[r] = <<comicId(r), input(r)>> /\ key(r) \in Keys
      BY <2>2, <1>2, CreatedTypes DEF Created
    <3>2. store'.ledger[key(r)] = CompletedRow(hash(r), answer[r])
      BY <1>1, <2>2, <3>1, CreatedLedger DEF TypeOK, Store
    <3> QED
      BY <1>1, <1>5, <3>1, <3>2 DEF Answered, CompletedRow
  <2> QED
    BY <1>3, <2>1, <2>2
<1>9. RequestOK(r)'
  BY <1>1, <1>2, <1>5, <1>8 DEF RequestOK, InTransaction, TypeOK
<1>10. ToldOK'
  BY <1>1, <1>6 DEF IInv, ToldOK
<1>11. CommittedIsComplete' /\ LedgerOK' /\ OriginOK'
  <2>1. CASE Replaying(r)
    BY <1>1, <2>1 DEF Replaying, IInv, CommittedIsComplete, LedgerOK, OriginOK
  <2>2. CASE Created(r)
    <3> DEFINE row == CompletedRow(hash(r), <<comicId(r), input(r)>>)
    <3>1. /\ comicId(r) \in Ids \ store.comics /\ origin[comicId(r)] = key(r) /\ key(r) \in Keys \cup {NoKey}
          /\ store'.comics = store.comics \cup {comicId(r)}
          /\ store'.metadata = [store.metadata EXCEPT ![comicId(r)] = input(r)]
          /\ store'.titles = [store.titles EXCEPT ![comicId(r)] = input(r)]
          /\ store'.ledger = IF key(r) = NoKey THEN store.ledger
                             ELSE [store.ledger EXCEPT ![key(r)] = row]
      BY <1>2, <2>2, CreatedLedger, CreatedTypes
    <3>2. store.comics \subseteq Ids /\ store.metadata \in [Ids -> Inputs \cup {None}]
          /\ store.titles \in [Ids -> Inputs \cup {None}]
          /\ store.ledger \in [Keys -> LedgerRows \cup {NoRow}] /\ origin' = origin
      BY <1>1 DEF TypeOK, Store
    <3>3. row.status = "completed" /\ row.result[1] = comicId(r) /\ row.result[2] = input(r)
          /\ row.hash = Canonical[input(r)] /\ row # NoRow
      BY DEF CompletedRow, NoRow, hash
    <3>4. CommittedIsComplete'
      BY <1>2, <3>1, <3>2 DEF IInv, CommittedIsComplete
    <3>5. LedgerOK'
      <4> SUFFICES ASSUME NEW k \in Keys, store'.ledger[k] # NoRow
                   PROVE  /\ store'.ledger[k].status = "completed"
                          /\ store'.ledger[k].result[1] \in store'.comics
                          /\ origin[store'.ledger[k].result[1]] = k
                          /\ store'.metadata[store'.ledger[k].result[1]] = store'.ledger[k].result[2]
                          /\ Canonical[store'.ledger[k].result[2]] = store'.ledger[k].hash
        BY <3>2 DEF LedgerOK
      <4>1. CASE k = key(r)
        <5>1. store'.ledger[k] = row
          BY <3>1, <3>2, <4>1
        <5> QED
          BY <3>1, <3>2, <3>3, <4>1, <5>1
      <4>2. CASE k # key(r)
        <5>1. store'.ledger[k] = store.ledger[k]
          BY <3>1, <3>2, <4>2
        <5>2. store.ledger[k].result[1] \in store.comics
          BY <5>1 DEF IInv, LedgerOK
        <5> QED
          BY <3>1, <3>2, <5>1, <5>2 DEF IInv, LedgerOK
      <4> QED
        BY <4>1, <4>2
    <3>6. OriginOK'
      <4> SUFFICES ASSUME NEW d \in store'.comics, origin[d] # NoKey
                   PROVE  /\ store'.ledger[origin[d]] # NoRow
                          /\ store'.ledger[origin[d]].result[1] = d
        BY <3>2 DEF OriginOK
      <4>1. CASE d = comicId(r)
        <5>1. store'.ledger[origin[d]] = row
          BY <3>1, <3>2, <4>1
        <5> QED
          BY <3>3, <4>1, <5>1
      <4>2. CASE d # comicId(r)
        <5>1. d \in store.comics /\ store.ledger[origin[d]] # NoRow
          BY <3>1, <4>2 DEF IInv, OriginOK
        <5>2. origin[d] \in Keys
          BY <1>1, <3>2, <5>1 DEF TypeOK
        <5> QED
          BY <1>6, <5>1, <5>2 DEF IInv, OriginOK
      <4> QED
        BY <4>1, <4>2
    <3> QED
      BY <3>4, <3>5, <3>6
  <2> QED
    BY <1>3, <2>1, <2>2
<1> QED
  BY <1>1, <1>4, <1>7, <1>9, <1>10, <1>11 DEF IInv

-----------------------------------------------------------------------------
(* The theorems. *)

LEMMA NextStep ==
  ASSUME IInv, [Next]_vars
  PROVE  IInv'
PROOF
<1>1. CASE UNCHANGED vars
  <2>1. TypeOK' /\ (holder = None => work = store)'
    BY <1>1 DEF IInv, TypeOK, vars
  <2>2. \A r \in Requests : RequestOK(r)'
    BY <1>1 DEF IInv, vars, RequestOK, Answered, Conflicting, Replaying, Created, Claimed,
       Unbound, LedgerWith, comicId, key, input, hash
  <2> QED
    BY <1>1, <2>1, <2>2, StoreKept DEF IInv, vars
<1>2. CASE Next
  <2>1. CASE Crash \/ Close
    BY <2>1, CrashStep, CloseStep
  <2>2. ASSUME NEW r \in Requests,
               \/ \E k \in Keys \cup {NoKey}, i \in Inputs : Start(r, k, i)
               \/ Invalid(r) \/ Begin(r) \/ Statement(r) \/ Reply(r) \/ ReplyLost(r)
        PROVE  IInv'
    <3>1. CASE Statement(r)
      BY <3>1, LookupStep, ClaimStep, CreateComicStep, CreateMetadataStep,
         AddPrimaryTitleStep, MarkCompletedStep, CommitStep, RollbackStep,
         StatementFailsStep DEF Statement
    <3> QED
      BY <2>2, <3>1, StartStep, InvalidStep, BeginStep, ReplyStep
  <2> QED
    BY <1>2, <2>1, <2>2 DEF Next
<1> QED
  BY <1>1, <1>2

\* The inductive invariant holds in every reachable state: at every statement the open
\* transaction differs from the committed tables by exactly what its request has done.
THEOREM Invariance == Spec => []IInv
PROOF
<1>1. IInv /\ [Next]_vars => IInv'
  BY NextStep
<1> QED
  BY InitInvariant, <1>1, PTL DEF Spec

\* Every variable of the use case and of the store keeps its type.
THEOREM TypeCorrect == Spec => []TypeOK
PROOF
<1>1. IInv => TypeOK
  BY DEF IInv
<1> QED
  BY <1>1, Invariance, PTL

\* However often an idempotency key is used, every success reported for it is the same.
THEOREM OneAnswer == Spec => []OneAnswerPerKey
PROOF
<1>1. IInv => OneAnswerPerKey
  BY DEF IInv, ToldOK, OneAnswerPerKey
<1> QED
  BY <1>1, Invariance, PTL

\* What a caller was told is committed, complete and made from its input.
THEOREM Durability == Spec => []ToldIsCommitted
PROOF
<1>1. IInv => ToldIsCommitted
  <2> SUFFICES ASSUME IInv, NEW k \in Keys, NEW t \in told[k]
               PROVE  /\ t[2][1] \in store.comics /\ origin[t[2][1]] = k
                      /\ store.metadata[t[2][1]] = t[2][2]
                      /\ store.titles[t[2][1]] = t[2][2]
                      /\ Canonical[t[2][2]] = t[1]
    BY DEF ToldIsCommitted
  <2>1. store.ledger[k] # NoRow /\ t = <<store.ledger[k].hash, store.ledger[k].result>>
    BY DEF IInv, ToldOK
  <2>2. t[1] = store.ledger[k].hash /\ t[2] = store.ledger[k].result
    BY <2>1
  <2>3. t[2][1] \in Ids
    BY <2>1, <2>2 DEF IInv, LedgerOK, TypeOK, Store
  <2> QED
    BY <2>1, <2>2, <2>3 DEF IInv, LedgerOK, CommittedIsComplete
<1> QED
  BY <1>1, Invariance, PTL

\* No idempotency key makes two comics.
THEOREM OneComic == Spec => []OneComicPerKey
PROOF
<1>1. IInv => OneComicPerKey
  BY DEF IInv, OriginOK, OneComicPerKey
<1> QED
  BY <1>1, Invariance, PTL

\* A reported conflict is one: the key is bound to another canonical input.
THEOREM ConflictsAreReal == Spec => []ConflictIsReal
PROOF
<1>1. IInv => ConflictIsReal
  BY DEF IInv, RequestOK, Conflicting, ConflictIsReal
<1> QED
  BY <1>1, Invariance, PTL

\* No crash or failure strands a claim.
THEOREM NoClaimIsStranded == Spec => []NoStrandedClaim
PROOF
<1>1. IInv => NoStrandedClaim
  BY DEF IInv, LedgerOK, NoStrandedClaim
<1> QED
  BY <1>1, Invariance, PTL

\* A committed comic always has its metadata and its primary title.
THEOREM Completeness == Spec => []CommittedIsComplete
PROOF
<1>1. IInv => CommittedIsComplete
  BY DEF IInv
<1> QED
  BY <1>1, Invariance, PTL

\* The committed tables are whole, whatever failed or died: keys, comics, titles and
\* everything a caller was told.
THEOREM Wholeness == Spec => []CommittedIsWhole
PROOF
BY NoClaimIsStranded, Completeness, Durability, PTL DEF CommittedIsWhole

-----------------------------------------------------------------------------
(* The use case implements IdempotentCreation. *)

boundBar == [k \in Keys |-> IF store.ledger[k] = NoRow THEN None
                            ELSE <<store.ledger[k].hash, store.ledger[k].result>>]

\* Committing a creation binds the key, or makes a comic without one.
LEMMA CommitImplements ==
  ASSUME IInv, NEW r \in Requests, Commit(r)
  PROVE  [Promise!Next]_(Promise!vars)
PROOF
<1>1. /\ RequestOK(r) /\ pc[r] = "commit" /\ store' = work /\ told' = told /\ TypeOK
  BY DEF Commit, IInv
<1>2. CASE Replaying(r)
  BY <1>1, <1>2 DEF Replaying, Promise!vars
<1>3. CASE Created(r)
  <2> DEFINE row == CompletedRow(hash(r), <<comicId(r), input(r)>>)
  <2>1. /\ input(r) \in Inputs /\ comicId(r) \in Ids \ store.comics /\ Unbound(r)
        /\ store'.comics = store.comics \cup {comicId(r)}
        /\ store'.ledger = IF key(r) = NoKey THEN store.ledger
                           ELSE [store.ledger EXCEPT ![key(r)] = row]
    BY <1>3, CreatedLedger
  <2>2. key(r) \in Keys \cup {NoKey} /\ store.ledger \in [Keys -> LedgerRows \cup {NoRow}]
    BY <1>1 DEF TypeOK, Store, key
  <2>3. CASE key(r) = NoKey
    <3>1. boundBar' = boundBar
      BY <2>1, <2>3 DEF boundBar
    <3>2. Promise!Make(comicId(r))
      BY <1>1, <2>1, <3>1 DEF Promise!Make, boundBar
    <3> QED
      BY <2>1, <3>2 DEF Promise!Next
  <2>4. CASE key(r) # NoKey
    <3>1. key(r) \in Keys /\ store.ledger[key(r)] = NoRow
      BY <2>1, <2>2, <2>4 DEF Unbound
    <3>2. row # NoRow /\ row.hash = Canonical[input(r)] /\ row.result = <<comicId(r), input(r)>>
      BY DEF CompletedRow, NoRow, hash
    <3>3. boundBar[key(r)] = None
      BY <3>1 DEF boundBar
    <3>4. boundBar' = [boundBar EXCEPT ![key(r)] = <<Canonical[input(r)], <<comicId(r), input(r)>>>>]
      BY <2>1, <2>2, <3>1, <3>2 DEF boundBar
    <3>5. PICK k \in Keys, i \in Inputs, c \in Ids :
            k = key(r) /\ i = input(r) /\ c = comicId(r)
      BY <2>1, <3>1
    <3>6. Promise!Bind(k, i, c)
      BY <1>1, <2>1, <3>3, <3>4, <3>5 DEF Promise!Bind, boundBar
    <3> QED
      BY <3>6 DEF Promise!Next
  <2> QED
    BY <2>3, <2>4
<1> QED
  BY <1>1, <1>2, <1>3 DEF RequestOK

\* A delivered success tells what the key is bound to.
LEMMA ReplyImplements ==
  ASSUME IInv, NEW r \in Requests, Reply(r)
  PROVE  [Promise!Next]_(Promise!vars)
PROOF
<1>1. RequestOK(r) /\ pc[r] = "reply" /\ store' = store /\ TypeOK
  BY DEF Reply, Over, IInv
<1>2. CASE outcome[r] = "ok" /\ key(r) # NoKey
  <2>1. Answered(r) /\ told' = [told EXCEPT ![key(r)] = @ \cup {<<hash(r), answer[r]>>}]
    BY <1>1, <1>2 DEF RequestOK, Reply
  <2>2. store.ledger[key(r)] # NoRow /\ key(r) \in Keys
        /\ <<store.ledger[key(r)].hash, store.ledger[key(r)].result>> = <<hash(r), answer[r]>>
    BY <2>1 DEF Answered, CompletedRow, NoRow
  <2>3. boundBar[key(r)] = <<hash(r), answer[r]>>
    BY <2>2 DEF boundBar
  <2>4. hash(r) \in Inputs /\ answer[r] \in Answers
    BY <1>1, <2>1 DEF TypeOK, Store, LedgerRows, NoRow, Answered, CompletedRow
  <2>5. <<hash(r), answer[r]>> # None
    BY <2>4 DEF Answers
  <2>6. Promise!Tell(key(r))
    BY <1>1, <2>1, <2>3, <2>5 DEF Promise!Tell, boundBar
  <2> QED
    BY <2>2, <2>6 DEF Promise!Next
<1>3. CASE ~(outcome[r] = "ok" /\ key(r) # NoKey)
  BY <1>1, <1>3 DEF Reply, Over, Promise!vars
<1> QED
  BY <1>2, <1>3

LEMMA StepImplements ==
  ASSUME IInv, [Next]_vars
  PROVE  [Promise!Next]_(Promise!vars)
PROOF
<1>1. CASE UNCHANGED <<store, told>>
  BY <1>1 DEF Promise!vars
<1>2. ASSUME NEW r \in Requests, Commit(r)
      PROVE  [Promise!Next]_(Promise!vars)
  BY <1>2, CommitImplements
<1>3. ASSUME NEW r \in Requests, Reply(r)
      PROVE  [Promise!Next]_(Promise!vars)
  BY <1>3, ReplyImplements
<1>4. UNCHANGED <<store, told>> \/ \E r \in Requests : Commit(r) \/ Reply(r)
  BY DEF Next, vars, Start, Invalid, Begin, Statement, Lookup, LookupFresh, LookupRefused,
     LookupReplay, Claim, CreateComic, CreateMetadata, AddPrimaryTitle, MarkCompleted,
     Rollback, StatementFails, ReplyLost, Close, Crash, Over
<1> QED
  BY <1>1, <1>2, <1>3, <1>4

\* With transactions, failing statements, lost replies and crashes, the use case does
\* what IdempotentCreation promises: a key is bound once and everybody is told the same.
THEOREM Refinement == Spec => KeepsPromise
PROOF
<1>1. Init => Promise!Init
  BY DEF Init, EmptyStore, Promise!Init
<1>2. IInv /\ [Next]_vars => [Promise!Next]_(Promise!vars)
  BY StepImplements
<1> QED
  BY <1>1, <1>2, Invariance, PTL DEF Spec, KeepsPromise, Promise!Spec
=============================================================================
