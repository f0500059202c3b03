--------------------------- MODULE PageOrdersProofs ---------------------------
(***************************************************************************)
(* Proofs about PageOrders, for any number of writers, readers, pages and  *)
(* requested lists: the inductive invariant and the module's invariants.   *)
(***************************************************************************)
EXTENDS PageOrders, SequenceTheorems, TLAPS

USE OrdersAssumption

-----------------------------------------------------------------------------
(* The inductive invariant. *)

\* At most one order is active: what the unique index of page_orders enforces.
OneActive == \A a, b \in Active : a = b

\* Order id holds the first items of list, and its page_count is the list's length.
Begun(id, list) ==
  /\ orders[id] # None
  /\ orders[id].count = Len(list)
  /\ Len(Listed(id)) <= Len(list)
  /\ \A i \in 1 .. Len(Listed(id)) : Listed(id)[i] = list[i]

\* A writer inserting items works on an order of its own.
WriterOK(w) ==
  /\ Running(w) => wants[w].list \in Lists
  /\ pc[w] = "items" => own[w] \in OrderIds /\ Begun(own[w], wants[w].list)

OwnOrders ==
  \A v, w \in Writers : pc[v] = "items" /\ pc[w] = "items" /\ own[v] = own[w] => v = w

\* The order row a call has read is still there, with the same page_count.
ReadOK(c) ==
  pc[c] = "listing" =>
    /\ seen[c] \in [id : OrderIds, count : Nat]
    /\ orders[seen[c].id] # None
    /\ orders[seen[c].id].count = seen[c].count

\* The order of w is the active one, and complete.
IsSet(w) ==
  /\ own[w] \in OrderIds
  /\ Active = {own[w]}
  /\ Listed(own[w]) = wants[w].list

\* A writer without another beside it knows which order is active.
AloneOK(w) ==
  alone[w] =>
    /\ \A u \in Writers \ {w} : ~Running(u)
    /\ pc[w] = "insert" => Active = {}
    /\ pc[w] = "items" => Active = {own[w]}
    /\ pc[w] \in {"order", "listing"} => IsSet(w)
    /\ pc[w] = "listing" => seen[w].id = own[w]
    /\ pc[w] = "done" /\ result[w].code = "ok" =>
         IsSet(w) /\ result[w].list = wants[w].list

IInv ==
  /\ TypeOK
  /\ \A r \in Readers : pc[r] \in {"idle", "order", "listing", "done"}
  /\ OneActive
  /\ NoMixing
  /\ OpenedIsWhole
  /\ \A w \in Writers : WriterOK(w)
  /\ OwnOrders
  /\ \A c \in Calls : ReadOK(c)
  /\ \A w \in Writers : AloneOK(w)

-----------------------------------------------------------------------------
(* Types, frames and steps that leave the orders alone. *)

LEMMA SameSequence ==
  ASSUME NEW s \in Seq(PageIds), NEW t \in Seq(PageIds), Len(s) = Len(t),
         \A i \in 1 .. Len(s) : s[i] = t[i]
  PROVE  s = t
PROOF
  BY SeqEqual

LEMMA RowTypes ==
  ASSUME TypeOK, NEW id \in OrderIds, orders[id] # None
  PROVE  /\ orders[id] \in Row
         /\ orders[id].active \in BOOLEAN
         /\ orders[id].count \in Nat
         /\ Listed(id) \in Seq(PageIds)
         /\ Len(Listed(id)) \in Nat
PROOF
<1>1. orders[id] \in Row
  BY DEF TypeOK
<1>2. Listed(id) \in Seq(PageIds)
  BY <1>1 DEF Row, Listed
<1> QED
  BY <1>1, <1>2, LenProperties DEF Row

LEMMA ListTypes ==
  ASSUME NEW list \in Lists
  PROVE  list \in Seq(PageIds) /\ Len(list) \in Nat /\ \A i \in 1 .. Len(list) : list[i] \in PageIds
PROOF
<1>1. list \in Seq(PageIds)
  OBVIOUS
<1> QED
  BY <1>1, LenProperties, ElementOfSeq

\* A step of one call that writes no order keeps the invariant, if what the call knows
\* afterwards is right: a writer only enters "items" with an insert, nobody starts.
LEMMA LocalStep ==
  ASSUME IInv, TypeOK', orders' = orders, NEW c \in Calls,
         \A d \in Calls \ {c} :
            /\ pc'[d] = pc[d]
            /\ seen'[d] = seen[d]
            /\ result'[d] = result[d],
         \A w \in Writers \ {c} :
            /\ wants'[w] = wants[w]
            /\ own'[w] = own[w]
            /\ alone'[w] = alone[w],
         Running(c)' => Running(c),
         pc'[c] # "items" \/ (pc[c] = "items" /\ own'[c] = own[c]),
         c \in Readers => pc'[c] \in {"idle", "order", "listing", "done"},
         c \in Readers /\ pc'[c] = "done" /\ result'[c].code = "ok" =>
            /\ result'[c].list \in Lists
            /\ Len(result'[c].list) = Len(SourceOrder)
            /\ {result'[c].list[i] : i \in DOMAIN result'[c].list} = Pages,
         ReadOK(c)',
         c \in Writers => WriterOK(c)' /\ AloneOK(c)'
  PROVE  IInv'
PROOF
<1>1. Active' = Active /\ \A id : Listed(id)' = Listed(id)
  BY DEF Active, Listed
<1>2. OneActive' /\ NoMixing'
  BY <1>1 DEF IInv, OneActive, NoMixing
<1>3. \A r \in Readers : pc'[r] \in {"idle", "order", "listing", "done"}
  BY DEF IInv, Calls
<1>4. OpenedIsWhole'
  BY DEF IInv, OpenedIsWhole, Calls
<1>5. \A w \in Writers : WriterOK(w)'
  <2> SUFFICES ASSUME NEW w \in Writers \ {c} PROVE WriterOK(w)'
    OBVIOUS
  <2> QED
    BY <1>1 DEF IInv, WriterOK, Running, Begun, Calls
<1>6. OwnOrders'
  BY DEF IInv, OwnOrders, Calls
<1>7. \A d \in Calls : ReadOK(d)'
  BY DEF IInv, ReadOK
<1>8. \A w \in Writers : AloneOK(w)'
  <2> SUFFICES ASSUME NEW w \in Writers \ {c}, alone[w] PROVE AloneOK(w)'
    BY DEF AloneOK
  <2>1. \A u \in Writers \ {w} : ~Running(u)'
    BY DEF IInv, AloneOK, Running, Calls
  <2>2. IsSet(w)' <=> IsSet(w)
    BY <1>1 DEF IsSet
  <2> QED
    BY <1>1, <2>1, <2>2 DEF IInv, AloneOK, Calls
<1> QED
  BY <1>2, <1>3, <1>4, <1>5, <1>6, <1>7, <1>8 DEF IInv

LEMMA InitInvariant == Init => IInv
PROOF
<1> SUFFICES ASSUME Init PROVE IInv
  OBVIOUS
<1>1. <<>> \in Seq(PageIds)
  OBVIOUS
<1>2. TypeOK
  BY <1>1 DEF Init, TypeOK, NoCall, Failed
<1>3. Active = {}
  BY DEF Init, Active
<1>4. OneActive /\ NoMixing /\ OpenedIsWhole /\ OwnOrders
  BY <1>3 DEF Init, OneActive, NoMixing, OpenedIsWhole, OwnOrders, Calls
<1>5. \A w \in Writers : WriterOK(w) /\ AloneOK(w)
  BY DEF Init, WriterOK, AloneOK, Running, Calls
<1>6. \A c \in Calls : ReadOK(c)
  BY DEF Init, ReadOK
<1> QED
  BY <1>2, <1>4, <1>5, <1>6 DEF Init, IInv, Calls

-----------------------------------------------------------------------------
(* The steps that leave the orders alone. *)

LEMMA StartWriteKeeps ==
  ASSUME IInv, NEW w \in Writers, NEW list \in Lists, NEW reset \in BOOLEAN,
         StartWrite(w, list, reset)
  PROVE  IInv'
PROOF
<1> USE DEF StartWrite, Goto
<1>1. TypeOK'
  BY DEF IInv, TypeOK, Calls
<1>2. Active' = Active /\ \A id : Listed(id)' = Listed(id)
  BY DEF Active, Listed
<1>3. \A c \in Calls : pc'[c] = IF c = w THEN "select" ELSE pc[c]
  BY DEF IInv, TypeOK
<1>4. \A r \in Readers : pc'[r] = pc[r]
  BY <1>3 DEF Calls
<1>5. OneActive' /\ NoMixing' /\ OpenedIsWhole'
  BY <1>2, <1>4 DEF IInv, OneActive, NoMixing, OpenedIsWhole
<1>6. \A v \in Writers : WriterOK(v)'
  BY <1>2, <1>3 DEF IInv, TypeOK, WriterOK, Running, Begun, Calls
<1>7. OwnOrders' /\ \A c \in Calls : ReadOK(c)'
  BY <1>3 DEF IInv, OwnOrders, ReadOK, Calls
<1>8. \A v \in Writers : AloneOK(v)'
  <2> SUFFICES ASSUME NEW v \in Writers, alone'[v] PROVE AloneOK(v)'
    BY DEF AloneOK
  <2>1. v = w /\ \A u \in Writers : ~Running(u)
    OBVIOUS
  <2> QED
    BY <1>3, <2>1 DEF AloneOK, Running, Calls
<1> QED
  BY <1>1, <1>4, <1>5, <1>6, <1>7, <1>8 DEF IInv

LEMMA SelectActiveKeeps ==
  ASSUME IInv, NEW w \in Writers, SelectActive(w)
  PROVE  IInv'
PROOF
<1> USE DEF SelectActive, Goto
<1>1. TypeOK' /\ w \in Calls /\ w \notin Readers
  BY DEF IInv, TypeOK, Calls
<1>2. pc'[w] \in {"insert", "deactivate"} /\ Running(w)
  BY DEF IInv, TypeOK, Calls, Running
<1>3. Active' = Active
  BY DEF Active
<1>4. WriterOK(w)' /\ ReadOK(w)'
  BY <1>2 DEF IInv, WriterOK, ReadOK
<1>5. AloneOK(w)'
  <2>1. pc'[w] = "insert" => Active' = {}
    BY <1>1, <1>3 DEF IInv, TypeOK
  <2>2. \A u \in Writers \ {w} : pc'[u] = pc[u]
    BY DEF IInv, TypeOK, Calls
  <2> QED
    BY <1>2, <2>1, <2>2 DEF IInv, AloneOK, Running
<1>6. \A d \in Calls \ {w} : pc'[d] = pc[d]
  BY DEF IInv, TypeOK
<1> QED
  BY <1>1, <1>2, <1>4, <1>5, <1>6, LocalStep

LEMMA ItemsInsertedKeeps ==
  ASSUME IInv, NEW w \in Writers, ItemsInserted(w)
  PROVE  IInv'
PROOF
<1> USE DEF ItemsInserted, Goto
<1>1. TypeOK' /\ w \in Calls /\ w \notin Readers
  BY DEF IInv, TypeOK, Calls
<1>2. pc'[w] = "order" /\ Running(w) /\ \A d \in Calls \ {w} : pc'[d] = pc[d]
  BY <1>1 DEF IInv, TypeOK, Running
<1>3. Active' = Active /\ Listed(own[w])' = Listed(own[w])
  BY DEF Active, Listed
<1>4. WriterOK(w)' /\ ReadOK(w)'
  BY <1>2 DEF IInv, WriterOK, ReadOK
<1>5. Listed(own[w]) = wants[w].list
  <2>1. own[w] \in OrderIds /\ Begun(own[w], wants[w].list) /\ wants[w].list \in Lists
    BY <1>2 DEF IInv, WriterOK
  <2>2. Listed(own[w]) \in Seq(PageIds)
    BY <2>1, RowTypes DEF Begun, IInv
  <2> QED
    BY <2>1, <2>2, ListTypes, SameSequence DEF Begun, AllInserted
<1>6. AloneOK(w)'
  <2> SUFFICES ASSUME alone[w] PROVE AloneOK(w)'
    BY DEF AloneOK
  <2>1. own[w] \in OrderIds /\ Active = {own[w]}
    BY DEF IInv, AloneOK, WriterOK
  <2>2. IsSet(w)'
    BY <1>3, <1>5, <2>1 DEF IsSet
  <2>3. \A u \in Writers \ {w} : ~Running(u)'
    BY <1>2 DEF IInv, AloneOK, Running, Calls
  <2> QED
    BY <1>2, <2>2, <2>3 DEF AloneOK
<1> QED
  BY <1>1, <1>2, <1>4, <1>6, LocalStep

\* A call that fails has nothing to answer for.
LEMMA FailKeeps ==
  ASSUME IInv, NEW c \in Calls, Running(c),
         NEW code \in {"INTERNAL_ERROR", "VALIDATION_ERROR"}, Return(c, Failed(code)),
         UNCHANGED <<orders, wants, own, seen, alone>>, broken' \in BOOLEAN
  PROVE  IInv'
PROOF
<1> USE DEF Return, Goto, Failed
<1>1. TypeOK'
  <2>1. <<>> \in Seq(PageIds)
    OBVIOUS
  <2> QED
    BY <2>1 DEF IInv, TypeOK
<1>2. pc'[c] = "done" /\ result'[c].code = code
  BY DEF IInv, TypeOK
<1>3. \A d \in Calls \ {c} : pc'[d] = pc[d] /\ result'[d] = result[d]
  BY DEF IInv, TypeOK
<1>4. ReadOK(c)' /\ (c \in Writers => WriterOK(c)')
  BY <1>2 DEF ReadOK, WriterOK, Running
<1>5. c \in Writers => AloneOK(c)'
  BY <1>2, <1>3 DEF IInv, AloneOK, Running, Calls
<1> QED
  BY <1>1, <1>2, <1>3, <1>4, <1>5, LocalStep

LEMMA StartReadKeeps ==
  ASSUME IInv, NEW r \in Readers, StartRead(r)
  PROVE  IInv'
PROOF
<1> USE DEF StartRead, Goto
<1>1. TypeOK' /\ r \in Calls /\ r \notin Writers
  BY DEF IInv, TypeOK, Calls
<1>2. pc'[r] = "order" /\ \A d \in Calls \ {r} : pc'[d] = pc[d]
  BY <1>1 DEF IInv, TypeOK
<1>3. OneActive' /\ NoMixing'
  BY DEF IInv, OneActive, NoMixing, Active, Listed
<1>4. OpenedIsWhole' /\ OwnOrders' /\ \A q \in Readers : pc'[q] \in {"idle", "order", "listing", "done"}
  BY <1>1, <1>2 DEF IInv, OpenedIsWhole, OwnOrders, Calls
<1>5. \A w \in Writers : pc'[w] = pc[w]
  BY <1>1, <1>2 DEF Calls
<1>6. \A w \in Writers : WriterOK(w)' /\ AloneOK(w)'
  BY <1>5 DEF IInv, WriterOK, AloneOK, IsSet, Begun, Active, Listed, Running
<1>7. \A c \in Calls : ReadOK(c)'
  BY <1>2 DEF IInv, ReadOK
<1> QED
  BY <1>1, <1>3, <1>4, <1>6, <1>7 DEF IInv

LEMMA ReadNoOrderKeeps ==
  ASSUME IInv, NEW c \in Calls, ReadNoOrder(c)
  PROVE  IInv'
PROOF
<1>1. Running(c)
  BY DEF ReadNoOrder, Running
<1>2. CASE c \notin Readers
  BY <1>1, <1>2, FailKeeps DEF ReadNoOrder, IInv, TypeOK
<1>3. CASE c \in Readers
  <2> USE DEF ReadNoOrder, Return, Goto, Ok
  <2>1. SourceOrder \in Lists /\ c \notin Writers
    BY <1>3 DEF Lists
  <2>2. TypeOK'
    BY <1>3, <2>1 DEF IInv, TypeOK
  <2>3. pc'[c] = "done" /\ result'[c] = [code |-> "ok", list |-> SourceOrder]
    BY <1>3 DEF IInv, TypeOK
  <2>4. \A d \in Calls \ {c} : pc'[d] = pc[d] /\ result'[d] = result[d]
    BY DEF IInv, TypeOK
  <2>5. ReadOK(c)'
    BY <2>3 DEF ReadOK
  <2>6. {result'[c].list[i] : i \in DOMAIN result'[c].list} = Pages
    BY <2>3 DEF Pages
  <2> QED
    BY <1>1, <2>1, <2>2, <2>3, <2>4, <2>5, <2>6, LocalStep
<1> QED
  BY <1>2, <1>3

LEMMA ReadOrderKeeps ==
  ASSUME IInv, NEW c \in Calls, ReadOrder(c)
  PROVE  IInv'
PROOF
<1> USE DEF ReadOrder, Goto
<1>1. PICK id \in Active : seen' = [seen EXCEPT ![c] = [id |-> id, count |-> orders[id].count]]
  OBVIOUS
<1>2. id \in OrderIds /\ orders[id] # None
  BY DEF Active
<1>3. orders[id].count \in Nat
  BY <1>2, RowTypes DEF IInv
<1>4. TypeOK'
  BY <1>1, <1>2, <1>3 DEF IInv, TypeOK
<1>5. pc'[c] = "listing" /\ seen'[c] = [id |-> id, count |-> orders[id].count] /\ Running(c)
  BY <1>1 DEF IInv, TypeOK, Running
<1>6. \A d \in Calls \ {c} : pc'[d] = pc[d] /\ seen'[d] = seen[d]
  BY <1>1 DEF IInv, TypeOK
<1>7. ReadOK(c)'
  BY <1>2, <1>3, <1>5 DEF ReadOK
<1>8. c \in Writers => WriterOK(c)' /\ AloneOK(c)'
  <2> SUFFICES ASSUME c \in Writers PROVE WriterOK(c)' /\ AloneOK(c)'
    OBVIOUS
  <2>1. WriterOK(c)'
    BY <1>5 DEF IInv, WriterOK, Running
  <2>2. Active' = Active /\ Listed(own[c])' = Listed(own[c])
    BY DEF Active, Listed
  <2>3. alone[c] => IsSet(c)' /\ IsSet(c)
    BY <2>2 DEF IInv, AloneOK, IsSet
  <2>4. alone[c] => seen'[c].id = own'[c]
    BY <1>5, <2>3 DEF IsSet
  <2>5. alone[c] => \A u \in Writers \ {c} : ~Running(u)'
    BY <1>6 DEF IInv, AloneOK, Running, Calls
  <2> QED
    BY <1>5, <2>1, <2>3, <2>4, <2>5 DEF AloneOK
<1> QED
  BY <1>4, <1>5, <1>6, <1>7, <1>8, LocalStep

LEMMA ReadItemsKeeps ==
  ASSUME IInv, NEW c \in Calls, ReadItems(c)
  PROVE  IInv'
PROOF
<1> DEFINE list == Listed(seen[c].id)
<1>1. /\ seen[c].id \in OrderIds
      /\ orders[seen[c].id] # None
      /\ orders[seen[c].id].count = seen[c].count
  BY DEF IInv, ReadOK, ReadItems
<1>2. list \in Seq(PageIds) /\ Len(list) \in Nat
  BY <1>1, RowTypes DEF IInv
<1>3. Running(c)
  BY DEF ReadItems, Running
<1>4. CASE ~(c \in Writers \/ Covers(list, seen[c].count))
  <2>1. Return(c, Failed("VALIDATION_ERROR"))
    BY <1>4 DEF ReadItems
  <2> QED
    BY <1>3, <2>1, FailKeeps DEF ReadItems, IInv, TypeOK
<1>5. CASE c \in Writers \/ Covers(list, seen[c].count)
  <2> USE DEF ReadItems, Return, Goto, Ok
  <2>1. result' = [result EXCEPT ![c] = [code |-> "ok", list |-> list]]
    BY <1>5
  <2>2. TypeOK'
    BY <1>2, <2>1 DEF IInv, TypeOK
  <2>3. pc'[c] = "done" /\ result'[c].code = "ok" /\ result'[c].list = list
    BY <2>1 DEF IInv, TypeOK
  <2>4. \A d \in Calls \ {c} : pc'[d] = pc[d] /\ result'[d] = result[d]
    BY <2>1 DEF IInv, TypeOK
  <2>5. ReadOK(c)' /\ (c \in Writers => WriterOK(c)')
    BY <2>3 DEF ReadOK, WriterOK, Running
  <2>6. c \in Readers => list \in Lists /\ Covers(list, seen[c].count)
    <3> SUFFICES ASSUME c \in Readers PROVE list \in Lists /\ Covers(list, seen[c].count)
      OBVIOUS
    <3>1. Covers(list, seen[c].count)
      BY <1>5
    <3>2. PICK l \in Lists : Begun(seen[c].id, l)
      BY <1>1 DEF IInv, NoMixing, Begun
    <3>3. Len(list) = Len(l)
      BY <1>1, <3>1, <3>2 DEF Covers, Begun
    <3>4. list = l
      BY <1>2, <3>2, <3>3, ListTypes, SameSequence DEF Begun
    <3> QED
      BY <3>1, <3>2, <3>4
  <2>7. c \in Writers => AloneOK(c)'
    <3> SUFFICES ASSUME c \in Writers, alone[c] PROVE AloneOK(c)'
      BY DEF AloneOK
    <3>1. IsSet(c) /\ seen[c].id = own[c] /\ Active' = Active
      BY DEF IInv, AloneOK, Active
    <3>2. IsSet(c)' /\ list = wants[c].list
      BY <3>1 DEF IsSet, Listed
    <3>3. \A u \in Writers \ {c} : ~Running(u)'
      BY <2>4 DEF IInv, AloneOK, Running, Calls
    <3> QED
      BY <2>3, <3>2, <3>3 DEF AloneOK
  <2> HIDE DEF list
  <2> QED
    BY <1>3, <2>2, <2>3, <2>4, <2>5, <2>6, <2>7, LocalStep DEF Covers
<1> QED
  BY <1>4, <1>5

LEMMA OverKeeps ==
  ASSUME IInv, NEW C \in SUBSET Calls, Over(C)
  PROVE  IInv'
PROOF
<1> USE DEF Over
<1>1. <<>> \in Seq(PageIds)
  OBVIOUS
<1>2. TypeOK'
  BY <1>1 DEF IInv, TypeOK, NoCall, Failed
<1>3. Active' = Active /\ \A id : Listed(id)' = Listed(id)
  BY DEF Active, Listed
<1>4. OneActive' /\ NoMixing'
  BY <1>3 DEF IInv, OneActive, NoMixing
<1>5. OpenedIsWhole' /\ OwnOrders' /\ \A r \in Readers : pc'[r] \in {"idle", "order", "listing", "done"}
  BY DEF IInv, OpenedIsWhole, OwnOrders, Calls
<1>6. \A c \in Calls : ReadOK(c)'
  BY DEF IInv, ReadOK
<1>7. ASSUME NEW w \in Writers PROVE WriterOK(w)'
  BY <1>3 DEF IInv, WriterOK, Running, Begun, Calls
<1>8. ASSUME NEW w \in Writers PROVE AloneOK(w)'
  <2> SUFFICES ASSUME alone'[w] PROVE AloneOK(w)'
    BY DEF AloneOK
  <2>1. w \notin C /\ alone[w]
    OBVIOUS
  <2>2. IsSet(w) <=> IsSet(w)'
    BY <1>3, <2>1 DEF IsSet
  <2>3. \A u \in Writers \ {w} : ~Running(u)'
    BY <2>1 DEF IInv, AloneOK, Running, Calls
  <2> QED
    BY <1>3, <2>1, <2>2, <2>3 DEF IInv, AloneOK, Calls
<1> QED
  BY <1>2, <1>4, <1>5, <1>6, <1>7, <1>8 DEF IInv

-----------------------------------------------------------------------------
(* The steps that write orders. *)

\* No other writer is alone beside a running one.
LEMMA OthersNotAlone ==
  ASSUME IInv, NEW w \in Writers, Running(w), alone' = alone
  PROVE  \A v \in Writers \ {w} : AloneOK(v)'
PROOF
<1> SUFFICES ASSUME NEW v \in Writers \ {w} PROVE AloneOK(v)'
  OBVIOUS
<1>1. ~alone[v]
  BY DEF IInv, AloneOK
<1> QED
  BY <1>1 DEF AloneOK

\* Deactivating leaves no active order, and the rows and items as they were otherwise.
LEMMA DeactivateEffect ==
  ASSUME IInv, orders' = Deactivated
  PROVE  /\ Active' = {}
         /\ \A id \in OrderIds : orders[id] = None => orders'[id] = None
         /\ \A id \in OrderIds : orders[id] # None =>
              /\ orders'[id] \in Row
              /\ orders'[id] # None
              /\ orders'[id].active = FALSE
              /\ orders'[id].count = orders[id].count
              /\ Listed(id)' = Listed(id)
PROOF
<1>1. \A id \in OrderIds : orders[id] = None => orders'[id] = None
  BY DEF Deactivated, Active
<1>2. ASSUME NEW id \in OrderIds, orders[id] # None
      PROVE  /\ orders'[id] \in Row
             /\ orders'[id] # None
             /\ orders'[id].active = FALSE
             /\ orders'[id].count = orders[id].count
             /\ Listed(id)' = Listed(id)
  <2>1. orders[id] \in Row
    BY <1>2, RowTypes DEF IInv
  <2>2. orders'[id] = IF orders[id].active THEN [orders[id] EXCEPT !.active = FALSE] ELSE orders[id]
    BY <1>2 DEF Deactivated, Active
  <2>3. CASE orders[id].active
    <3>1. orders'[id] = [orders[id] EXCEPT !.active = FALSE]
      BY <2>2, <2>3
    <3> QED
      BY <2>1, <3>1 DEF Row, Listed
  <2>4. CASE ~orders[id].active
    <3>1. orders'[id] = orders[id] /\ orders[id].active = FALSE
      BY <2>1, <2>2, <2>4 DEF Row
    <3> QED
      BY <2>1, <3>1 DEF Row, Listed
  <2> QED
    BY <2>3, <2>4
<1>3. Active' = {}
  BY <1>1, <1>2 DEF Active
<1> QED
  BY <1>1, <1>2, <1>3

LEMMA DeactivateKeeps ==
  ASSUME IInv, NEW w \in Writers, Deactivate(w)
  PROVE  IInv'
PROOF
<1> USE DEF Deactivate, Goto
<1>1. w \in Calls /\ w \notin Readers /\ Running(w) /\ pc'[w] = "insert"
  BY DEF IInv, TypeOK, Calls, Running
<1>2. \A d \in Calls \ {w} : pc'[d] = pc[d]
  BY DEF IInv, TypeOK
<1>3. \A id \in OrderIds : orders[id] = None => orders'[id] = None
  BY DeactivateEffect
<1>4. ASSUME NEW id \in OrderIds, orders[id] # None
      PROVE  /\ orders'[id] \in Row
             /\ orders'[id] # None
             /\ orders'[id].active = FALSE
             /\ orders'[id].count = orders[id].count
             /\ Listed(id)' = Listed(id)
  BY <1>4, DeactivateEffect
<1>5. TypeOK'
  <2>1. orders' \in [OrderIds -> Row \cup {None}]
    BY <1>3, <1>4 DEF Deactivated
  <2> QED
    BY <2>1 DEF IInv, TypeOK
<1>6. Active' = {}
  BY DeactivateEffect
<1>6a. ASSUME NEW id \in OrderIds, NEW list, Begun(id, list) PROVE Begun(id, list)'
  <2>1. orders[id] # None
    BY <1>6a DEF Begun
  <2>2. orders'[id] # None /\ orders'[id].count = orders[id].count /\ Listed(id)' = Listed(id)
    BY <1>4, <2>1
  <2> QED
    BY <1>6a, <2>2 DEF Begun
<1>7. NoMixing'
  <2> SUFFICES ASSUME NEW id \in OrderIds, orders'[id] # None
               PROVE  \E list \in Lists : Begun(id, list)'
    BY DEF NoMixing, Begun
  <2>1. PICK list \in Lists : Begun(id, list)
    BY <1>3 DEF IInv, NoMixing, Begun
  <2> QED
    BY <1>6a, <2>1
<1>8. OneActive' /\ OpenedIsWhole' /\ OwnOrders' /\ \A r \in Readers : pc'[r] \in {"idle", "order", "listing", "done"}
  BY <1>1, <1>2, <1>6 DEF IInv, OneActive, OpenedIsWhole, OwnOrders, Calls
<1>9. \A c \in Calls : ReadOK(c)'
  BY <1>1, <1>2, <1>4 DEF IInv, ReadOK
<1>10. ASSUME NEW v \in Writers PROVE WriterOK(v)'
  <2>1. Running(v)' => Running(v)
    BY <1>1, <1>2 DEF Running, Calls
  <2>2. pc'[v] = "items" => pc[v] = "items"
    BY <1>1, <1>2 DEF Calls
  <2>3. pc[v] = "items" => Begun(own[v], wants[v].list)'
    BY <1>6a DEF IInv, WriterOK
  <2> QED
    BY <2>1, <2>2, <2>3 DEF IInv, WriterOK
<1>11. AloneOK(w)'
  BY <1>1, <1>2, <1>6 DEF IInv, AloneOK, Running, Calls
<1> QED
  BY <1>1, <1>5, <1>7, <1>8, <1>9, <1>10, <1>11, OthersNotAlone DEF IInv

LEMMA InsertOrderKeeps ==
  ASSUME IInv, NEW w \in Writers, InsertOrder(w)
  PROVE  IInv'
PROOF
<1> USE DEF InsertOrder, Goto
<1> DEFINE row == [active |-> TRUE, type |-> "user_override",
                   count |-> Len(wants[w].list), items |-> <<>>]
<1>1. w \in Calls /\ w \notin Readers /\ Running(w) /\ pc'[w] = "items"
  BY DEF IInv, TypeOK, Calls, Running
<1>2. \A d \in Calls \ {w} : pc'[d] = pc[d]
  BY DEF IInv, TypeOK
<1>3. PICK new \in OrderIds : /\ orders[new] = None
                              /\ orders' = [orders EXCEPT ![new] = row]
                              /\ own' = [own EXCEPT ![w] = new]
  OBVIOUS
<1>4. wants[w].list \in Lists /\ Len(wants[w].list) \in Nat
  BY <1>1, ListTypes DEF IInv, WriterOK
<1>5. row \in Row /\ row # None /\ row.items = <<>> /\ row.count = Len(wants[w].list)
  <2>1. <<>> \in Seq(PageIds)
    OBVIOUS
  <2>2. row \in Row
    BY <1>4, <2>1 DEF Row
  <2> QED
    BY <2>2
<1>6. orders'[new] = row /\ \A id \in OrderIds \ {new} : orders'[id] = orders[id]
  BY <1>3 DEF IInv, TypeOK
<1>7. TypeOK'
  BY <1>3, <1>5 DEF IInv, TypeOK
<1>8. Active' = {new}
  BY <1>6, <1>5 DEF Active
<1>9. Begun(new, wants[w].list)' /\ Listed(new)' = <<>>
  BY <1>4, <1>5, <1>6 DEF Begun, Listed
<1> HIDE DEF row
<1>10. NoMixing'
  <2> SUFFICES ASSUME NEW id \in OrderIds, orders'[id] # None
               PROVE  \E list \in Lists : Begun(id, list)'
    BY DEF NoMixing, Begun
  <2>1. CASE id = new
    BY <1>4, <1>9, <2>1 DEF Begun
  <2>2. CASE id # new
    <3>1. PICK list \in Lists : Begun(id, list)
      BY <1>6, <2>2 DEF IInv, NoMixing, Begun
    <3> QED
      BY <1>6, <2>2, <3>1 DEF Begun, Listed
  <2> QED
    BY <2>1, <2>2
<1>11. OneActive' /\ OpenedIsWhole' /\ \A r \in Readers : pc'[r] \in {"idle", "order", "listing", "done"}
  BY <1>1, <1>2, <1>8 DEF IInv, OneActive, OpenedIsWhole, Calls
<1>12. own'[w] = new /\ \A v \in Writers \ {w} : own'[v] = own[v]
  BY <1>3 DEF IInv, TypeOK
<1>13. ASSUME NEW v \in Writers \ {w}, pc'[v] = "items"
       PROVE  /\ pc[v] = "items"
              /\ own[v] \in OrderIds \ {new}
              /\ Begun(own[v], wants[v].list)
              /\ Begun(own[v], wants[v].list)'
  <2>1. pc[v] = "items"
    BY <1>2, <1>13 DEF Calls
  <2>2. own[v] \in OrderIds /\ Begun(own[v], wants[v].list)
    BY <2>1 DEF IInv, WriterOK
  <2>3. own[v] # new
    BY <1>3, <2>2 DEF Begun
  <2>4. orders'[own[v]] = orders[own[v]]
    BY <1>6, <2>2, <2>3
  <2> QED
    BY <2>1, <2>2, <2>3, <2>4 DEF Begun, Listed
<1>14. OwnOrders'
  <2> HIDE DEF InsertOrder, Goto
  <2> QED
    BY <1>12, <1>13 DEF IInv, OwnOrders
<1>15. \A v \in Writers : WriterOK(v)'
  <2>1. WriterOK(w)'
    BY <1>3, <1>4, <1>9, <1>12 DEF WriterOK, Begun
  <2>2. ASSUME NEW v \in Writers \ {w} PROVE WriterOK(v)'
    <3>1. Running(v)' => Running(v)
      BY <1>2 DEF Running, Calls
    <3> QED
      BY <1>12, <1>13, <3>1 DEF IInv, WriterOK, Begun
  <2> QED
    BY <2>1, <2>2
<1>16. \A c \in Calls : ReadOK(c)'
  BY <1>1, <1>2, <1>3, <1>6 DEF IInv, ReadOK
<1>17. AloneOK(w)'
  BY <1>1, <1>2, <1>8, <1>12 DEF IInv, AloneOK, Running, Calls
<1> QED
  BY <1>1, <1>7, <1>10, <1>11, <1>14, <1>15, <1>16, <1>17, OthersNotAlone DEF IInv

LEMMA InsertItemKeeps ==
  ASSUME IInv, NEW w \in Writers, InsertItem(w)
  PROVE  IInv'
PROOF
<1> DEFINE mine == own[w]
           list == wants[w].list
           page == NextPage(w)
<1>1. Running(w) /\ w \in Calls /\ w \notin Readers /\ pc' = pc
  BY DEF InsertItem, Running, Calls
<1>2. mine \in OrderIds /\ Begun(mine, list) /\ list \in Lists
  BY <1>1 DEF IInv, WriterOK, InsertItem
<1>3. /\ orders[mine] \in Row
      /\ Listed(mine) \in Seq(PageIds)
      /\ Len(Listed(mine)) \in Nat
  BY <1>2, RowTypes DEF IInv, Begun
<1>4. /\ Len(list) \in Nat
      /\ Len(Listed(mine)) + 1 \in 1 .. Len(list)
      /\ page = list[Len(Listed(mine)) + 1]
      /\ page \in PageIds
  BY <1>2, <1>3, ListTypes DEF Begun, InsertItem, AllInserted, NextPage
<1>5. orders' = [orders EXCEPT ![mine].items = Append(orders[mine].items, page)]
  BY DEF InsertItem
<1> HIDE DEF page
<1>6. \A id \in OrderIds \ {mine} : orders'[id] = orders[id] /\ Listed(id)' = Listed(id)
  BY <1>5 DEF IInv, TypeOK, Listed
<1>7. /\ orders'[mine] = [orders[mine] EXCEPT !.items = Append(orders[mine].items, page)]
      /\ Append(Listed(mine), page) \in Seq(PageIds)
  BY <1>2, <1>3, <1>4, <1>5, AppendProperties DEF IInv, TypeOK, Listed
<1>8. /\ orders'[mine] \in Row
      /\ orders'[mine] # None
      /\ orders'[mine].count = orders[mine].count
      /\ orders'[mine].active = orders[mine].active
      /\ Listed(mine)' = Append(Listed(mine), page)
  <2>1. ASSUME NEW r \in Row, NEW items \in Seq(PageIds)
        PROVE  /\ [r EXCEPT !.items = items] \in Row
               /\ [r EXCEPT !.items = items].items = items
               /\ [r EXCEPT !.items = items].count = r.count
               /\ [r EXCEPT !.items = items].active = r.active
    BY DEF Row
  <2>2. orders[mine].items = Listed(mine) /\ Listed(mine)' = orders'[mine].items
    BY DEF Listed, InsertItem
  <2>3. PICK new \in Seq(PageIds) : new = Append(Listed(mine), page)
    BY <1>7
  <2>4. orders'[mine] = [orders[mine] EXCEPT !.items = new]
    BY <1>7, <2>2, <2>3
  <2>5. orders'[mine] \in Row
    BY <1>3, <2>1, <2>4
  <2>6. orders'[mine] # None
    BY <2>5
  <2> HIDE DEF mine
  <2> QED
    BY <1>3, <2>1, <2>2, <2>3, <2>4, <2>5, <2>6
<1>9. TypeOK'
  <2>1. orders' \in [OrderIds -> Row \cup {None}]
    BY <1>5, <1>6, <1>8 DEF IInv, TypeOK
  <2> QED
    BY <2>1 DEF IInv, TypeOK, InsertItem
<1>10. Active' = Active
  BY <1>2, <1>6, <1>8 DEF Active, Begun
<1>11. Begun(mine, list)'
  <2>1. /\ Len(Listed(mine)') = Len(Listed(mine)) + 1
        /\ \A i \in 1 .. Len(Listed(mine)) : Listed(mine)'[i] = Listed(mine)[i]
        /\ Listed(mine)'[Len(Listed(mine)) + 1] = page
    BY <1>3, <1>4, <1>8, AppendProperties
  <2>2. \A i \in 1 .. Len(Listed(mine)') : Listed(mine)'[i] = list[i]
    <3> SUFFICES ASSUME NEW i \in 1 .. Len(Listed(mine)') PROVE Listed(mine)'[i] = list[i]
      OBVIOUS
    <3>1. i \in 1 .. Len(Listed(mine)) \/ i = Len(Listed(mine)) + 1
      BY <1>3, <2>1
    <3> QED
      BY <1>2, <1>4, <2>1, <3>1 DEF Begun
  <2> HIDE DEF mine, list
  <2>3. own'[w] = mine /\ wants'[w].list = list
    BY DEF InsertItem, mine, list
  <2> QED
    BY <1>2, <1>4, <1>8, <2>1, <2>2, <2>3 DEF Begun, mine, list
<1>12. \A id \in OrderIds, l \in Lists : id # mine /\ Begun(id, l) => Begun(id, l)'
  BY <1>6 DEF Begun
<1>13. NoMixing'
  <2> SUFFICES ASSUME NEW id \in OrderIds, orders'[id] # None
               PROVE  \E l \in Lists : Begun(id, l)'
    BY DEF NoMixing, Begun
  <2>1. CASE id = mine
    BY <1>2, <1>11, <2>1 DEF Begun, InsertItem
  <2>2. CASE id # mine
    <3>1. PICK l \in Lists : Begun(id, l)
      BY <1>6, <2>2 DEF IInv, NoMixing, Begun
    <3> QED
      BY <1>12, <2>2, <3>1
  <2> QED
    BY <2>1, <2>2
<1>14. OneActive' /\ OpenedIsWhole' /\ OwnOrders' /\ \A r \in Readers : pc'[r] \in {"idle", "order", "listing", "done"}
  BY <1>1, <1>10 DEF IInv, OneActive, OpenedIsWhole, OwnOrders, InsertItem
<1>15. \A c \in Calls : ReadOK(c)'
  BY <1>1, <1>2, <1>6, <1>8 DEF IInv, ReadOK, InsertItem
<1>16. ASSUME NEW v \in Writers PROVE WriterOK(v)'
  <2>1. own' = own /\ wants' = wants /\ pc[w] = "items"
    BY DEF InsertItem
  <2>2. CASE v = w
    BY <1>1, <1>2, <1>11, <2>1, <2>2 DEF WriterOK, Running, Begun
  <2>3. CASE v # w
    <3>1. pc[v] = "items" => own[v] # mine /\ own[v] \in OrderIds /\ Begun(own[v], wants[v].list) /\ wants[v].list \in Lists
      BY <2>1, <2>3 DEF IInv, OwnOrders, WriterOK, Running
    <3>2. pc[v] = "items" => Begun(own[v], wants[v].list)'
      BY <1>12, <3>1, <2>1 DEF Begun
    <3> QED
      BY <1>1, <2>1, <3>1, <3>2 DEF IInv, WriterOK, Running, Begun
  <2> QED
    BY <2>2, <2>3
<1>17. AloneOK(w)'
  BY <1>1, <1>10 DEF IInv, AloneOK, Running, InsertItem
<1>18. alone' = alone
  BY DEF InsertItem
<1> QED
  BY <1>1, <1>9, <1>13, <1>14, <1>15, <1>16, <1>17, <1>18, OthersNotAlone DEF IInv

-----------------------------------------------------------------------------
(* The race of the writers: who is ahead, on top of the inductive invariant. *)

\* The orders writers have inserted exist and are different.
Owned ==
  /\ \A w \in Writers : own[w] # None =>
       /\ orders[own[w]] # None
       /\ pc[w] \in {"items", "order", "listing", "done"}
  /\ \A v, w \in Writers : own[v] # None /\ own[v] = own[w] => v = w

\* Order id has all the pages of some list.
Whole(id) == Listed(id) \in Lists /\ orders[id].count = Len(Listed(id))

\* The owner of the active order will be given its own list.
AnswerOK(w) ==
  /\ pc[w] # "items" => Listed(own[w]) = wants[w].list /\ Whole(own[w])
  /\ pc[w] = "listing" => seen[w].id = own[w]
  /\ pc[w] = "done" => result[w] = Ok(wants[w].list)

\* Order id is the active one, and complete unless its writer is still at it.
Ahead(id) ==
  /\ Active = {id}
  /\ Whole(id) \/ \E w \in Writers : pc[w] = "items" /\ own[w] = id
  /\ \A w \in Writers : own[w] = id => AnswerOK(w)

\* Where no order is active, a writer is about to insert one.
RaceOK ==
  ~broken /\ (\E id \in OrderIds : orders[id] # None) =>
    \/ Active = {} /\ \E w \in Writers : pc[w] = "insert"
    \/ \E id \in OrderIds : Ahead(id)

RaceInv == Owned /\ RaceOK

LEMMA InitRace == Init => RaceInv
PROOF
  BY DEF Init, RaceInv, Owned, RaceOK

\* A writer whose order is active is ahead, unless a failure has hit.
LEMMA OwnerIsAhead ==
  ASSUME IInv, RaceInv, ~broken, NEW w \in Writers, own[w] \in Active
  PROVE  Active = {own[w]} /\ AnswerOK(w)
PROOF
<1>1. own[w] \in OrderIds /\ orders[own[w]] # None /\ Active # {}
  BY DEF Active
<1>2. PICK id \in OrderIds : Ahead(id)
  BY <1>1 DEF RaceInv, RaceOK
<1> QED
  BY <1>2 DEF Ahead

\* A step of one call that writes no order: the writer ahead stays ahead.
LEMMA LocalRace ==
  ASSUME IInv, RaceInv, UNCHANGED <<orders, own, wants>>, NEW c \in Calls,
         \A d \in Calls \ {c} :
            /\ pc'[d] = pc[d]
            /\ seen'[d] = seen[d]
            /\ result'[d] = result[d],
         broken => broken',
         c \in Writers /\ own[c] # None => pc'[c] \in {"items", "order", "listing", "done"},
         c \in Writers /\ ~broken' =>
            /\ pc[c] = "insert" => Active # {}
            /\ own[c] \in Active => AnswerOK(c)'
  PROVE  RaceInv'
PROOF
<1>1. /\ Active' = Active
      /\ \A id : Listed(id)' = Listed(id)
      /\ \A id : Whole(id)' <=> Whole(id)
  BY DEF Active, Listed, Whole
<1>2. Owned'
  BY DEF RaceInv, Owned, Calls
<1>3. RaceOK'
  <2> SUFFICES ASSUME ~broken', NEW some \in OrderIds, orders[some] # None
               PROVE  (Active = {} /\ \E w \in Writers : pc'[w] = "insert")
                      \/ \E id \in OrderIds : Ahead(id)'
    BY <1>1 DEF RaceOK
  <2>1. CASE Active = {} /\ \E w \in Writers : pc[w] = "insert"
    BY <2>1 DEF Calls
  <2>2. CASE \E id \in OrderIds : Ahead(id)
    <3>1. PICK id \in OrderIds : Ahead(id)
      BY <2>2
    <3>2. ASSUME NEW w \in Writers, own[w] = id PROVE AnswerOK(w)'
      <4>1. CASE w = c
        BY <3>1, <3>2, <4>1 DEF Ahead
      <4>2. CASE w # c
        BY <1>1, <3>1, <3>2, <4>2 DEF Ahead, AnswerOK, Calls
      <4> QED
        BY <4>1, <4>2
    <3>3. Whole(id) \/ \E w \in Writers : pc'[w] = "items" /\ own[w] = id
      <4>1. CASE Whole(id)
        BY <4>1
      <4>2. CASE \E w \in Writers : pc[w] = "items" /\ own[w] = id
        <5>1. PICK w \in Writers : pc[w] = "items" /\ own[w] = id
          BY <4>2
        <5>2. CASE w = c
          BY <1>1, <3>2, <5>1, <5>2 DEF AnswerOK
        <5>3. CASE w # c
          BY <5>1, <5>3 DEF Calls
        <5> QED
          BY <5>2, <5>3
      <4> QED
        BY <3>1, <4>1, <4>2 DEF Ahead
    <3> QED
      BY <1>1, <3>1, <3>2, <3>3 DEF Ahead
  <2> QED
    BY <2>1, <2>2 DEF RaceInv, RaceOK
<1> QED
  BY <1>2, <1>3 DEF RaceInv

LEMMA StartWriteRace ==
  ASSUME IInv, RaceInv, NEW w \in Writers, NEW list \in Lists, NEW reset \in BOOLEAN,
         StartWrite(w, list, reset)
  PROVE  RaceInv'
PROOF
<1> USE DEF StartWrite, Goto
<1>1. own[w] = None /\ w \in Calls
  BY DEF RaceInv, Owned, Calls
<1>2. \A d \in Calls \ {w} : pc'[d] = pc[d]
  BY DEF IInv, TypeOK
<1>3. \A v \in Writers \ {w} : wants'[v] = wants[v]
  BY DEF IInv, TypeOK
<1>4. /\ Active' = Active
      /\ \A id : Listed(id)' = Listed(id)
      /\ \A id : Whole(id)' <=> Whole(id)
  BY DEF Active, Listed, Whole
<1>5. Owned'
  BY <1>1, <1>2 DEF RaceInv, Owned, Calls
<1>6. \A id \in OrderIds : Ahead(id) => Ahead(id)'
  <2> SUFFICES ASSUME NEW id \in OrderIds, Ahead(id) PROVE Ahead(id)'
    OBVIOUS
  <2>1. id # None
    OBVIOUS
  <2>2. \A v \in Writers : own[v] = id => AnswerOK(v)'
    BY <1>1, <1>2, <1>3, <1>4, <2>1 DEF Ahead, AnswerOK, Calls
  <2>3. \A v \in Writers : pc[v] = "items" => pc'[v] = "items"
    BY <1>2 DEF Calls
  <2> QED
    BY <1>4, <2>2, <2>3 DEF Ahead
<1>7. \A v \in Writers : pc[v] = "insert" => pc'[v] = "insert"
  BY <1>2 DEF Calls
<1>8. RaceOK'
  BY <1>4, <1>6, <1>7 DEF RaceInv, RaceOK
<1> QED
  BY <1>5, <1>8 DEF RaceInv

LEMMA SelectActiveRace ==
  ASSUME IInv, RaceInv, NEW w \in Writers, SelectActive(w)
  PROVE  RaceInv'
PROOF
<1> USE DEF SelectActive, Goto
<1>1. own[w] = None /\ w \in Calls
  BY DEF RaceInv, Owned, Calls
<1>2. own[w] \notin Active
  BY <1>1 DEF Active
<1>3. \A d \in Calls \ {w} : pc'[d] = pc[d]
  BY DEF IInv, TypeOK
<1> QED
  BY <1>1, <1>2, <1>3, LocalRace

LEMMA ItemsInsertedRace ==
  ASSUME IInv, RaceInv, NEW w \in Writers, ItemsInserted(w)
  PROVE  RaceInv'
PROOF
<1> USE DEF ItemsInserted, Goto
<1>1. w \in Calls /\ \A d \in Calls \ {w} : pc'[d] = pc[d]
  BY DEF IInv, TypeOK, Calls
<1>2. pc'[w] = "order"
  BY <1>1 DEF IInv, TypeOK
<1>3. own[w] \in OrderIds /\ Begun(own[w], wants[w].list) /\ wants[w].list \in Lists
  BY DEF IInv, WriterOK, Running
<1>4. Listed(own[w]) = wants[w].list
  <2>1. Listed(own[w]) \in Seq(PageIds)
    BY <1>3, RowTypes DEF Begun, IInv
  <2> QED
    BY <1>3, <2>1, ListTypes, SameSequence DEF Begun, AllInserted
<1>5. AnswerOK(w)'
  BY <1>2, <1>3, <1>4 DEF AnswerOK, Whole, Begun, Listed
<1> QED
  BY <1>1, <1>2, <1>5, LocalRace

\* A call that fails is either not ahead, or breaks the race.
LEMMA FailRace ==
  ASSUME IInv, RaceInv, NEW c \in Calls, Running(c), NEW value, Return(c, value),
         UNCHANGED <<orders, wants, own, seen>>,
         broken' = (broken \/ (c \in Writers /\ Breaks(c)))
  PROVE  RaceInv'
PROOF
<1> USE DEF Return, Goto
<1>1. pc'[c] = "done" /\ \A d \in Calls \ {c} : pc'[d] = pc[d] /\ result'[d] = result[d]
  BY DEF IInv, TypeOK
<1>2. c \in Writers /\ ~broken' => (pc[c] = "insert" => Active # {}) /\ own[c] \notin Active
  BY DEF Breaks
<1>3. broken => broken'
  OBVIOUS
<1> QED
  BY <1>1, <1>2, <1>3, LocalRace

LEMMA StartReadRace ==
  ASSUME IInv, RaceInv, NEW r \in Readers, StartRead(r)
  PROVE  RaceInv'
PROOF
<1> USE DEF StartRead, Goto
<1>1. r \in Calls /\ r \notin Writers /\ \A d \in Calls \ {r} : pc'[d] = pc[d]
  BY DEF IInv, TypeOK, Calls
<1> QED
  BY <1>1, LocalRace

LEMMA ReadNoOrderRace ==
  ASSUME IInv, RaceInv, NEW c \in Calls, ReadNoOrder(c)
  PROVE  RaceInv'
PROOF
<1> USE DEF ReadNoOrder, Return, Goto
<1>1. pc'[c] = "done" /\ \A d \in Calls \ {c} : pc'[d] = pc[d] /\ result'[d] = result[d]
  BY DEF IInv, TypeOK
<1>2. pc[c] # "insert" /\ own[c] \notin Active
  OBVIOUS
<1> QED
  BY <1>1, <1>2, LocalRace

LEMMA ReadOrderRace ==
  ASSUME IInv, RaceInv, NEW c \in Calls, ReadOrder(c)
  PROVE  RaceInv'
PROOF
<1> USE DEF ReadOrder, Goto
<1>1. PICK id \in Active : seen' = [seen EXCEPT ![c] = [id |-> id, count |-> orders[id].count]]
  OBVIOUS
<1>2. /\ pc'[c] = "listing" /\ seen'[c].id = id
      /\ \A d \in Calls \ {c} : pc'[d] = pc[d] /\ seen'[d] = seen[d]
  BY <1>1 DEF IInv, TypeOK
<1>3. ASSUME c \in Writers, ~broken, own[c] \in Active PROVE AnswerOK(c)'
  <2>1. Active = {own[c]} /\ AnswerOK(c)
    BY <1>3, OwnerIsAhead
  <2>2. seen'[c].id = own[c]
    BY <1>2, <2>1
  <2> QED
    BY <1>2, <2>1, <2>2 DEF AnswerOK, Whole, Listed
<1> QED
  BY <1>2, <1>3, LocalRace

LEMMA ReadItemsRace ==
  ASSUME IInv, RaceInv, NEW c \in Calls, ReadItems(c)
  PROVE  RaceInv'
PROOF
<1> USE DEF ReadItems, Return, Goto
<1>1. pc'[c] = "done" /\ \A d \in Calls \ {c} : pc'[d] = pc[d] /\ result'[d] = result[d]
  BY DEF IInv, TypeOK
<1>2. ASSUME c \in Writers, ~broken, own[c] \in Active PROVE AnswerOK(c)'
  <2>1. AnswerOK(c) /\ pc[c] = "listing"
    BY <1>2, OwnerIsAhead
  <2>2. seen[c].id = own[c] /\ Listed(own[c]) = wants[c].list /\ Whole(own[c])
    BY <2>1 DEF AnswerOK
  <2>3. result'[c] = Ok(wants[c].list)
    BY <1>2, <2>2 DEF IInv, TypeOK
  <2> QED
    BY <1>1, <2>2, <2>3 DEF AnswerOK, Whole, Listed, Ok
<1> QED
  BY <1>1, <1>2, LocalRace

LEMMA OverRace ==
  ASSUME IInv, RaceInv, NEW C \in SUBSET Calls, Over(C)
  PROVE  RaceInv'
PROOF
<1> USE DEF Over
<1>1. \A w \in Writers : own'[w] # None => w \notin C /\ own'[w] = own[w]
  OBVIOUS
<1>2. \A w \in Writers : w \notin C => /\ pc'[w] = pc[w]
                                       /\ seen'[w] = seen[w]
                                       /\ result'[w] = result[w]
                                       /\ wants'[w] = wants[w]
                                       /\ own'[w] = own[w]
  BY DEF Calls
<1>3. /\ Active' = Active
      /\ \A id : Listed(id)' = Listed(id)
      /\ \A id : Whole(id)' <=> Whole(id)
  BY DEF Active, Listed, Whole
<1>4. Owned'
  BY <1>1, <1>2 DEF RaceInv, Owned
<1>5. ASSUME ~broken', NEW w \in Writers, w \in C PROVE ~Breaks(w)
  BY <1>5
<1>6. ASSUME ~broken', NEW id \in OrderIds, Ahead(id) PROVE Ahead(id)'
  <2>1. \A w \in Writers : own'[w] = id => AnswerOK(w)'
    <3> SUFFICES ASSUME NEW w \in Writers, own'[w] = id PROVE AnswerOK(w)'
      OBVIOUS
    <3>1. w \notin C /\ own'[w] = own[w] /\ own[w] = id
      BY <1>1
    <3>2. AnswerOK(w)
      BY <1>6, <3>1 DEF Ahead
    <3> HIDE DEF Over
    <3> QED
      BY <1>2, <1>3, <3>1, <3>2 DEF AnswerOK
  <2>2. \A w \in Writers : pc[w] = "items" /\ own[w] = id => w \notin C
    BY <1>5, <1>6 DEF Breaks, Running, Ahead
  <2> QED
    BY <1>2, <1>3, <1>6, <2>1, <2>2 DEF Ahead
<1>7. ASSUME ~broken', Active = {}, NEW w \in Writers, pc[w] = "insert" PROVE pc'[w] = "insert"
  BY <1>2, <1>5, <1>7 DEF Breaks
<1>8. broken => broken'
  OBVIOUS
<1>9. RaceOK'
  BY <1>3, <1>6, <1>7, <1>8 DEF RaceInv, RaceOK
<1> QED
  BY <1>4, <1>9 DEF RaceInv

LEMMA DeactivateRace ==
  ASSUME IInv, RaceInv, NEW w \in Writers, Deactivate(w)
  PROVE  RaceInv'
PROOF
<1> USE DEF Deactivate, Goto
<1>1. own[w] = None /\ w \in Calls
  BY DEF RaceInv, Owned, Calls
<1>2. pc'[w] = "insert" /\ \A d \in Calls \ {w} : pc'[d] = pc[d]
  BY <1>1 DEF IInv, TypeOK
<1>3. Active' = {} /\ \A id \in OrderIds : orders[id] # None => orders'[id] # None
  BY DeactivateEffect
<1>4. \A v \in Writers : own[v] # None => own[v] \in OrderIds
  BY DEF IInv, TypeOK
<1>5. Owned'
  BY <1>1, <1>2, <1>3, <1>4 DEF RaceInv, Owned, Calls
<1>6. RaceOK'
  BY <1>2, <1>3 DEF RaceOK
<1> QED
  BY <1>5, <1>6 DEF RaceInv

LEMMA InsertOrderRace ==
  ASSUME IInv, RaceInv, NEW w \in Writers, InsertOrder(w)
  PROVE  RaceInv'
PROOF
<1> DEFINE row == [active |-> TRUE, type |-> "user_override",
                   count |-> Len(wants[w].list), items |-> <<>>]
<1>1. w \in Calls /\ pc'[w] = "items" /\ \A d \in Calls \ {w} : pc'[d] = pc[d]
  BY DEF IInv, TypeOK, Calls, InsertOrder, Goto
<1>2. PICK new \in OrderIds : /\ orders[new] = None
                              /\ orders' = [orders EXCEPT ![new] = row]
                              /\ own' = [own EXCEPT ![w] = new]
  BY DEF InsertOrder
<1>3. orders'[new] = row /\ \A id \in OrderIds \ {new} : orders'[id] = orders[id]
  BY <1>2 DEF IInv, TypeOK
<1>4. own'[w] = new /\ \A v \in Writers \ {w} : own'[v] = own[v]
  BY <1>2 DEF IInv, TypeOK
<1>5. orders'[new] # None /\ new # None
  <2>1. wants[w].list \in Lists
    BY DEF InsertOrder, IInv, WriterOK, Running
  <2>2. Len(wants[w].list) \in Nat /\ <<>> \in Seq(PageIds)
    BY <2>1, ListTypes
  <2>3. row \in Row
    BY <2>2 DEF Row
  <2> HIDE DEF row
  <2> QED
    BY <1>3, <2>3
<1>6. Active' = {new}
  BY <1>3, <1>5 DEF Active, InsertOrder
<1> HIDE DEF row
<1>7. \A v \in Writers : own[v] # None => own[v] \in OrderIds \ {new} /\ orders[own[v]] # None
  BY <1>2 DEF IInv, TypeOK, RaceInv, Owned
<1>8. Owned'
  BY <1>1, <1>3, <1>4, <1>5, <1>7 DEF RaceInv, Owned, Calls
<1>9. \A v \in Writers : own'[v] = new => v = w
  BY <1>4, <1>5, <1>7
<1>10. Ahead(new)'
  BY <1>1, <1>4, <1>6, <1>9 DEF Ahead, AnswerOK
<1> QED
  BY <1>8, <1>10 DEF RaceInv, RaceOK

LEMMA InsertItemRace ==
  ASSUME IInv, RaceInv, NEW w \in Writers, InsertItem(w)
  PROVE  RaceInv'
PROOF
<1>1. UNCHANGED <<pc, wants, own, seen, result, broken>> /\ pc[w] = "items"
  BY DEF InsertItem
<1>2. own[w] \in OrderIds /\ orders[own[w]] \in Row /\ orders[own[w]] # None
  BY <1>1, RowTypes DEF IInv, WriterOK, Running, Begun
<1>3. PICK items : orders' = [orders EXCEPT ![own[w]].items = items]
  BY DEF InsertItem
<1>4. \A id \in OrderIds \ {own[w]} : orders'[id] = orders[id]
  BY <1>3 DEF IInv, TypeOK
<1>5. orders'[own[w]] # None /\ orders'[own[w]].active = orders[own[w]].active
  <2>1. own' = own /\ pc'[w] = "items" /\ WriterOK(w)'
    BY <1>1, InsertItemKeeps DEF IInv
  <2>2. orders'[own[w]] # None
    BY <2>1 DEF WriterOK, Begun
  <2>3. orders'[own[w]] = [orders[own[w]] EXCEPT !.items = items]
    BY <1>2, <1>3 DEF IInv, TypeOK
  <2>4. orders'[own[w]].active = orders[own[w]].active
    BY <1>2, <2>3 DEF Row
  <2> QED
    BY <2>2, <2>4
<1>6. Active' = Active
  BY <1>2, <1>4, <1>5 DEF Active
<1>7. Owned'
  BY <1>1, <1>4, <1>5 DEF IInv, TypeOK, RaceInv, Owned
<1>8. ASSUME NEW id \in OrderIds, Ahead(id) PROVE Ahead(id)'
  <2>1. CASE id = own[w]
    <3>1. \A v \in Writers : own[v] = id => v = w
      BY <1>2, <2>1 DEF RaceInv, Owned
    <3>2. AnswerOK(w)'
      BY <1>1 DEF AnswerOK
    <3> QED
      BY <1>1, <1>6, <1>8, <2>1, <3>1, <3>2 DEF Ahead
  <2>2. CASE id # own[w]
    <3>1. Listed(id)' = Listed(id) /\ (Whole(id)' <=> Whole(id))
      BY <1>4, <2>2 DEF Listed, Whole
    <3>2. \A v \in Writers : own[v] = id => AnswerOK(v)'
      BY <1>1, <1>8, <3>1 DEF Ahead, AnswerOK
    <3> QED
      BY <1>1, <1>6, <1>8, <3>1, <3>2 DEF Ahead
  <2> QED
    BY <2>1, <2>2
<1>9. \A id \in OrderIds : orders'[id] # None => orders[id] # None
  BY <1>2, <1>4
<1>10. RaceOK'
  BY <1>1, <1>6, <1>8, <1>9 DEF RaceInv, RaceOK
<1> QED
  BY <1>7, <1>10 DEF RaceInv

-----------------------------------------------------------------------------
(* The theorems. *)

LEMMA NextInvariant == IInv /\ [Next]_vars => IInv'
PROOF
<1> SUFFICES ASSUME IInv, [Next]_vars PROVE IInv'
  OBVIOUS
<1>1. ASSUME NEW w \in Writers, SetUserOrder(w) PROVE IInv'
  BY <1>1, StartWriteKeeps DEF SetUserOrder, Lists
<1>2. ASSUME NEW w \in Writers, ResetToSourceOrder(w) PROVE IInv'
  BY <1>2, StartWriteKeeps DEF ResetToSourceOrder, Lists
<1>3. ASSUME NEW w \in Writers, Refused(w) PROVE IInv'
  <2>1. w \in Calls /\ Running(w)
    BY <1>3 DEF Refused, Running, Calls
  <2>2. broken' \in BOOLEAN
    BY <1>3 DEF Refused, Breaks, IInv, TypeOK
  <2> QED
    BY <1>3, <2>1, <2>2, FailKeeps DEF Refused
<1>4. ASSUME NEW w \in Writers, Write(w) PROVE IInv'
  BY <1>3, <1>4, SelectActiveKeeps, DeactivateKeeps, InsertOrderKeeps, InsertItemKeeps,
     ItemsInsertedKeeps DEF Write
<1>5. ASSUME NEW c \in Calls, Read(c) PROVE IInv'
  BY <1>5, ReadNoOrderKeeps, ReadOrderKeeps, ReadItemsKeeps DEF Read
<1>6. ASSUME NEW c \in Calls, StatementFails(c) PROVE IInv'
  <2>1. broken' \in BOOLEAN
    BY <1>6 DEF StatementFails, IInv, TypeOK
  <2> QED
    BY <1>6, <2>1, FailKeeps DEF StatementFails, Running
<1>7. ASSUME NEW c \in Calls, Returned(c) PROVE IInv'
  BY <1>7, OverKeeps DEF Returned
<1>8. CASE Crash
  BY <1>8, OverKeeps DEF Crash
<1>9. CASE UNCHANGED vars
  BY <1>9 DEF vars, IInv, TypeOK, OneActive, NoMixing, OpenedIsWhole, WriterOK, OwnOrders,
     ReadOK, AloneOK, IsSet, Begun, Active, Listed, Running
<1> QED
  BY <1>1, <1>2, <1>4, <1>5, <1>6, <1>7, <1>8, <1>9, StartReadKeeps DEF Next

LEMMA NextRace == IInv /\ RaceInv /\ [Next]_vars => RaceInv'
PROOF
<1> SUFFICES ASSUME IInv, RaceInv, [Next]_vars PROVE RaceInv'
  OBVIOUS
<1>1. ASSUME NEW w \in Writers, SetUserOrder(w) PROVE RaceInv'
  BY <1>1, StartWriteRace DEF SetUserOrder, Lists
<1>2. ASSUME NEW w \in Writers, ResetToSourceOrder(w) PROVE RaceInv'
  BY <1>2, StartWriteRace DEF ResetToSourceOrder, Lists
<1>3. ASSUME NEW w \in Writers, Refused(w) PROVE RaceInv'
  <2>1. w \in Calls /\ Running(w)
    BY <1>3 DEF Refused, Running, Calls
  <2> QED
    BY <1>3, <2>1, FailRace DEF Refused
<1>4. ASSUME NEW w \in Writers, Write(w) PROVE RaceInv'
  BY <1>3, <1>4, SelectActiveRace, DeactivateRace, InsertOrderRace, InsertItemRace,
     ItemsInsertedRace DEF Write
<1>5. ASSUME NEW c \in Calls, Read(c) PROVE RaceInv'
  BY <1>5, ReadNoOrderRace, ReadOrderRace, ReadItemsRace DEF Read
<1>6. ASSUME NEW c \in Calls, StatementFails(c) PROVE RaceInv'
  BY <1>6, FailRace DEF StatementFails, Running
<1>7. ASSUME NEW c \in Calls, Returned(c) PROVE RaceInv'
  BY <1>7, OverRace DEF Returned
<1>8. CASE Crash
  BY <1>8, OverRace DEF Crash
<1>9. CASE UNCHANGED vars
  BY <1>9 DEF vars, RaceInv, Owned, RaceOK, Ahead, AnswerOK, Whole, Active, Listed
<1> QED
  BY <1>1, <1>2, <1>4, <1>5, <1>6, <1>7, <1>8, <1>9, StartReadRace DEF Next

\* The inductive invariant holds in every state of every behaviour: an order only holds
\* pages of the list its writer was given, a running writer owns the order it fills, and
\* a call between its two reads still finds the order row it read.
THEOREM Invariance == Spec => []IInv
PROOF
<1>1. IInv /\ [Next]_vars => IInv'
  BY NextInvariant
<1> QED
  BY InitInvariant, <1>1, PTL DEF Spec

\* Every variable has its type.
THEOREM TypeCorrect == Spec => []TypeOK
PROOF
<1>1. IInv => TypeOK
  BY DEF IInv
<1> QED
  BY Invariance, <1>1, PTL

\* However setUserOrder calls interleave, whoever inserted last without failing has won:
\* its order is the active one, complete, and what it was answered.
THEOREM ARaceHasAWinner == Spec => []RaceHasWinner
PROOF
<1>1. Init => RaceInv
  BY InitRace
<1>2. IInv /\ RaceInv /\ [Next]_vars => RaceInv'
  BY NextRace
<1>3. RaceInv => RaceHasWinner
  <2> SUFFICES ASSUME RaceInv, ~broken, \A w \in Writers : ~Running(w),
                      NEW some \in OrderIds, orders[some] # None
               PROVE  \E id \in OrderIds :
                        /\ Active = {id}
                        /\ Listed(id) \in Lists
                        /\ orders[id].count = Len(Listed(id))
                        /\ \A w \in Writers : own[w] = id => result[w] = Ok(wants[w].list)
    BY DEF RaceHasWinner
  <2>1. PICK id \in OrderIds : Ahead(id)
    BY DEF RaceInv, RaceOK, Running
  <2>2. Whole(id)
    BY <2>1 DEF Ahead, Running
  <2>3. ASSUME NEW w \in Writers, own[w] = id PROVE result[w] = Ok(wants[w].list)
    <3>1. pc[w] = "done"
      BY <2>3 DEF RaceInv, Owned, Running
    <3> QED
      BY <2>1, <2>3, <3>1 DEF Ahead, AnswerOK
  <2> QED
    BY <2>1, <2>2, <2>3 DEF Ahead, Whole
<1> QED
  BY Invariance, <1>1, <1>2, <1>3, PTL DEF Spec

\* No order mixes the pages of two requests, however setUserOrder calls interleave.
THEOREM OrdersAreOneRequest == Spec => []NoMixing
PROOF
<1>1. IInv => NoMixing
  BY DEF IInv
<1> QED
  BY Invariance, <1>1, PTL

\* OpenReader never shows part of a chapter.
THEOREM ReadersSeeTheChapter == Spec => []OpenedIsWhole
PROOF
<1>1. IInv => OpenedIsWhole
  BY DEF IInv
<1> QED
  BY Invariance, <1>1, PTL

\* A writer without another beside it sets and returns what it was asked for.
THEOREM SettingAloneWorks == Spec => []SetIsEffective
PROOF
<1>1. IInv => SetIsEffective
  BY DEF IInv, AloneOK, IsSet, SetIsEffective, ListedActive
<1> QED
  BY Invariance, <1>1, PTL
=============================================================================
