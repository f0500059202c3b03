------------------------------ MODULE PageOrders ------------------------------
(***************************************************************************)
(* The page order of one chapter: the page order repository and OpenReader *)
(* (runtime/core/src/repositories/sqlite-repositories.ts,                  *)
(* runtime/core/src/application/open-reader.ts).                           *)
(*                                                                         *)
(* None of it runs in a transaction: every statement commits by itself, so *)
(* other writers and readers run between any two of them, and a failing    *)
(* statement or a crash leaves what was written before it.  The chapter's  *)
(* pages do not change here: no operation of runtime/core writes them.     *)
(***************************************************************************)
EXTENDS Naturals, Sequences, FiniteSets

CONSTANTS
  Writers,      \* calls of setUserOrder and resetToSourceOrder
  Readers,      \* calls of OpenReader
  SourceOrder,  \* the chapter's pages by page_index
  Requested,    \* the page lists callers ask for
  OrderIds,     \* page_orders ids: randomUUID(), bounded
  None

Pages == {SourceOrder[i] : i \in DOMAIN SourceOrder}
Lists == Requested \cup {SourceOrder}
PageIds == UNION {{list[i] : i \in DOMAIN list} : list \in Lists}
Row == [active : BOOLEAN, type : {"source", "user_override"}, count : Nat, items : Seq(PageIds)]

ASSUME OrdersAssumption ==
  /\ Writers \cap Readers = {}
  /\ None \notin OrderIds
  /\ None \notin Row
  /\ Lists \subseteq Seq(PageIds)
  /\ \A i, j \in DOMAIN SourceOrder : SourceOrder[i] = SourceOrder[j] => i = j

VARIABLES
  orders,   \* orders[id]: the row of page_orders with its page_order_items, or None
  pc,       \* pc[c]: the statement call c is about to run
  wants,    \* wants[w]: the page list writer w was given, and whether by a reset
  own,      \* own[w]: the order writer w has inserted
  seen,     \* seen[c]: the order row getActiveOrder has read for call c
  result,   \* result[c]: what call c returned: its code and its list of pages
  alone,    \* alone[w]: no other writer has run since w started
  broken    \* since the last insert of an order, a failure has hit the writer of the active
            \* order, or one about to insert where none is active

\* alone and broken are there for the properties: no action reads them.
vars == <<orders, pc, wants, own, seen, result, alone, broken>>

Calls == Writers \cup Readers

Active == {id \in OrderIds : orders[id] # None /\ orders[id].active}

\* The items of an order, by sort_index.
Listed(id) == orders[id].items

ListedActive == {Listed(id) : id \in Active}

Running(c) == pc[c] \notin {"idle", "done"}

Ok(list) == [code |-> "ok", list |-> list]
Failed(code) == [code |-> code, list |-> <<>>]

NoCall == [list |-> <<>>, reset |-> FALSE]

Init ==
  /\ orders = [id \in OrderIds |-> None]
  /\ pc = [c \in Calls |-> "idle"]
  /\ wants = [w \in Writers |-> NoCall]
  /\ own = [w \in Writers |-> None]
  /\ seen = [c \in Calls |-> None]
  /\ result = [c \in Calls |-> Failed("none")]
  /\ alone = [w \in Writers |-> FALSE]
  /\ broken = FALSE

Goto(c, p) == pc' = [pc EXCEPT ![c] = p]

Return(c, value) ==
  /\ Goto(c, "done")
  /\ result' = [result EXCEPT ![c] = value]

-----------------------------------------------------------------------------
(* setUserOrder and resetToSourceOrder. *)

StartWrite(w, list, reset) ==
  /\ pc[w] = "idle"
  /\ wants' = [wants EXCEPT ![w] = [list |-> list, reset |-> reset]]
  /\ alone' = [v \in Writers |-> v = w /\ \A u \in Writers : ~Running(u)]
  /\ Goto(w, "select")
  /\ UNCHANGED <<orders, own, seen, result, broken>>

SetUserOrder(w) == \E list \in Requested : StartWrite(w, list, FALSE)

\* Lists the chapter's pages and sets them, as a user order.
ResetToSourceOrder(w) == StartWrite(w, SourceOrder, TRUE)

SelectActive(w) ==
  /\ pc[w] = "select"
  /\ Goto(w, IF Active = {} THEN "insert" ELSE "deactivate")
  /\ UNCHANGED <<orders, wants, own, seen, result, alone, broken>>

Deactivated == [id \in OrderIds |->
                  IF id \in Active THEN [orders[id] EXCEPT !.active = FALSE] ELSE orders[id]]

Deactivate(w) ==
  /\ pc[w] = "deactivate"
  /\ orders' = Deactivated
  /\ Goto(w, "insert")
  /\ UNCHANGED <<wants, own, seen, result, alone, broken>>

\* The unique index refuses a second active order; see Refused.
InsertOrder(w) ==
  /\ pc[w] = "insert"
  /\ Active = {}
  /\ \E id \in OrderIds :
        /\ orders[id] = None
        /\ orders' = [orders EXCEPT ![id] =
                        [active |-> TRUE, type |-> "user_override",
                         count |-> Len(wants[w].list), items |-> <<>>]]
        /\ own' = [own EXCEPT ![w] = id]
  /\ Goto(w, "items")
  /\ broken' = FALSE
  /\ UNCHANGED <<wants, seen, result, alone>>

\* The next page of the list.
NextPage(w) == wants[w].list[Len(Listed(own[w])) + 1]

\* Mutant: the loop stops before the last page.
AllInserted_OffByOne(w) == Len(Listed(own[w])) + 1 >= Len(wants[w].list)

AllInserted(w) == Len(Listed(own[w])) = Len(wants[w].list)

Duplicate(w) == \E i \in DOMAIN Listed(own[w]) : Listed(own[w])[i] = NextPage(w)

\* Mutant: the items go to whatever order is active now.
InsertItem_IntoActive(w) ==
  /\ pc[w] = "items"
  /\ ~AllInserted(w)
  /\ ~Duplicate(w)
  /\ \E id \in Active : orders' = [orders EXCEPT ![id].items = Append(@, NextPage(w))]
  /\ UNCHANGED <<pc, wants, own, seen, result, alone, broken>>

\* One insert per page; an order lists a page once.
InsertItem(w) ==
  /\ pc[w] = "items"
  /\ ~AllInserted(w)
  /\ ~Duplicate(w)
  /\ orders' = [orders EXCEPT ![own[w]].items = Append(@, NextPage(w))]
  /\ UNCHANGED <<pc, wants, own, seen, result, alone, broken>>

ItemsInserted(w) ==
  /\ pc[w] = "items"
  /\ AllInserted(w)
  /\ Goto(w, "order")
  /\ UNCHANGED <<orders, wants, own, seen, result, alone, broken>>

\* Stopping w now leaves the chapter with no active order, or with one w has not finished.
Breaks(w) ==
  \/ pc[w] = "insert" /\ Active = {}
  \/ Running(w) /\ own[w] \in Active

\* Mutant: a call that is refused deactivates the chapter's order, taking it for its own.
Refused_CleansUp(w) ==
  /\ \/ pc[w] = "insert" /\ Active # {}
     \/ pc[w] = "items" /\ ~AllInserted(w) /\ Duplicate(w)
  /\ orders' = Deactivated
  /\ Return(w, Failed("INTERNAL_ERROR"))
  /\ broken' = (broken \/ Breaks(w))
  /\ UNCHANGED <<wants, own, seen, alone>>

\* A unique index refuses the insert: the call fails, what it has written stays.
Refused(w) ==
  /\ \/ pc[w] = "insert" /\ Active # {}
     \/ pc[w] = "items" /\ ~AllInserted(w) /\ Duplicate(w)
  /\ Return(w, Failed("INTERNAL_ERROR"))
  /\ broken' = (broken \/ Breaks(w))
  /\ UNCHANGED <<orders, wants, own, seen, alone>>

-----------------------------------------------------------------------------
(* getActiveOrder: two statements, for OpenReader and for a writer's read-back. *)

StartRead(r) ==
  /\ pc[r] = "idle"
  /\ Goto(r, "order")
  /\ UNCHANGED <<orders, wants, own, seen, result, alone, broken>>

\* Mutant: the items are read without asking whether there is an active order.
ReadNoOrder_Unchecked(c) ==
  /\ pc[c] = "order"
  /\ Active = {}
  /\ seen' = [seen EXCEPT ![c] = [id |-> None, count |-> 0]]
  /\ Goto(c, "listing")
  /\ UNCHANGED <<orders, wants, own, result, alone, broken>>

\* No active order: OpenReader builds one from the page indexes, a writer fails.
ReadNoOrder(c) ==
  /\ pc[c] = "order"
  /\ Active = {}
  /\ Return(c, IF c \in Readers THEN Ok(SourceOrder) ELSE Failed("INTERNAL_ERROR"))
  /\ UNCHANGED <<orders, wants, own, seen, alone, broken>>

ReadOrder(c) ==
  /\ pc[c] = "order"
  /\ \E id \in Active : seen' = [seen EXCEPT ![c] = [id |-> id, count |-> orders[id].count]]
  /\ Goto(c, "listing")
  /\ UNCHANGED <<orders, wants, own, result, alone, broken>>

\* OpenReader shows an order that covers every page exactly once, and no other.
Covers(list, count) ==
  /\ count = Len(SourceOrder)
  /\ Len(list) = Len(SourceOrder)
  /\ {list[i] : i \in DOMAIN list} = Pages

\* Mutant: the number of items is taken from the order row.
ReadItems_TrustsCount(c) ==
  /\ pc[c] = "listing"
  /\ LET list == Listed(seen[c].id)
     IN  Return(c, IF c \in Writers \/ seen[c].count = Len(SourceOrder)
                   THEN Ok(list) ELSE Failed("VALIDATION_ERROR"))
  /\ UNCHANGED <<orders, wants, own, seen, alone, broken>>

ReadItems(c) ==
  /\ pc[c] = "listing"
  /\ LET list == Listed(seen[c].id)
     IN  Return(c, IF c \in Writers \/ Covers(list, seen[c].count)
                   THEN Ok(list) ELSE Failed("VALIDATION_ERROR"))
  /\ UNCHANGED <<orders, wants, own, seen, alone, broken>>

-----------------------------------------------------------------------------
(* Callers, failures, restarts. *)

\* The calls in C are over: nothing of them is left but what they stored.
Over(C) ==
  /\ pc' = [c \in Calls |-> IF c \in C THEN "idle" ELSE pc[c]]
  /\ wants' = [w \in Writers |-> IF w \in C THEN NoCall ELSE wants[w]]
  /\ own' = [w \in Writers |-> IF w \in C THEN None ELSE own[w]]
  /\ seen' = [c \in Calls |-> IF c \in C THEN None ELSE seen[c]]
  /\ result' = [c \in Calls |-> IF c \in C THEN Failed("none") ELSE result[c]]
  /\ alone' = [w \in Writers |-> w \notin C /\ alone[w]]
  /\ broken' = (broken \/ \E w \in Writers \cap C : Breaks(w))
  /\ UNCHANGED orders

Returned(c) == pc[c] = "done" /\ Over({c})

\* A statement throws: the call returns an error and undoes nothing.
StatementFails(c) ==
  /\ pc[c] \notin {"idle", "done"}
  /\ Return(c, Failed("INTERNAL_ERROR"))
  /\ broken' = (broken \/ (c \in Writers /\ Breaks(c)))
  /\ UNCHANGED <<orders, wants, own, seen, alone>>

Crash == Over(Calls)

Write(w) ==
  \/ SelectActive(w) \/ Deactivate(w) \/ InsertOrder(w) \/ InsertItem(w)
  \/ ItemsInserted(w) \/ Refused(w)

Read(c) == ReadNoOrder(c) \/ ReadOrder(c) \/ ReadItems(c)

Next ==
  \/ \E w \in Writers : SetUserOrder(w) \/ ResetToSourceOrder(w) \/ Write(w)
  \/ \E r \in Readers : StartRead(r)
  \/ \E c \in Calls : Read(c) \/ Returned(c) \/ StatementFails(c)
  \/ Crash

Spec == Init /\ [][Next]_vars

-----------------------------------------------------------------------------
(* Properties. *)

\* Every variable has its type.
TypeOK ==
  /\ orders \in [OrderIds -> Row \cup {None}]
  /\ pc \in [Calls -> {"idle", "select", "deactivate", "insert", "items", "order", "listing",
                      "done"}]
  /\ wants \in [Writers -> [list : Lists \cup {<<>>}, reset : BOOLEAN]]
  /\ own \in [Writers -> OrderIds \cup {None}]
  /\ seen \in [Calls -> [id : OrderIds, count : Nat] \cup {None}]
  /\ result \in [Calls -> [code : {"none", "ok", "INTERNAL_ERROR", "VALIDATION_ERROR"},
                          list : Seq(PageIds)]]
  /\ alone \in [Writers -> BOOLEAN]
  /\ broken \in BOOLEAN

\* A race of setUserOrder calls has a winner.  Each selects, deactivates and inserts between
\* the statements of the others, is refused by the index, or loses its order to a later one;
\* but once nobody writes, a chapter that has orders has exactly one active order, with all
\* the pages somebody asked for, and the caller who asked for it got it back as the answer.
\* Only a failure of the writer that was ahead, not the race, can leave it otherwise.
RaceHasWinner ==
  ~broken /\ (\A w \in Writers : ~Running(w)) /\ (\E id \in OrderIds : orders[id] # None) =>
    \E id \in OrderIds :
      /\ Active = {id}
      /\ Listed(id) \in Lists
      /\ orders[id].count = Len(Listed(id))
      /\ \A w \in Writers : own[w] = id => result[w] = Ok(wants[w].list)

\* No order ever holds pages of two requests: its items are the first items of one list
\* a caller asked for, and its page_count is the length of that list.
NoMixing ==
  \A id \in OrderIds : orders[id] # None =>
    \E list \in Lists :
      /\ orders[id].count = Len(list)
      /\ Len(Listed(id)) <= Len(list)
      /\ \A i \in 1 .. Len(Listed(id)) : Listed(id)[i] = list[i]

\* A reader that is shown pages is shown every page of the chapter once, in the source
\* order or in an order somebody asked for, although it reads the order and its items
\* in two statements while writers run, fail and die.
OpenedIsWhole ==
  \A r \in Readers : pc[r] = "done" /\ result[r].code = "ok" =>
    /\ result[r].list \in Lists
    /\ Len(result[r].list) = Len(SourceOrder)
    /\ {result[r].list[i] : i \in DOMAIN result[r].list} = Pages

\* A writer that succeeds with no other writer beside it has set and returns exactly
\* what it was asked for, whatever half-written order an earlier failure left behind.
SetIsEffective ==
  \A w \in Writers : pc[w] = "done" /\ result[w].code = "ok" /\ alone[w] =>
    /\ result[w].list = wants[w].list
    /\ ListedActive = {wants[w].list}

\* docs/design/repository-interfaces.md: operations either fully succeed or fully fail, so
\* when no writer is at work every order has the items its page_count says, and a chapter
\* that has orders has an active one.
AllOrNothing ==
  (\A w \in Writers : ~Running(w)) =>
    /\ \A id \in OrderIds : orders[id] # None => orders[id].count = Len(Listed(id))
    /\ (\E id \in OrderIds : orders[id] # None) => Active # {}
=============================================================================
