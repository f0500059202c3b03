-------------------------- MODULE IdempotentCreation --------------------------
(***************************************************************************)
(* What CreateCanonicalComic promises its callers, without transactions,   *)
(* statements or crashes: a key is bound once, to one hash and one answer, *)
(* and every caller that is told about the key is told that answer.        *)
(***************************************************************************)
CONSTANTS Keys, Inputs, Canonical, Ids, None

VARIABLES
  bound,   \* bound[k]: <<hash, <<id, title>>>> once key k has made its comic, else None
  made,    \* the comics that exist
  told     \* told[k]: what callers using key k have been told

vars == <<bound, made, told>>

Init == /\ bound = [k \in Keys |-> None]
        /\ made = {}
        /\ told = [k \in Keys |-> {}]

\* A request with a fresh key makes a new comic and binds the key to it.
Bind(k, i, id) == /\ bound[k] = None
                  /\ id \in Ids \ made
                  /\ bound' = [bound EXCEPT ![k] = <<Canonical[i], <<id, i>>>>]
                  /\ made' = made \cup {id}
                  /\ UNCHANGED told

\* A request without a key makes a new comic.
Make(id) == /\ id \in Ids \ made
            /\ made' = made \cup {id}
            /\ UNCHANGED <<bound, told>>

\* A caller learns what its key is bound to; it may never learn it.
Tell(k) == /\ bound[k] # None
           /\ told' = [told EXCEPT ![k] = @ \cup {bound[k]}]
           /\ UNCHANGED <<bound, made>>

Next == \/ \E k \in Keys, i \in Inputs, id \in Ids : Bind(k, i, id)
        \/ \E id \in Ids : Make(id)
        \/ \E k \in Keys : Tell(k)

Spec == Init /\ [][Next]_vars
=============================================================================
