------------------------- MODULE PriceTimePriority -------------------------
(***************************************************************************)
(* What the matching engine promises its clients, with none of its data    *)
(* structures: a set of resting orders with the order in which they came   *)
(* to rest, and one aggressor at a time that trades against the opposite   *)
(* side of its symbol by price, then by time (docs/engine-specs.md).       *)
(***************************************************************************)
EXTENDS Integers

CONSTANTS Requests, BookSymbols, None

VARIABLES
  resting,   \* (client_id, cl_ord_id) -> order, for the orders at rest
  earlier,   \* <<k, l>> when order k came to rest before order l
  aggressor  \* the order being matched, or None

vars == <<resting, earlier, aggressor>>

KeyOf(order) == <<order.client_id, order.cl_ord_id>>

Order(r) ==
  [client_id |-> r.client_id, cl_ord_id |-> r.cl_ord_id,
   security_id |-> r.security_id, symbol |-> r.symbol, side |-> r.side,
   price |-> r.price, order_qty |-> r.order_qty, leaves_qty |-> r.order_qty]

\* A resting order that the aggressor may trade with.
Tradable(k) ==
  /\ resting[k].symbol = aggressor.symbol
  /\ resting[k].side # aggressor.side
  /\ \/ aggressor.price = 0
     \/ aggressor.side = "buy" /\ resting[k].price <= aggressor.price
     \/ aggressor.side = "sell" /\ resting[k].price >= aggressor.price

\* Price, then time, as the aggressor sees it.
Precedes(k, l) ==
  \/ aggressor.side = "buy" /\ resting[k].price < resting[l].price
  \/ aggressor.side = "sell" /\ resting[k].price > resting[l].price
  \/ resting[k].price = resting[l].price /\ <<k, l>> \in earlier

Remove(S) ==
  /\ resting' = [k \in DOMAIN resting \ S |-> resting[k]]
  /\ earlier' = {pair \in earlier : pair[1] \notin S /\ pair[2] \notin S}

Init == resting = << >> /\ earlier = {} /\ aggressor = None

Submit(r) ==
  /\ aggressor = None
  /\ r.type = "new_order_single"
  /\ KeyOf(r) \notin DOMAIN resting
  /\ r.symbol \in BookSymbols
  /\ aggressor' = Order(r)
  /\ UNCHANGED <<resting, earlier>>

\* The amended order loses its place; it is lost if its new symbol is unknown.
Amend(r) ==
  /\ aggressor = None
  /\ r.type = "replace_order"
  /\ <<r.client_id, r.orig_cl_ord_id>> \in DOMAIN resting
  /\ KeyOf(r) \notin DOMAIN resting
  /\ Remove({<<r.client_id, r.orig_cl_ord_id>>})
  /\ aggressor' = IF r.symbol \in BookSymbols THEN Order(r) ELSE None

Withdraw(r) ==
  /\ aggressor = None
  /\ r.type = "cancel_order"
  /\ <<r.client_id, r.orig_cl_ord_id>> \in DOMAIN resting
  /\ Remove({<<r.client_id, r.orig_cl_ord_id>>})
  /\ UNCHANGED aggressor

Clear(r) ==
  /\ aggressor = None
  /\ r.type = "flush"
  /\ Remove(DOMAIN resting)
  /\ UNCHANGED aggressor

\* A trade with the one resting order that no other tradable order precedes.
Execute ==
  /\ aggressor # None
  /\ aggressor.leaves_qty > 0
  /\ \E k \in DOMAIN resting :
       /\ Tradable(k)
       /\ \A l \in DOMAIN resting : Tradable(l) => ~Precedes(l, k)
       /\ LET offered == resting[k].leaves_qty
              wanted == aggressor.leaves_qty
          IN \/ /\ offered <= wanted
                /\ Remove({k})
                /\ aggressor' = [aggressor EXCEPT !.leaves_qty = wanted - offered]
             \/ /\ offered > wanted
                /\ resting' = [resting EXCEPT ![k].leaves_qty = offered - wanted]
                /\ aggressor' = [aggressor EXCEPT !.leaves_qty = 0]
                /\ UNCHANGED earlier

\* Nothing left to trade: a limit order rests, behind every order at rest.
Finish ==
  /\ aggressor # None
  /\ aggressor.leaves_qty = 0 \/ \A k \in DOMAIN resting : ~Tradable(k)
  /\ aggressor' = None
  /\ \/ /\ aggressor.leaves_qty > 0 /\ aggressor.price # 0
        /\ resting' = [k \in DOMAIN resting \cup {KeyOf(aggressor)} |->
                         IF k = KeyOf(aggressor) THEN aggressor ELSE resting[k]]
        /\ earlier' = earlier \cup {<<k, KeyOf(aggressor)>> : k \in DOMAIN resting}
     \/ /\ aggressor.leaves_qty = 0 \/ aggressor.price = 0
        /\ UNCHANGED <<resting, earlier>>

Next ==
  \/ \E r \in Requests : Submit(r) \/ Amend(r) \/ Withdraw(r) \/ Clear(r)
  \/ Execute
  \/ Finish

Spec == Init /\ [][Next]_vars

=============================================================================
