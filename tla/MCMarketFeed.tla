---------------------------- MODULE MCMarketFeed ----------------------------
(***************************************************************************)
(* The instance of MarketFeed for TLC.                                     *)
(***************************************************************************)
EXTENDS MarketFeed, TLC

CONSTANTS c1, c2, n1, n2, n3

MCNodeIds == {n1, n2, n3}
NodeSymmetry == Permutations(MCNodeIds)

New(client, id, symbol, side, qty, price) ==
  [type |-> "new_order_single", client_id |-> client, cl_ord_id |-> id,
   security_id |-> 0, symbol |-> symbol, side |-> side, order_qty |-> qty,
   price |-> price]

\* Two books under the default security_id: orders at two prices that rest and
\* cross, one that moves from book to book, a market order, cancels, a flush.
SharedIdRequests ==
  {New(c1, 1, symbol, "sell", 2, price) : symbol \in {"A", "B"}, price \in {1, 2}}
  \cup {New(c1, 2, "A", "sell", 1, 1), New(c2, 1, "A", "buy", 1, 1),
        New(c2, 1, "B", "buy", 3, 0)}
  \cup {[type |-> "replace_order", client_id |-> c1, cl_ord_id |-> 2,
         orig_cl_ord_id |-> 1, security_id |-> 0, symbol |-> "B", side |-> "sell",
         order_qty |-> 1, price |-> 1]}
  \cup {[type |-> "cancel_order", client_id |-> c1, cl_ord_id |-> 2,
         orig_cl_ord_id |-> 1]}
  \cup {[type |-> "flush"]}

\* One message of each kind that the engine does not send, optional fields set
\* and not set.
MCAnnouncements ==
  {[message_type |-> "security_definition", security_id |-> 0, symbol |-> "A",
    security_exchange |-> "BVMF", security_group |-> "G", security_type |-> "CS",
    security_subtype |-> None, min_price_increment |-> 1, round_lot |-> 100,
    currency |-> "BRL"],
   [message_type |-> "security_status", security_id |-> 0,
    security_exchange |-> "BVMF", trading_session_id |-> "1",
    security_trading_status |-> "halted", security_trading_event |-> "trading_halt",
    transact_time |-> 1],
   [message_type |-> "mbo_book_update", security_id |-> 1,
    update_action |-> "new_order", side |-> "sell", resting_order_id |-> 3,
    price |-> 2, quantity |-> None, previous_quantity |-> 1, transact_time |-> 1]}

=============================================================================
