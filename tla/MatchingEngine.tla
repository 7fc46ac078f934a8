--------------------------- MODULE MatchingEngine ---------------------------
(***************************************************************************)
(* The matching engine of src/src/matching_engine: per-symbol books of     *)
(* price levels (order_book.hpp), the matching loop (matching.hpp) and the *)
(* request handlers with the identity index, the node pool and the events  *)
(* they emit (engine.cpp).                                                 *)
(*                                                                         *)
(* One thread drives the engine, so a handler is never interleaved with    *)
(* another one.  The handlers of cancel_order and flush, and every early   *)
(* return, are one step.  An accepted order is a first step up to the call *)
(* of match(), one Fill per iteration of consume_level's loop, and Settle  *)
(* for everything after the loop.  Return ends a handler: its locals go    *)
(* out of scope and its events have left through the callbacks.            *)
(***************************************************************************)
EXTENDS Integers, Sequences, FiniteSets, FiniteSetsExt, Functions

CONSTANTS
  Requests,     \* the requests that may arrive
  ClientIds,
  ClOrdIds,     \* values of cl_ord_id and of orig_cl_ord_id
  SecurityIds,
  Symbols,
  BookSymbols,  \* the configured symbols: those that have a book
  NodeIds,      \* addresses of the slots of node_pool_
  MaxPrice,     \* prices are 0..MaxPrice; 0 marks a market order
  QtyMod,       \* quantities are unsigned integers modulo QtyMod
  IdMod,        \* so are next_exec_id_ and next_trade_id_, modulo IdMod
  None          \* an empty std::optional, or a local not in scope

Side == {"buy", "sell"}
Price == 0 .. MaxPrice
Quantity == 0 .. QtyMod - 1
Id == 0 .. IdMod - 1
Key == ClientIds \X ClOrdIds
LevelKey == BookSymbols \X Side \X Price

Opposite(side) == IF side = "buy" THEN "sell" ELSE "buy"

\* Unsigned arithmetic of the build, for operands already below the modulus.
Plus(a, b, mod) == IF a + b >= mod THEN a + b - mod ELSE a + b
Minus(a, b, mod) == IF a >= b THEN a - b ELSE a - b + mod

-----------------------------------------------------------------------------
(* Messages and stored records: the fields that the engine looks at. *)

NewOrderSingle ==
  [type : {"new_order_single"}, client_id : ClientIds, cl_ord_id : ClOrdIds,
   security_id : SecurityIds, symbol : Symbols, side : Side,
   order_qty : Quantity, price : Price]

ReplaceOrder ==
  [type : {"replace_order"}, client_id : ClientIds, cl_ord_id : ClOrdIds,
   orig_cl_ord_id : ClOrdIds, security_id : SecurityIds, symbol : Symbols,
   side : Side, order_qty : Quantity, price : Price]

CancelOrder ==
  [type : {"cancel_order"}, client_id : ClientIds, cl_ord_id : ClOrdIds,
   orig_cl_ord_id : ClOrdIds]

Flush == [type : {"flush"}]

Request == NewOrderSingle \cup ReplaceOrder \cup CancelOrder \cup Flush

OrderState ==
  [client_id : ClientIds, cl_ord_id : ClOrdIds, security_id : SecurityIds,
   symbol : Symbols, side : Side, price : Price, order_qty : Quantity,
   leaves_qty : Quantity]

PriceLevel == [orders : Seq(NodeIds), total_remaining : Quantity]

LevelSnapshot == [price : Price, total_quantity : Quantity]

Trade ==
  [type : {"trade"}, security_id : SecurityIds, trade_id : Id, price : Price,
   quantity : Quantity, buyer : ClOrdIds, seller : ClOrdIds]

ExecutionSummary ==
  [type : {"execution_summary"}, security_id : SecurityIds,
   aggressor_side : Side, last_px : Price, fill_qty : Quantity]

MboBookUpdate ==
  [type : {"mbo_book_update"}, security_id : SecurityIds, side : Side,
   top : LevelSnapshot \cup {None}]

ExecutionReport ==
  [type : {"execution_report"}, client_id : ClientIds, cl_ord_id : ClOrdIds,
   orig_cl_ord_id : ClOrdIds \cup {None}, exec_id : Id,
   exec_type : {"new_order", "trade", "canceled"},
   ord_status : {"new_order", "filled", "partially_filled", "canceled"},
   order_qty : Quantity, cum_qty : Quantity, leaves_qty : Quantity,
   last_qty : Quantity \cup {None}, last_px : Price \cup {None}]

CancelReject ==
  [type : {"cancel_reject"}, client_id : ClientIds, cl_ord_id : ClOrdIds,
   orig_cl_ord_id : ClOrdIds,
   reject_reason : {"unknown_order", "duplicate_order", "unknown_symbol"}]

Event == Trade \cup ExecutionSummary \cup MboBookUpdate
           \cup ExecutionReport \cup CancelReject

-----------------------------------------------------------------------------
\* The modulus of the quantities and the identifiers, and the range of prices.
ASSUME WidthAssumption ==
  /\ MaxPrice \in Nat
  /\ QtyMod \in Nat \ {0}
  /\ IdMod \in Nat \ {0}

\* Requests are well formed, and only known symbols are configured.
ASSUME RequestAssumption ==
  /\ Requests \subseteq Request
  /\ BookSymbols \subseteq Symbols

\* An empty optional is neither an order nor a number.
ASSUME NoneAssumption == None \notin OrderState /\ None \notin Nat

VARIABLES
  nodes,          \* node_pool_: order_state of every slot handed out
  index,          \* resting_index_: (client_id, cl_ord_id) -> node
  levels,         \* books_: (symbol, side, price) -> price_level
  next_exec_id,
  next_trade_id,
  pc,             \* "idle", "match" (inside match()), "done" (about to return)
  request,        \* local: the request being handled
  taker,          \* local: the working copy handed to match()
  consumed,       \* local: prices that match()'s iterator has stepped over
  last_traded,    \* local: execution_summary; None iff it counts no trade
  events,         \* what the current handler has emitted, in order
  earlier,        \* history: <<k, l>> when order k came to rest before order l
  view,           \* history: a subscriber's last top per (security_id, side)
  flushed         \* history: (security_id, side)s flushed, not published since

book == <<nodes, index, levels>>
locals == <<request, taker, consumed, last_traded>>
history == <<earlier, view, flushed>>
vars == <<nodes, index, levels, next_exec_id, next_trade_id, pc, request, taker,
          consumed, last_traded, events, earlier, view, flushed>>

-----------------------------------------------------------------------------
(* Partial functions: std::unordered_map and flat_map. *)

Without(f, S) == Restrict(f, DOMAIN f \ S)

Assign(f, k, v) == [x \in DOMAIN f \cup {k} |-> IF x = k THEN v ELSE f[x]]

\* unordered_map::emplace leaves an existing entry alone.
Emplace(f, k, v) == IF k \in DOMAIN f THEN f ELSE Assign(f, k, v)

-----------------------------------------------------------------------------
(* order_book.hpp *)

KeyOf(order) == <<order.client_id, order.cl_ord_id>>
LevelOf(order) == <<order.symbol, order.side, order.price>>

\* The prices of one side map of a book.
Prices(lv, symbol, side) == {p \in Price : <<symbol, side, p>> \in DOMAIN lv}

\* Faulty variant: both maps sorted by std::less.
FrontIsLowest(side, prices) == Min(prices)

\* Bids are sorted by std::greater, asks by std::less: begin() of each map.
Front(side, prices) == IF side = "buy" THEN Max(prices) ELSE Min(prices)

best(lv, symbol, side) ==
  IF Prices(lv, symbol, side) = {} THEN None
  ELSE Front(side, Prices(lv, symbol, side))

best_level(lv, symbol, side) ==
  IF Prices(lv, symbol, side) = {} THEN None
  ELSE LET p == Front(side, Prices(lv, symbol, side))
       IN [price |-> p, total_quantity |-> lv[<<symbol, side, p>>].total_remaining]

EmptyLevel == [orders |-> << >>, total_remaining |-> 0]

\* Faulty variant: push_front.
placeAtFront(lv, node, order) ==
  LET k == LevelOf(order)
      level == IF k \in DOMAIN lv THEN lv[k] ELSE EmptyLevel
  IN Assign(lv, k,
       [orders |-> <<node>> \o level.orders,
        total_remaining |-> Plus(level.total_remaining, order.leaves_qty, QtyMod)])

\* place: push_back on the level's FIFO, creating the level on first sight.
place(lv, node, order) ==
  LET k == LevelOf(order)
      level == IF k \in DOMAIN lv THEN lv[k] ELSE EmptyLevel
  IN Assign(lv, k,
       [orders |-> Append(level.orders, node),
        total_remaining |-> Plus(level.total_remaining, order.leaves_qty, QtyMod)])

\* list::erase(iterator_to(node)): the intrusive list knows the position.
Unlink(orders, node) ==
  LET i == CHOOSE j \in DOMAIN orders : orders[j] = node
  IN SubSeq(orders, 1, i - 1) \o SubSeq(orders, i + 1, Len(orders))

\* Faulty variant: the level's total is not decremented.
cancelKeepsTotal(lv, node, order) ==
  LET k == LevelOf(order)
      rest == [orders |-> Unlink(lv[k].orders, node),
               total_remaining |-> lv[k].total_remaining]
  IN IF rest.orders = << >> THEN Without(lv, {k}) ELSE Assign(lv, k, rest)

cancel(lv, node, order) ==
  LET k == LevelOf(order)
      rest == [orders |-> Unlink(lv[k].orders, node),
               total_remaining |->
                 Minus(lv[k].total_remaining, order.leaves_qty, QtyMod)]
  IN IF rest.orders = << >> THEN Without(lv, {k}) ELSE Assign(lv, k, rest)

-----------------------------------------------------------------------------
(* matching.hpp *)

\* Faulty variant: an equal price does not cross.
crossesStrictly(order, level_price) ==
  \/ order.price = 0
  \/ order.side = "buy" /\ order.price > level_price
  \/ order.side = "sell" /\ order.price < level_price

crosses(order, level_price) ==
  \/ order.price = 0
  \/ order.side = "buy" /\ order.price >= level_price
  \/ order.side = "sell" /\ order.price <= level_price

make_trade(order, maker, level_price, fill_qty, id) ==
  LET buyer == IF order.side = "buy" THEN order ELSE maker
      seller == IF order.side = "buy" THEN maker ELSE order
  IN [type |-> "trade", security_id |-> order.security_id, trade_id |-> id,
      price |-> level_price, quantity |-> fill_qty,
      buyer |-> buyer.cl_ord_id, seller |-> seller.cl_ord_id]

-----------------------------------------------------------------------------
(* factories.hpp and the emit_* helpers of engine.cpp *)

make_order_state(r) ==
  [client_id |-> r.client_id, cl_ord_id |-> r.cl_ord_id,
   security_id |-> r.security_id, symbol |-> r.symbol, side |-> r.side,
   price |-> r.price, order_qty |-> r.order_qty, leaves_qty |-> r.order_qty]

emit_execution_report(order, id, exec_type, ord_status, orig, last_qty, last_px) ==
  [type |-> "execution_report", client_id |-> order.client_id,
   cl_ord_id |-> order.cl_ord_id, orig_cl_ord_id |-> orig, exec_id |-> id,
   exec_type |-> exec_type, ord_status |-> ord_status,
   order_qty |-> order.order_qty,
   cum_qty |-> Minus(order.order_qty, order.leaves_qty, QtyMod),
   leaves_qty |-> order.leaves_qty, last_qty |-> last_qty, last_px |-> last_px]

emit_cancel_reject(r, reason) ==
  [type |-> "cancel_reject", client_id |-> r.client_id,
   cl_ord_id |-> r.cl_ord_id, orig_cl_ord_id |-> r.orig_cl_ord_id,
   reject_reason |-> reason]

emit_mbo_book_update(lv, symbol, side, security_id) ==
  [type |-> "mbo_book_update", security_id |-> security_id, side |-> side,
   top |-> best_level(lv, symbol, side)]

\* The update is keyed by the security_id of the message that caused it.
UpdateIf(condition, lv, symbol, side, security_id) ==
  IF condition THEN <<emit_mbo_book_update(lv, symbol, side, security_id)>>
  ELSE << >>

-----------------------------------------------------------------------------
(* engine.cpp: the handlers *)

Init ==
  /\ nodes = << >> /\ index = << >> /\ levels = << >>
  /\ next_exec_id = 1 % IdMod
  /\ next_trade_id = 1 % IdMod
  /\ pc = "idle"
  /\ request = None /\ taker = None /\ consumed = {} /\ last_traded = None
  /\ events = << >>
  /\ earlier = {}
  /\ view = [k \in SecurityIds \X Side |-> None]
  /\ flushed = {}

contains(r) == <<r.client_id, r.cl_ord_id>> \in DOMAIN index
OrigKey(r) == <<r.client_id, r.orig_cl_ord_id>>

\* A handler that changes nothing but emits these events and returns.
ReturnWith(r, emitted) ==
  /\ pc' = "done"
  /\ request' = r
  /\ events' = emitted
  /\ UNCHANGED <<book, next_exec_id, next_trade_id, taker, consumed,
                 last_traded, history>>

\* handle_new_order_single_impl from make_order_state to the call of match().
BeginMatch(r, emitted) ==
  LET order == make_order_state(r)
  IN /\ pc' = "match"
     /\ request' = r
     /\ taker' = order
     /\ events' = Append(emitted,
          emit_execution_report(order, next_exec_id, "new_order", "new_order",
                                None, None, None))
     /\ next_exec_id' = Plus(next_exec_id, 1, IdMod)
     /\ UNCHANGED <<next_trade_id, consumed, last_traded, view, flushed>>

\* Faulty variant: the identity entry is not erased.
RemoveRestingKeepsIndex(key) ==
  LET node == index[key]
  IN /\ levels' = cancel(levels, node, nodes[node])
     /\ nodes' = Without(nodes, {node})
     /\ earlier' = {pair \in earlier : pair[1] # key /\ pair[2] # key}
     /\ UNCHANGED index

\* Cancel, index erase, release: the common part of cancel and replace.
RemoveResting(key) ==
  LET node == index[key]
  IN /\ levels' = cancel(levels, node, nodes[node])
     /\ index' = Without(index, {key})
     /\ nodes' = Without(nodes, {node})
     /\ earlier' = {pair \in earlier : pair[1] # key /\ pair[2] # key}

\* Faulty variant: impact is captured after the level may have gone.
RemovalUpdateTooLate(order) ==
  UpdateIf(best(levels', order.symbol, order.side) = order.price,
           levels', order.symbol, order.side, order.security_id)

\* The book update of a removal; impact is captured before the level goes.
RemovalUpdate(order) ==
  UpdateIf(best(levels, order.symbol, order.side) = order.price,
           levels', order.symbol, order.side, order.security_id)

RejectNewOrder(r) ==
  /\ pc = "idle" /\ r.type = "new_order_single"
  /\ contains(r) \/ r.symbol \notin BookSymbols
  /\ ReturnWith(r, << >>)

\* Faulty variant: find_book's failure is not propagated.
AcceptAnySymbol(r) ==
  /\ pc = "idle" /\ r.type = "new_order_single"
  /\ ~contains(r)
  /\ BeginMatch(r, << >>)
  /\ UNCHANGED <<book, earlier>>

AcceptNewOrder(r) ==
  /\ pc = "idle" /\ r.type = "new_order_single"
  /\ ~contains(r) /\ r.symbol \in BookSymbols
  /\ BeginMatch(r, << >>)
  /\ UNCHANGED <<book, earlier>>

CancelMiss(r) ==
  /\ pc = "idle" /\ r.type = "cancel_order"
  /\ OrigKey(r) \notin DOMAIN index
  /\ ReturnWith(r, <<emit_cancel_reject(r, "unknown_order")>>)

Cancel(r) ==
  /\ pc = "idle" /\ r.type = "cancel_order"
  /\ OrigKey(r) \in DOMAIN index
  /\ RemoveResting(OrigKey(r))
  /\ LET resting == nodes[index[OrigKey(r)]]
     IN events' = <<emit_execution_report(resting, next_exec_id, "canceled",
                      "canceled", r.orig_cl_ord_id, None, None)>>
                  \o RemovalUpdate(resting)
  /\ next_exec_id' = Plus(next_exec_id, 1, IdMod)
  /\ pc' = "done"
  /\ request' = r
  /\ UNCHANGED <<next_trade_id, taker, consumed, last_traded, view, flushed>>

RejectReplace(r) ==
  /\ pc = "idle" /\ r.type = "replace_order"
  /\ \/ /\ OrigKey(r) \notin DOMAIN index
        /\ ReturnWith(r, <<emit_cancel_reject(r, "unknown_order")>>)
     \/ /\ OrigKey(r) \in DOMAIN index /\ contains(r)
        /\ ReturnWith(r, <<emit_cancel_reject(r, "duplicate_order")>>)

\* The original goes first; the replacement is then a new order of its own,
\* and a symbol without a book is only found out at that point.
AcceptReplace(r) ==
  /\ pc = "idle" /\ r.type = "replace_order"
  /\ OrigKey(r) \in DOMAIN index /\ ~contains(r)
  /\ RemoveResting(OrigKey(r))
  /\ LET removal == RemovalUpdate(nodes[index[OrigKey(r)]])
     IN \/ /\ r.symbol \in BookSymbols
           /\ BeginMatch(r, removal)
        \/ /\ r.symbol \notin BookSymbols
           /\ events' = Append(removal, emit_cancel_reject(r, "unknown_symbol"))
           /\ pc' = "done"
           /\ request' = r
           /\ UNCHANGED <<next_exec_id, next_trade_id, taker, consumed,
                          last_traded, view, flushed>>

\* Every order reached through a book is erased from the index and released;
\* the levels themselves all go.
HandleFlush(r) ==
  /\ pc = "idle" /\ r.type = "flush"
  /\ LET drained == UNION {Range(levels[k].orders) : k \in DOMAIN levels}
         keys == {KeyOf(nodes[n]) : n \in drained}
     IN /\ levels' = << >>
        /\ nodes' = Without(nodes, drained)
        /\ index' = Without(index, keys)
        /\ earlier' = {pair \in earlier : pair[1] \notin keys /\ pair[2] \notin keys}
  /\ pc' = "done"
  /\ request' = r
  /\ UNCHANGED <<next_exec_id, next_trade_id, taker, consumed, last_traded,
                 events, view, flushed>>

-----------------------------------------------------------------------------
(* match() and what follows it *)

\* Prices of the side that the taker eats, from match()'s iterator onwards.
Ahead == Prices(levels, taker.symbol, Opposite(taker.side)) \ consumed

Current == Front(Opposite(taker.side), Ahead)

\* The conditions of both loops: match() and consume_level().
CanFill == Ahead # {} /\ taker.leaves_qty > 0 /\ crosses(taker, Current)

FillQty(maker) ==
  IF taker.leaves_qty < maker.leaves_qty THEN taker.leaves_qty
  ELSE maker.leaves_qty

\* Faulty variant: a filled maker is not popped, and the loop, which trades no
\* zero quantity, stays at it.
FillKeepsMaker ==
  /\ pc = "match"
  /\ CanFill
  /\ LET k == <<taker.symbol, Opposite(taker.side), Current>>
         level == levels[k]
         node == Head(level.orders)
         maker == nodes[node]
         qty == FillQty(maker)
     IN \/ /\ qty = 0
           /\ UNCHANGED vars
        \/ /\ qty > 0
           /\ events' = Append(events,
                make_trade(taker, maker, Current, qty, next_trade_id))
           /\ next_trade_id' = Plus(next_trade_id, 1, IdMod)
           /\ taker' = [taker EXCEPT !.leaves_qty = @ - qty]
           /\ levels' = Assign(levels, k, [level EXCEPT !.total_remaining = Minus(@, qty, QtyMod)])
           /\ nodes' = Assign(nodes, node, [maker EXCEPT !.leaves_qty = @ - qty])
           /\ last_traded' = Current
           /\ UNCHANGED <<index, earlier, consumed, next_exec_id, pc, request, view, flushed>>

\* One iteration of consume_level against the FIFO head of the current level.
\* An emptied level stays in the map until Settle; the iterator steps on.
Fill ==
  /\ pc = "match"
  /\ CanFill
  /\ LET k == <<taker.symbol, Opposite(taker.side), Current>>
         level == levels[k]
         node == Head(level.orders)
         maker == nodes[node]
         qty == FillQty(maker)
         rest == IF maker.leaves_qty = qty THEN Tail(level.orders) ELSE level.orders
     IN /\ events' = Append(events,
             make_trade(taker, maker, Current, qty, next_trade_id))
        /\ next_trade_id' = Plus(next_trade_id, 1, IdMod)
        /\ taker' = [taker EXCEPT !.leaves_qty = @ - qty]
        /\ levels' = Assign(levels, k,
             [orders |-> rest,
              total_remaining |-> Minus(level.total_remaining, qty, QtyMod)])
        /\ consumed' = IF rest = << >> THEN consumed \cup {Current} ELSE consumed
        /\ last_traded' = Current
        /\ \/ /\ maker.leaves_qty = qty
              /\ nodes' = Without(nodes, {node})
              /\ index' = Without(index, {KeyOf(maker)})
              /\ earlier' = {pair \in earlier : pair[1] # KeyOf(maker)
                                                  /\ pair[2] # KeyOf(maker)}
           \/ /\ maker.leaves_qty # qty
              /\ nodes' = Assign(nodes, node,
                   [maker EXCEPT !.leaves_qty = @ - qty])
              /\ UNCHANGED <<index, earlier>>
  /\ UNCHANGED <<next_exec_id, pc, request, view, flushed>>

\* Faulty variant: an order without remaining quantity rests too.
ShouldPlaceEmpty == taker.price # 0

\* Faulty variant: market remainders are not told apart.
ShouldPlaceAny == taker.leaves_qty > 0

\* A limit remainder rests; a market remainder is dropped.
ShouldPlace == taker.leaves_qty > 0 /\ taker.price # 0

\* match()'s bulk erase of the range in front of its iterator.
BulkErase(lv) ==
  Without(lv, {<<taker.symbol, Opposite(taker.side), p>> : p \in consumed})

\* execution_summary and the aggressor's trade report.
TradeEvents ==
  LET filled == Minus(taker.order_qty, taker.leaves_qty, QtyMod)
      status == IF taker.leaves_qty = 0 THEN "filled" ELSE "partially_filled"
  IN <<[type |-> "execution_summary", security_id |-> taker.security_id,
        aggressor_side |-> taker.side, last_px |-> last_traded,
        fill_qty |-> filled],
       emit_execution_report(taker, next_exec_id, "trade", status, None,
                             filled, last_traded)>>

\* allocate_node, book.place and resting_index_.emplace.
PlaceResidual(lv) ==
  \/ /\ ShouldPlace
     /\ \E node \in NodeIds \ DOMAIN nodes :
          /\ nodes' = Assign(nodes, node, taker)
          /\ levels' = place(lv, node, taker)
          /\ index' = Emplace(index, KeyOf(taker), node)
     /\ earlier' = earlier \cup {<<k, KeyOf(taker)>> : k \in DOMAIN index}
  \/ /\ ~ShouldPlace
     /\ levels' = lv
     /\ UNCHANGED <<nodes, index, earlier>>

\* Faulty variant: the consumed side is not reported.
OwnUpdateOnly ==
  UpdateIf(ShouldPlace /\ best(levels', taker.symbol, taker.side) = taker.price,
           levels', taker.symbol, taker.side, taker.security_id)

\* The book updates that close a new order: the consumed side, then its own.
ClosingUpdates ==
  UpdateIf(last_traded # None, levels', taker.symbol, Opposite(taker.side),
           taker.security_id)
  \o UpdateIf(ShouldPlace /\ best(levels', taker.symbol, taker.side) = taker.price,
              levels', taker.symbol, taker.side, taker.security_id)

Settle ==
  /\ pc = "match"
  /\ ~CanFill
  /\ PlaceResidual(BulkErase(levels))
  /\ \/ /\ last_traded # None
        /\ events' = events \o TradeEvents \o ClosingUpdates
        /\ next_exec_id' = Plus(next_exec_id, 1, IdMod)
     \/ /\ last_traded = None
        /\ events' = events \o ClosingUpdates
        /\ UNCHANGED next_exec_id
  /\ pc' = "done"
  /\ UNCHANGED <<next_trade_id, locals, view, flushed>>

-----------------------------------------------------------------------------
(* A subscriber to the market data: the last update of each (security_id,   *)
(* side) wins.                                                              *)
UpdatesOf(k, es) ==
  {i \in DOMAIN es : /\ es[i].type = "mbo_book_update"
                     /\ <<es[i].security_id, es[i].side>> = k}

Apply(v, es) ==
  [k \in DOMAIN v |-> IF UpdatesOf(k, es) = {} THEN v[k]
                      ELSE es[Max(UpdatesOf(k, es))].top]

Return ==
  /\ pc = "done"
  /\ pc' = "idle"
  /\ request' = None /\ taker' = None /\ consumed' = {} /\ last_traded' = None
  /\ events' = << >>
  /\ view' = Apply(view, events)
  /\ flushed' = {k \in DOMAIN view : /\ k \in flushed \/ request.type = "flush"
                                     /\ UpdatesOf(k, events) = {}}
  /\ UNCHANGED <<book, next_exec_id, next_trade_id, earlier>>

\* engine::send dispatches on the request's alternative.
Send(r) ==
  \/ RejectNewOrder(r)
  \/ AcceptNewOrder(r)
  \/ CancelMiss(r)
  \/ Cancel(r)
  \/ RejectReplace(r)
  \/ AcceptReplace(r)
  \/ HandleFlush(r)

Next ==
  \/ \E r \in Requests : Send(r)
  \/ Fill
  \/ Settle
  \/ Return

Spec == Init /\ [][Next]_vars

\* The processing loop runs a handler to its end.
FairSpec == Spec /\ WF_vars(Fill \/ Settle \/ Return)

-----------------------------------------------------------------------------
(* Properties *)

\* Every variable keeps its type; nodes, index and levels are partial maps.
TypeOK ==
  /\ DOMAIN nodes \subseteq NodeIds /\ nodes \in [DOMAIN nodes -> OrderState]
  /\ DOMAIN index \subseteq Key /\ index \in [DOMAIN index -> NodeIds]
  /\ DOMAIN levels \subseteq LevelKey /\ levels \in [DOMAIN levels -> PriceLevel]
  /\ next_exec_id \in Id /\ next_trade_id \in Id
  /\ pc \in {"idle", "match", "done"}
  /\ request \in Request \cup {None}
  /\ taker \in OrderState \cup {None}
  /\ consumed \subseteq Price
  /\ last_traded \in Price \cup {None}
  /\ events \in Seq(Event)
  /\ earlier \subseteq Key \X Key
  /\ view \in [SecurityIds \X Side -> LevelSnapshot \cup {None}]
  /\ flushed \subseteq SecurityIds \X Side

IndexNamesNode ==
  \A k \in DOMAIN index : index[k] \in DOMAIN nodes /\ KeyOf(nodes[index[k]]) = k

NodeIsIndexed ==
  \A n \in DOMAIN nodes :
    KeyOf(nodes[n]) \in DOMAIN index /\ index[KeyOf(nodes[n])] = n

LinkedNodeIsLive ==
  \A k \in DOMAIN levels : \A i \in DOMAIN levels[k].orders :
    levels[k].orders[i] \in DOMAIN nodes /\ LevelOf(nodes[levels[k].orders[i]]) = k

NodeIsLinked ==
  \A n \in DOMAIN nodes :
    /\ LevelOf(nodes[n]) \in DOMAIN levels
    /\ \E i \in DOMAIN levels[LevelOf(nodes[n])].orders :
         levels[LevelOf(nodes[n])].orders[i] = n

LinkedOnce ==
  \A k \in DOMAIN levels : \A i, j \in DOMAIN levels[k].orders :
    levels[k].orders[i] = levels[k].orders[j] => i = j

\* The raw pointers never dangle and no slot leaks: the index, the pool and the
\* books describe the same orders at every step of every handler, each order
\* exactly once, under its own key and at its own level (engine.hpp:117-132;
\* the LAB_ASSERTs of engine.cpp:262, engine.cpp:308 and order_book.hpp:178).
Ownership ==
  /\ IndexNamesNode
  /\ NodeIsIndexed
  /\ LinkedNodeIsLive
  /\ NodeIsLinked
  /\ LinkedOnce

\* sums[i] adds up the remaining quantity of the first i orders of a level.
RunningSums(orders, sums) ==
  /\ sums[0] = 0
  /\ \A i \in DOMAIN orders :
       sums[i] = Plus(sums[i - 1], nodes[orders[i]].leaves_qty, QtyMod)

\* total_remaining, updated in lockstep by place, cancel and consume_level,
\* is the sum of the level's remaining quantities modulo the width of
\* quantity, also for the levels match() has emptied and not yet erased.
LevelTotals ==
  \A k \in DOMAIN levels :
    \E sums \in [0 .. Len(levels[k].orders) -> Quantity] :
      /\ RunningSums(levels[k].orders, sums)
      /\ sums[Len(levels[k].orders)] = levels[k].total_remaining

\* The comment on price_level calls total_remaining "a running total of their
\* remaining quantity" (order_book.hpp:33-38): the sum itself, not the sum
\* modulo 2^64.
LevelTotalIsExact ==
  \A k \in DOMAIN levels :
    levels[k].total_remaining =
      MapThenSumSet(LAMBDA i : nodes[levels[k].orders[i]].leaves_qty,
                    DOMAIN levels[k].orders)

\* Between requests a book is not crossed (no bid at or above an ask), has no
\* empty level, and holds no order without remaining quantity or without a
\* price: match() stops only when the taker is exhausted or nothing crosses,
\* and erases what it emptied.
BookAtRest ==
  pc # "match" =>
    /\ \A b, a \in DOMAIN levels :
         b[1] = a[1] /\ b[2] = "buy" /\ a[2] = "sell" => b[3] < a[3]
    /\ \A k \in DOMAIN levels : levels[k].orders # << >> /\ k[3] # 0
    /\ \A n \in DOMAIN nodes : nodes[n].leaves_qty > 0

\* Within a level the FIFO order of the intrusive list is the order in which
\* the orders came to rest, whatever fills and cancels happened in between.
ArrivalOrder ==
  \A k \in DOMAIN levels : \A i, j \in DOMAIN levels[k].orders :
    i < j => <<KeyOf(nodes[levels[k].orders[i]]),
               KeyOf(nodes[levels[k].orders[j]])>> \in earlier

\* The security_ids under which exactly one book is traded.  The client picks
\* both fields, and json_decoder.cpp:35-38 defaults the id to the same value
\* for every symbol, so this is a premise about the clients.
Identified ==
  {pair \in SecurityIds \X BookSymbols :
     \A r \in Requests :
       r.type \in {"new_order_single", "replace_order"} /\ r.symbol \in BookSymbols
         => (r.security_id = pair[1] <=> r.symbol = pair[2])}

\* A subscriber that applies every mbo_book_update of engine.cpp:433-455 knows
\* the true top of each side after every request, although updates are only
\* emitted for the changes the handlers take for relevant; a flush alone is
\* silent, and after it an outdated view always means an empty side.
ViewIsTop ==
  pc = "idle" =>
    \A pair \in Identified, side \in Side :
      LET top == best_level(levels, pair[2], side)
      IN IF <<pair[1], side>> \in flushed THEN top = None
         ELSE view[<<pair[1], side>>] = top

TradesOf(es) == {i \in DOMAIN es : es[i].type = "trade"}

TradedBy(event) == IF event.type = "trade" THEN event.quantity ELSE 0

\* What the trades among the events add up to.
Traded(es) ==
  LET sums[i \in 0 .. Len(es)] == IF i = 0 THEN 0 ELSE sums[i - 1] + TradedBy(es[i])
  IN sums[Len(es)]

\* A taker on this side would rather trade at q than at p, or does not mind.
NoBetter(side, p, q) == IF side = "buy" THEN p >= q ELSE p <= q

\* When the handler of an accepted order ends, its trades, its summary, its
\* trade report and what it left in the book all account for order_qty: no
\* quantity is traded twice, lost or reported differently on the two streams
\* (engine.cpp:129-206), and every trade is within the limit, each at a price
\* no better for the taker than the one before.
AccountedFor ==
  pc = "done" /\ taker # None =>
    LET T == TradesOf(events)
        filled == Traded(events)
        remainder == request.order_qty - filled
        key == <<request.client_id, request.cl_ord_id>>
    IN /\ remainder >= 0
       /\ IF remainder > 0 /\ request.price # 0
          THEN key \in DOMAIN index /\ nodes[index[key]].leaves_qty = remainder
          ELSE key \notin DOMAIN index
       /\ T # {} <=> \E i \in DOMAIN events : events[i].type = "execution_summary"
       /\ \A i \in DOMAIN events :
            /\ events[i].type = "execution_summary" =>
                 events[i].fill_qty = filled /\ events[i].last_px = events[Max(T)].price
            /\ events[i].type = "execution_report" /\ events[i].exec_type = "trade" =>
                 /\ events[i].last_qty = filled /\ events[i].cum_qty = filled
                 /\ events[i].leaves_qty = remainder
                 /\ events[i].ord_status = "filled" <=> remainder = 0
       /\ \A i, j \in T : i < j => NoBetter(request.side, events[j].price, events[i].price)
       /\ \A i \in T :
            request.price = 0 \/ NoBetter(request.side, request.price, events[i].price)

\* A replace that is answered with a reject of its own terms leaves the
\* original order alive: docs/engine-specs.md:81-87 lets only "a valid replace"
\* remove it, and a cancel_reject that is not unknown_order names a live order.
RejectedReplaceKeepsOriginal ==
  pc = "done" =>
    \A i \in DOMAIN events :
      events[i].type = "cancel_reject" /\ events[i].reject_reason # "unknown_order"
        => <<events[i].client_id, events[i].orig_cl_ord_id>> \in DOMAIN index

\* The orders at rest, seen through the identity index.
Resting == [k \in DOMAIN index |-> nodes[index[k]]]

PTP == INSTANCE PriceTimePriority
         WITH resting <- Resting,
              aggressor <- IF pc = "match" THEN taker ELSE None

\* The engine, with its levels, FIFOs, index and pool, implements matching by
\* price and time: every fill is with the order the priority rule picks, and
\* no handler touches an order the rule does not name.
ImplementsPriceTime == PTP!Spec

\* Each iteration of match()'s loops takes something from the taker and never
\* more than it has left, whatever was done to the books before: no order rests
\* without quantity, so there is no trade of zero and the loops have at most as
\* many iterations as the order has quantity (matching.hpp:85-116, 130-163).
MatchProgresses ==
  [][pc = "match" /\ pc' = "match" =>
       taker'.leaves_qty \in 0 .. taker.leaves_qty - 1]_vars

\* Every handler ends: match() always makes progress (matching.hpp:130-163).
HandlerReturns == pc # "idle" ~> pc = "idle"

=============================================================================
