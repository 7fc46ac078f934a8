----------------------------- MODULE MarketFeed -----------------------------
(***************************************************************************)
(* The matching engine with what becomes of its market data: every message *)
(* is posted to the output loop, encoded and written by the publisher, and *)
(* read by subscribers (src/src/market_data, src/src/mmd, src/src/mmd_json,*)
(* src/src/mmd_transport, src/src/mmdfix).                                 *)
(*                                                                         *)
(* Three feeds carry the same messages: the JSON lines of the market_data  *)
(* publisher, the lines of mmd_json in a mmd_transport sink, and the       *)
(* FIX-shaped messages of mmdfix with the codes of B3.  Each feed has a    *)
(* subscriber; they may attach at any time, and know only what they have   *)
(* read since.                                                             *)
(***************************************************************************)
EXTENDS MatchingEngine

CONSTANTS
  Announcements,  \* messages that do not come from the engine
  MaxPending,     \* bound: a request waits while so many messages are pending
  Unknown         \* what a subscriber knows before the first update

MD == INSTANCE MarketDataCodec

VARIABLES
  pending,   \* messages posted to the output loop and not yet published
  known,     \* what the subscriber of each feed knows of each book side
  late       \* the subscribers did not read the feeds from the start

feedVars == <<pending, known, late>>
allVars == <<vars, feedVars>>

Feeds == {"market_data", "mmd_json", "mmdfix"}
BookSide == SecurityIds \X Side

\* Identifiers are unsigned integers, and an empty optional is neither an enumerator
\* nor a date.  An announcement is a message that is not about a book of the engine,
\* whose updates only the engine sends.
ASSUME FeedAssumption ==
  /\ SecurityIds \subseteq Nat /\ ClOrdIds \subseteq Nat
  /\ \A m \in Announcements :
       /\ MD!IsMessage(m)
       /\ m["message_type"] = "mbo_book_update" => m["security_id"] \notin SecurityIds
  /\ MaxPending \in Nat \ {0}
  /\ \A f \in DOMAIN MD!Enumerators : None \notin MD!Enumerators[f]
  /\ None # "20260522"
  /\ Unknown \notin LevelSnapshot \cup {None}

FeedInit ==
  /\ Init
  /\ pending = << >>
  /\ known = [feed \in Feeds |-> [k \in BookSide |-> Unknown]]
  /\ late = FALSE

-----------------------------------------------------------------------------
(* engine.cpp and matching.hpp: the messages that the events stand for *)

\* Faulty variant: an emptied side is reported as a change.
update_actionAlwaysChange(top) == "change"

update_action(top) == IF top = None THEN "delete_order" ELSE "change"

BookUpdate(e) ==
  [message_type |-> "mbo_book_update", security_id |-> e.security_id,
   update_action |-> update_action(e.top), side |-> e.side, resting_order_id |-> 0,
   price |-> IF e.top = None THEN None ELSE e.top.price,
   quantity |-> IF e.top = None THEN None ELSE e.top.total_quantity,
   previous_quantity |-> None, transact_time |-> 0]

TradeMessage(e) ==
  [message_type |-> "trade", security_id |-> e.security_id, trade_id |-> e.trade_id,
   price |-> e.price, quantity |-> e.quantity, buyer |-> e.buyer, seller |-> e.seller,
   trade_condition |-> "regular", trade_sub_type |-> None,
   trade_date |-> "20260522", transact_time |-> 0]

SummaryMessage(e) ==
  [message_type |-> "execution_summary", security_id |-> e.security_id,
   aggressor_side |-> e.aggressor_side, last_px |-> e.last_px, fill_qty |-> e.fill_qty,
   traded_hidden_qty |-> None, cancel_qty |-> None, aggressor_time |-> 0,
   transact_time |-> 0]

\* The events that go to on_market_data; for the others the server has no use.
IsMarketData(e) == e.type \in {"mbo_book_update", "trade", "execution_summary"}

MessageOf(e) ==
  CASE e.type = "mbo_book_update" -> BookUpdate(e)
    [] e.type = "trade" -> TradeMessage(e)
    [] e.type = "execution_summary" -> SummaryMessage(e)

\* What a step of a handler posts: of the events that it adds to those before.
Posted(before, es) == {i \in DOMAIN es : i > Len(before) /\ IsMarketData(es[i])}

\* The positions in increasing order; there is exactly one such listing.
Listings(positions) ==
  {at \in [1 .. Cardinality(positions) -> positions] :
     /\ \A i, j \in DOMAIN at : i < j => at[i] < at[j]
     /\ \A n \in positions : \E i \in DOMAIN at : at[i] = n}

-----------------------------------------------------------------------------
(* The engine's task and the publisher's *)

EngineStep ==
  /\ \/ /\ Len(pending) < MaxPending
        /\ \E r \in Requests : Send(r)
     \/ Fill
     \/ Settle
  /\ \E at \in Listings(Posted(events, events')) :
       pending' = pending \o [i \in DOMAIN at |-> MessageOf(events'[at[i]])]
  /\ UNCHANGED <<known, late>>

EngineReturn == Return /\ UNCHANGED feedVars

\* publisher::send takes any message; reference data and instrument states have
\* no producer in the server yet.
Announce ==
  /\ Len(pending) < MaxPending
  /\ \E m \in Announcements : pending' = Append(pending, m)
  /\ UNCHANGED <<vars, known, late>>

\* A subscriber to the JSON lines: it keeps the last update of each book side.
ReadJson(tops, line) ==
  [k \in BookSide |->
     IF /\ line["message_type"] = <<"string", "mbo_book_update">>
        /\ k = <<line["security_id"][2], line["side"][2]>>
     THEN IF line["update_action"] = <<"string", "delete_order">> THEN None
          ELSE [price |-> line["price"][2], total_quantity |-> line["quantity"][2]]
     ELSE tops[k]]

\* A subscriber to the FIX-shaped messages, in the codes of the venue.
ReadFix(tops, m) ==
  [k \in BookSide |->
     IF /\ m["message_type"] = "mbo_book_update"
        /\ k[1] = MD!to_fix(m)["security_id"]
        /\ (k[2] = "buy") = (MD!normalize["side"][MD!to_fix(m)["side"]] = "0")
     THEN IF MD!normalize["update_action"][MD!to_fix(m)["update_action"]] = "2" THEN None
          ELSE [price |-> MD!to_fix(m)["price"],
                total_quantity |-> MD!to_fix(m)["quantity"]]
     ELSE tops[k]]

\* publisher::send on the output loop: encode and write, in the order of the
\* queue; the sinks flush every record, so subscribers read it at once.
Publish ==
  /\ pending # << >>
  /\ LET m == Head(pending)
     IN known' =
          [known EXCEPT
             !["market_data"] = ReadJson(@, MD!encode(m)),
             !["mmd_json"] = ReadJson(@, MD!mmd_encode(MD!to_mmd(m))),
             !["mmdfix"] = ReadFix(@, MD!to_mmd(m))]
  /\ pending' = Tail(pending)
  /\ UNCHANGED <<vars, late>>

\* Subscribers start, or start again, and have read nothing yet.
Attach ==
  /\ known' = [feed \in Feeds |-> [k \in BookSide |-> Unknown]]
  /\ late' = TRUE
  /\ UNCHANGED <<vars, pending>>

FeedNext ==
  \/ EngineStep
  \/ EngineReturn
  \/ Announce
  \/ Publish
  \/ Attach

FeedSpec == FeedInit /\ [][FeedNext]_allVars

-----------------------------------------------------------------------------
(* Properties *)

\* Only whole messages are posted, whatever the engine's events leave out.
FeedTypeOK ==
  /\ \A i \in DOMAIN pending : MD!IsMessage(pending[i])
  /\ known \in [Feeds -> [BookSide -> LevelSnapshot \cup {None, Unknown}]]
  /\ late \in BOOLEAN

\* The engine rests and everything that it has posted is published.
Quiet == pc = "idle" /\ pending = << >>

\* The two JSON feeds are the same line by line, although the second one goes
\* through the normalized messages of another module, with conversions and an
\* encoder of their own: mmd_json "preserves the phase 5 JSONL record shape"
\* (src/src/mmd_json/README.md:3-5).  Nothing of the message is lost on the way,
\* and every field of it is a member of the line.
SameRecords ==
  \A i \in DOMAIN pending :
    /\ DOMAIN MD!encode(pending[i]) = DOMAIN pending[i]
    /\ MD!encode(pending[i]) = MD!mmd_encode(MD!to_mmd(pending[i]))
    /\ MD!to_market_data(MD!to_mmd(pending[i])) = pending[i]

\* The books that may be traded under a security_id.  Every book has one id, but
\* books may share one: the default of json_decoder.cpp:35-38 is 0 for all.
BooksUnder(id) ==
  {symbol \in BookSymbols :
     \E r \in Requests : /\ r.type \in {"new_order_single", "replace_order"}
                         /\ r.symbol = symbol /\ r.security_id = id}

OneIdPerBook ==
  \A i, j \in SecurityIds : i # j => BooksUnder(i) \cap BooksUnder(j) = {}

\* What a subscriber makes of a book side that it has no update for: empty, if
\* it has read the feed from the start.
Believed(feed, k) ==
  IF known[feed][k] = Unknown /\ ~late THEN None ELSE known[feed][k]

\* At rest, what a subscriber knows about a book side is its present top, also
\* for one that attached late or reads the lossy FIX form: every update stands
\* for itself, and none is missing.  Where books share a security_id, as the
\* decoder's default makes them, the subscriber holds the present top of one of
\* them, and cannot tell of which one; the flush is silent, and after it the
\* true top is empty (engine.cpp:433-455, json_decoder.cpp:35-38).
SubscriberKnowsATop ==
  Quiet /\ OneIdPerBook =>
    \A feed \in Feeds, k \in BookSide :
      Believed(feed, k) # Unknown /\ BooksUnder(k[1]) # {} =>
        \E symbol \in BooksUnder(k[1]) :
          best_level(levels, symbol, k[2]) =
            IF k \in flushed THEN None ELSE Believed(feed, k)

=============================================================================
