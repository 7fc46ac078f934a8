-------------------------- MODULE MarketDataCodec --------------------------
(***************************************************************************)
(* Market-data messages and their encodings: the messages and the JSON     *)
(* encoder of src/src/market_data, the normalized copies of both in        *)
(* src/src/mmd and src/src/mmd_json, and the FIX-shaped forms of           *)
(* src/src/mmdfix with the B3 codes of src/src/ospec.                      *)
(*                                                                         *)
(* A message is a function from its fields to values; an enumerator is its *)
(* name and std::nullopt is None.  An encoded record is a function from    *)
(* member names to pairs of a JSON type and the contents.                  *)
(***************************************************************************)
EXTENDS Integers

CONSTANTS None

\* The fields of each alternative of market_data::message.
Fields ==
  [security_definition |->
     {"security_id", "symbol", "security_exchange", "security_group", "security_type",
      "security_subtype", "min_price_increment", "round_lot", "currency"},
   security_status |->
     {"security_id", "security_exchange", "trading_session_id",
      "security_trading_status", "security_trading_event", "transact_time"},
   execution_summary |->
     {"security_id", "aggressor_side", "last_px", "fill_qty", "traded_hidden_qty",
      "cancel_qty", "aggressor_time", "transact_time"},
   trade |->
     {"security_id", "trade_id", "price", "quantity", "buyer", "seller",
      "trade_condition", "trade_sub_type", "trade_date", "transact_time"},
   mbo_book_update |->
     {"security_id", "update_action", "side", "resting_order_id", "price", "quantity",
      "previous_quantity", "transact_time"}]

\* Fields that are std::optional.
Nullable ==
  {"security_subtype", "traded_hidden_qty", "cancel_qty", "buyer", "seller",
   "trade_sub_type", "previous_quantity"}

Enumerators ==
  [side |-> {"buy", "sell"},
   aggressor_side |-> {"buy", "sell"},
   update_action |-> {"new_order", "change", "delete_order"},
   security_trading_status |-> {"open", "closed", "halted"},
   security_trading_event |-> {"none", "trading_resume", "trading_halt"},
   trade_condition |-> {"regular"},
   trade_sub_type |-> {"regular"}]

\* Fields that are fixed_strings; the other ones are unsigned integers.
Strings ==
  {"symbol", "security_exchange", "security_group", "security_type",
   "security_subtype", "currency", "trading_session_id", "trade_date"}

\* Price and quantity are optional in a book update only.
IsMessage(m) ==
  \E t \in DOMAIN Fields :
    /\ m = [f \in DOMAIN m |-> m[f]]
    /\ DOMAIN m = Fields[t] \cup {"message_type"}
    /\ m["message_type"] = t
    /\ \A f \in Fields[t] :
         \/ /\ m[f] = None
            /\ f \in Nullable \/ (t = "mbo_book_update" /\ f \in {"price", "quantity"})
         \/ /\ m[f] # None
            /\ f \in DOMAIN Enumerators => m[f] \in Enumerators[f]
            /\ f \notin DOMAIN Enumerators \cup Strings => m[f] \in Nat

-----------------------------------------------------------------------------
(* market_data/src/json_encoder.cpp *)

\* encode_side and its siblings.
token ==
  [side |-> [buy |-> "buy", sell |-> "sell"],
   aggressor_side |-> [buy |-> "buy", sell |-> "sell"],
   update_action |-> [new_order |-> "new_order", change |-> "change",
                      delete_order |-> "delete_order"],
   security_trading_status |-> [open |-> "open", closed |-> "closed", halted |-> "halted"],
   security_trading_event |-> [none |-> "none", trading_resume |-> "trading_resume",
                               trading_halt |-> "trading_halt"],
   trade_condition |-> [regular |-> "regular"],
   trade_sub_type |-> [regular |-> "regular"]]

\* The JSON value of a field, with the tokens of either encoder.
json_value(f, v, tokens) ==
  CASE v = None -> <<"null", None>>
    [] v # None /\ f \in DOMAIN tokens -> <<"string", tokens[f][v]>>
    [] v # None /\ f \in Strings -> <<"string", v>>
    [] OTHER -> <<"number", v>>

\* The members that each encode_* function names, next to message_type.
json_members ==
  [security_definition |->
     {"security_id", "symbol", "security_exchange", "security_group", "security_type",
      "security_subtype", "min_price_increment", "round_lot", "currency"},
   security_status |->
     {"security_id", "security_exchange", "trading_session_id",
      "security_trading_status", "security_trading_event", "transact_time"},
   execution_summary |->
     {"security_id", "aggressor_side", "last_px", "fill_qty", "traded_hidden_qty",
      "cancel_qty", "aggressor_time", "transact_time"},
   trade |->
     {"security_id", "trade_id", "price", "quantity", "buyer", "seller",
      "trade_condition", "trade_sub_type", "trade_date", "transact_time"},
   mbo_book_update |->
     {"security_id", "update_action", "side", "resting_order_id", "price", "quantity",
      "previous_quantity", "transact_time"}]

\* The encode_* functions: message_type and the named members, absent values as
\* null.
encode(m) ==
  [f \in json_members[m["message_type"]] \cup {"message_type"} |->
     IF f = "message_type" THEN <<"string", m[f]>> ELSE json_value(f, m[f], token)]

-----------------------------------------------------------------------------
(* mmd/src/conversions.cpp *)

\* The fields of mmd::message, from a header of its own.
mmd_fields ==
  [security_definition |->
     {"security_id", "symbol", "security_exchange", "security_group", "security_type",
      "security_subtype", "min_price_increment", "round_lot", "currency"},
   security_status |->
     {"security_id", "security_exchange", "trading_session_id",
      "security_trading_status", "security_trading_event", "transact_time"},
   execution_summary |->
     {"security_id", "aggressor_side", "last_px", "fill_qty", "traded_hidden_qty",
      "cancel_qty", "aggressor_time", "transact_time"},
   trade |->
     {"security_id", "trade_id", "price", "quantity", "buyer", "seller",
      "trade_condition", "trade_sub_type", "trade_date", "transact_time"},
   mbo_book_update |->
     {"security_id", "update_action", "side", "resting_order_id", "price", "quantity",
      "previous_quantity", "transact_time"}]

to_mmd(m) == [f \in mmd_fields[m["message_type"]] \cup {"message_type"} |-> m[f]]

to_market_data(m) == [f \in Fields[m["message_type"]] \cup {"message_type"} |-> m[f]]

-----------------------------------------------------------------------------
(* mmd_json/src/json_encoder.cpp *)

mmd_token ==
  [side |-> [buy |-> "buy", sell |-> "sell"],
   aggressor_side |-> [buy |-> "buy", sell |-> "sell"],
   update_action |-> [new_order |-> "new_order", change |-> "change",
                      delete_order |-> "delete_order"],
   security_trading_status |-> [open |-> "open", closed |-> "closed", halted |-> "halted"],
   security_trading_event |-> [none |-> "none", trading_resume |-> "trading_resume",
                               trading_halt |-> "trading_halt"],
   trade_condition |-> [regular |-> "regular"],
   trade_sub_type |-> [regular |-> "regular"]]

\* The members that the encode_* functions of this file name.
mmd_json_members ==
  [security_definition |->
     {"security_id", "symbol", "security_exchange", "security_group", "security_type",
      "security_subtype", "min_price_increment", "round_lot", "currency"},
   security_status |->
     {"security_id", "security_exchange", "trading_session_id",
      "security_trading_status", "security_trading_event", "transact_time"},
   execution_summary |->
     {"security_id", "aggressor_side", "last_px", "fill_qty", "traded_hidden_qty",
      "cancel_qty", "aggressor_time", "transact_time"},
   trade |->
     {"security_id", "trade_id", "price", "quantity", "buyer", "seller",
      "trade_condition", "trade_sub_type", "trade_date", "transact_time"},
   mbo_book_update |->
     {"security_id", "update_action", "side", "resting_order_id", "price", "quantity",
      "previous_quantity", "transact_time"}]

\* Faulty variant: encode_trade forgets a member.
mmd_encodeForgets(m) ==
  [f \in (mmd_json_members[m["message_type"]] \ {"buyer"}) \cup {"message_type"} |->
     IF f = "message_type" THEN <<"string", m[f]>> ELSE json_value(f, m[f], mmd_token)]

mmd_encode(m) ==
  [f \in mmd_json_members[m["message_type"]] \cup {"message_type"} |->
     IF f = "message_type" THEN <<"string", m[f]>> ELSE json_value(f, m[f], mmd_token)]

-----------------------------------------------------------------------------
(* mmdfix/src/conversions.cpp and ospec/src/b3.cpp *)

\* The two kinds of event that have a FIX form, and what it keeps of them.
fix_fields ==
  [mbo_book_update |->
     {"security_id", "side", "update_action", "price", "quantity", "transact_time"},
   trade |->
     {"security_id", "trade_id", "price", "quantity", "trade_date", "transact_time"}]

to_fix(m) == [f \in fix_fields[m["message_type"]] |-> m[f]]

\* MDEntryType, MDUpdateAction and TradeCondition of the venue.
normalize ==
  [side |-> [buy |-> "0", sell |-> "1"],
   update_action |-> [new_order |-> "0", change |-> "1", delete_order |-> "2"],
   trade_condition |-> [regular |-> "0"]]

=============================================================================
