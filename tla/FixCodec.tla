------------------------------ MODULE FixCodec ------------------------------
(***************************************************************************)
(* The layers of the FIX order-routing stack: the normalized messages of   *)
(* mor, the FIX-shaped ones of morfix, the tag-value messages of           *)
(* quickfix_fix, and the B3 codes of ospec that the codecs of              *)
(* morfix_quickfix write and read.                                         *)
(*                                                                         *)
(* At every layer a message is a function from its fields to values; an    *)
(* empty std::optional is a field that is not there.  The conversions go   *)
(* field by field, so each is one definition over all message types.  On   *)
(* the wire an integer is <<"digits", n>>, and a code, a name or a text is *)
(* <<"text", s>>; no name or text consists of digits only.                 *)
(***************************************************************************)
EXTENDS JsonCodec

CONSTANT Texts    \* free texts

\* A text that is left out is read as the empty one.
ASSUME TextsAssumption == "" \in Texts

-----------------------------------------------------------------------------
(* order_entry/messages.hpp: the events, beside the requests of JsonCodec *)

EventMembers ==
  [execution_report |->
     {"message_type", "client_id", "cl_ord_id", "orig_cl_ord_id", "order_id", "exec_id",
      "security_id", "symbol", "security_exchange", "side", "ord_type",
      "time_in_force", "exec_type", "ord_status", "order_qty", "cum_qty",
      "leaves_qty", "last_qty", "last_px", "avg_px", "transact_time",
      "reject_reason", "text"},
   cancel_reject |->
     {"message_type", "client_id", "cl_ord_id", "orig_cl_ord_id", "reject_reason",
      "text", "transact_time"}]

\* The members of type std::optional.
Optionals ==
  [execution_report |-> {"orig_cl_ord_id", "last_qty", "last_px", "avg_px", "reject_reason"},
   cancel_reject |-> {}]

Integral ==
  Uints \cup {"account", "order_id", "exec_id", "cum_qty", "leaves_qty", "last_qty",
              "last_px", "avg_px", "transact_time"}

-----------------------------------------------------------------------------
(* ospec/b3.cpp and b3.hpp *)

normalize ==
  [side |-> [buy |-> "1", sell |-> "2"],
   ord_type |-> [market |-> "1", limit |-> "2"],
   time_in_force |-> [day |-> "0", ioc |-> "3"],
   exec_type |-> [new_order |-> "0", replaced |-> "5", canceled |-> "4", trade |-> "F",
                  rejected |-> "8", expired |-> "C"],
   ord_status |-> [new_order |-> "0", partially_filled |-> "1", filled |-> "2",
                   canceled |-> "4", replaced |-> "5", rejected |-> "8",
                   expired |-> "C"],
   reject_reason |-> [unknown_order |-> "1", duplicate_order |-> "6",
                      unknown_symbol |-> "1", unsupported_request |-> "99"]]

\* Faulty variant: a replaced order is read as one that was cancelled.
parseReplaced ==
  [side |-> {<<"1", "buy">>, <<"2", "sell">>},
   ord_type |-> {<<"1", "market">>, <<"2", "limit">>},
   time_in_force |-> {<<"0", "day">>, <<"3", "ioc">>},
   exec_type |-> {<<"0", "new_order">>, <<"5", "canceled">>, <<"4", "canceled">>,
                  <<"F", "trade">>, <<"8", "rejected">>, <<"C", "expired">>},
   ord_status |-> {<<"0", "new_order">>, <<"1", "partially_filled">>, <<"2", "filled">>,
                   <<"4", "canceled">>, <<"5", "replaced">>, <<"8", "rejected">>,
                   <<"C", "expired">>},
   reject_reason |-> {<<"1", "unknown_order">>, <<"6", "duplicate_order">>,
                      <<"99", "unsupported_request">>}]

\* parse_side and its siblings, as pairs of a code and what it stands for.
parse ==
  [side |-> {<<"1", "buy">>, <<"2", "sell">>},
   ord_type |-> {<<"1", "market">>, <<"2", "limit">>},
   time_in_force |-> {<<"0", "day">>, <<"3", "ioc">>},
   exec_type |-> {<<"0", "new_order">>, <<"5", "replaced">>, <<"4", "canceled">>,
                  <<"F", "trade">>, <<"8", "rejected">>, <<"C", "expired">>},
   ord_status |-> {<<"0", "new_order">>, <<"1", "partially_filled">>, <<"2", "filled">>,
                   <<"4", "canceled">>, <<"5", "replaced">>, <<"8", "rejected">>,
                   <<"C", "expired">>},
   reject_reason |-> {<<"1", "unknown_order">>, <<"6", "duplicate_order">>,
                      <<"99", "unsupported_request">>}]

tag ==
  [account |-> 1, avg_px |-> 6, cum_qty |-> 14, cl_ord_id |-> 11, last_px |-> 31,
   last_qty |-> 32, order_id |-> 37, orig_cl_ord_id |-> 41, order_qty |-> 38,
   ord_status |-> 39, ord_type |-> 40, price |-> 44, security_id |-> 48, text |-> 58,
   side |-> 54, symbol |-> 55, time_in_force |-> 59, transact_time |-> 60,
   reject_reason |-> 102, leaves_qty |-> 151, security_exchange |-> 207,
   exec_id |-> 17, exec_type |-> 150]

\* The values of a field of an event.
EventValue(f) ==
  CASE f \in Integral -> 0 .. UintMod - 1
    [] f \in DOMAIN normalize -> DOMAIN normalize[f]
    [] f = "text" -> Texts
    [] f = "message_type" -> DOMAIN EventMembers
    [] OTHER -> Tokens[f]

IsEvent(e) ==
  \E t \in DOMAIN EventMembers :
    /\ EventMembers[t] \ Optionals[t] \subseteq DOMAIN e
    /\ DOMAIN e \subseteq EventMembers[t]
    /\ e["message_type"] = t
    /\ \A f \in DOMAIN e : e[f] \in EventValue(f)

-----------------------------------------------------------------------------
(* mor/conversions.cpp and morfix/conversions.cpp *)

mor_type ==
  [new_order_single |-> "new_order_single", replace_order |-> "replace_request",
   cancel_order |-> "cancel_request", flush |-> "flush_request",
   execution_report |-> "execution_report", cancel_reject |-> "cancel_reject"]

\* flush_request and parser_reject have no FIX form.
fix_type ==
  [new_order_single |-> "new_order_single",
   replace_request |-> "order_cancel_replace_request",
   cancel_request |-> "order_cancel_request",
   execution_report |-> "execution_report", cancel_reject |-> "order_cancel_reject"]

Converted(m, type) == [m EXCEPT !["message_type"] = type[@]]

\* The unique name that a table gives the value v.
NameOf(table, v) == CHOOSE n \in DOMAIN table : table[n] = v

Reverted(m, type) == [m EXCEPT !["message_type"] = NameOf(type, @)]

\* The field "from" goes by the name "to".
Renamed(m, from, to) ==
  [f \in (DOMAIN m \ {from}) \cup {to} |-> IF f = to THEN m[from] ELSE m[f]]

to_mor(m) == Converted(m, mor_type)

HasFixForm(m) == m["message_type"] \in DOMAIN fix_type

to_fix(m) == Renamed(Converted(m, fix_type), "client_id", "account")

mor_of_fix(m) == Reverted(Renamed(m, "account", "client_id"), fix_type)

to_order_entry(m) == Reverted(m, mor_type)

-----------------------------------------------------------------------------
(* morfix_quickfix/codecs.cpp *)

msg_type ==
  [new_order_single |-> "D", order_cancel_replace_request |-> "G",
   order_cancel_request |-> "F", execution_report |-> "8",
   order_cancel_reject |-> "9"]

as_field_value(f, v) ==
  CASE f \in DOMAIN normalize -> <<"text", normalize[f][v]>>
    [] f \in Integral -> <<"digits", v>>
    [] OTHER -> <<"text", v>>

\* Fields that message::set writes; an empty text is left out.
Written(m) == {f \in DOMAIN m \ {"message_type"} : f = "text" => m[f] # ""}

\* initiator::encode and acceptor::encode
encode_message(m) ==
  [msg_type |-> msg_type[m["message_type"]],
   fields |-> [n \in {tag[f] : f \in Written(m)} |->
                 as_field_value(NameOf(tag, n), m[NameOf(tag, n)])]]

Invalid == [error |-> "invalid_argument"]
Unsupported == [error |-> "unsupported_message"]

\* The fields of each message type, and the ones that may be missing.
FixMembers(t) ==
  LET order_entry_type == NameOf(mor_type, NameOf(fix_type, t))
      members == IF order_entry_type \in DOMAIN Members THEN Members[order_entry_type]
                 ELSE EventMembers[order_entry_type]
  IN (members \ {"client_id", "message_type"}) \cup {"account"}

MayLack(t) ==
  IF t = "execution_report" THEN Optionals["execution_report"] \cup {"text"}
  ELSE {"text"}

\* Faulty variant: an integer may have any value.
ParsableAny(f, w) ==
  CASE f \in DOMAIN parse -> w[1] = "text" /\ \E p \in parse[f] : p[1] = w[2]
    [] f \in Integral -> w[1] = "digits"
    [] OTHER -> /\ w[1] = "text" /\ w[2] # ""
                /\ f = "text" \/ w[2] \in Tokens[f]

\* get_required: the value is not empty and parse_field_value takes it.
Parsable(f, w) ==
  CASE f \in DOMAIN parse -> w[1] = "text" /\ \E p \in parse[f] : p[1] = w[2]
    [] f \in Integral -> w[1] = "digits" /\ w[2] \in 0 .. UintMod - 1
    [] OTHER -> /\ w[1] = "text" /\ w[2] # ""
                /\ f = "text" \/ w[2] \in Tokens[f]

ParsedValue(f, w) ==
  IF f \in DOMAIN parse THEN (CHOOSE p \in parse[f] : p[1] = w[2])[2] ELSE w[2]

\* The decode_* functions of the five message types.
decode_fields(t, fields) ==
  LET present == {f \in FixMembers(t) : tag[f] \in DOMAIN fields}
      always == {"message_type"} \cup ({"text"} \cap FixMembers(t))
  IN IF /\ FixMembers(t) \ MayLack(t) \subseteq present
        /\ \A f \in present : Parsable(f, fields[tag[f]])
     THEN [f \in present \cup always |->
             IF f = "message_type" THEN t
             ELSE IF f \in present THEN ParsedValue(f, fields[tag[f]]) ELSE ""]
     ELSE Invalid

\* acceptor::decode and initiator::decode, for the message types of each.
decode_message(message, types) ==
  IF \E t \in types : msg_type[t] = message.msg_type
  THEN decode_fields(CHOOSE t \in types : msg_type[t] = message.msg_type, message.fields)
  ELSE Unsupported

=============================================================================
