----------------------------- MODULE JsonCodec -----------------------------
(***************************************************************************)
(* The order-entry wire codec: the JSON decoder of the server and of the   *)
(* client (src/src/order_entry/src/json_decoder.cpp) and the encoder of    *)
(* the client (src/src/order_client/src/json_encoder.cpp).                 *)
(*                                                                         *)
(* A JSON document is a function from member names to values, a value a    *)
(* pair of its JSON type and its contents.  A request is a function from   *)
(* its fields to typed values, so that the three decode_* and the four     *)
(* encode functions, which go field by field, are one definition each.     *)
(* Numbers are integers; a fractional one would be cut to its integral     *)
(* part.                                                                   *)
(***************************************************************************)
EXTENDS Integers, FiniteSets

CONSTANTS
  UintMod,        \* fields are unsigned integers modulo UintMod
  SymbolNames,    \* strings of at most 16 characters
  ExchangeNames   \* strings of at most 8 characters

Uints == {"client_id", "cl_ord_id", "orig_cl_ord_id", "security_id", "order_qty",
          "price"}

Terms == {"security_id", "symbol", "security_exchange", "side", "ord_type",
          "time_in_force", "order_qty", "price"}

\* The members that each message type has on the wire.
Members ==
  [new_order_single |-> {"message_type", "client_id", "cl_ord_id"} \cup Terms,
   replace_order |->
     {"message_type", "client_id", "cl_ord_id", "orig_cl_ord_id"} \cup Terms,
   cancel_order |-> {"message_type", "client_id", "cl_ord_id", "orig_cl_ord_id"},
   flush |-> {"message_type"}]

\* Members that a client may leave out.
Optional == {"security_id", "security_exchange", "ord_type", "time_in_force"}

\* The strings that are accepted for each member that is not a number.
Tokens ==
  [message_type |-> DOMAIN Members,
   symbol |-> SymbolNames,
   security_exchange |-> ExchangeNames,
   side |-> {"buy", "sell"},
   ord_type |-> {"market", "limit"},
   time_in_force |-> {"day", "ioc"}]

ASSUME CodecAssumption ==
  /\ UintMod \in Nat \ {0}
  /\ "BVMF" \in ExchangeNames

Value(f) == IF f \in Uints THEN 0 .. UintMod - 1 ELSE Tokens[f]

\* The values of order_entry::request.
IsRequest(r) ==
  \E t \in DOMAIN Members :
    /\ DOMAIN r = Members[t]
    /\ r = [f \in Members[t] |-> r[f]]
    /\ r["message_type"] = t
    /\ \A f \in Members[t] : r[f] \in Value(f)

\* The failed lab::result; the decoder knows no other error.
Failure == [error |-> "parser_error"]

-----------------------------------------------------------------------------
(* Payloads: a line of input or a datagram. *)

\* "empty" has no characters, "blank" only white space, "text" is not a JSON
\* object; a document has members.  Its size is counted in members.
Payload(kind, members) == [kind |-> kind, members |-> members]

Size(payload) == Cardinality(DOMAIN payload.members)

-----------------------------------------------------------------------------
(* json_decoder.cpp *)

\* json::get does not throw: any number will do, a string must be accepted.
Readable(f, j) ==
  IF f \in Uints THEN j[1] = "number" ELSE j[1] = "string" /\ j[2] \in Tokens[f]

\* Faulty variant: the sign is kept.
ReadSigned(f, j) == j[2]

\* json::get: a negative number becomes an unsigned one.
Read(f, j) == IF f \in Uints THEN j[2] % UintMod ELSE j[2]

\* Faulty variant: the order type is taken to be a limit.
FallbackLimit(f, price) ==
  CASE f = "security_id" -> 0
    [] f = "security_exchange" -> "BVMF"
    [] f = "ord_type" -> "limit"
    [] f = "time_in_force" -> IF price = 0 THEN "ioc" ELSE "day"

\* What a missing optional member stands for; a price of 0 means market.
Fallback(f, price) ==
  CASE f = "security_id" -> 0
    [] f = "security_exchange" -> "BVMF"
    [] f = "ord_type" -> IF price = 0 THEN "market" ELSE "limit"
    [] f = "time_in_force" -> IF price = 0 THEN "ioc" ELSE "day"

\* No required member is missing and none that is read has a bad value;
\* members that the message type does not have are not looked at.
Decodable(doc) ==
  /\ "message_type" \in DOMAIN doc
  /\ Readable("message_type", doc["message_type"])
  /\ LET members == Members[doc["message_type"][2]]
     IN /\ members \ Optional \subseteq DOMAIN doc
        /\ \A f \in members \cap DOMAIN doc : Readable(f, doc[f])

decode_members(doc) ==
  [f \in Members[doc["message_type"][2]] |->
     IF f \in DOMAIN doc THEN Read(f, doc[f])
     ELSE Fallback(f, Read("price", doc["price"]))]

\* json_decoder::decode, with a configured maximum size.
decode(payload, max_datagram_size) ==
  IF /\ Size(payload) <= max_datagram_size
     /\ payload.kind = "document"
     /\ Decodable(payload.members)
  THEN decode_members(payload.members)
  ELSE Failure

-----------------------------------------------------------------------------
(* json_encoder.cpp of the client *)

\* Faulty variant: the time in force is left to the decoder's default.
encodeShort(r) ==
  Payload("document",
    [f \in DOMAIN r \ {"time_in_force"} |->
       <<IF f \in Uints THEN "number" ELSE "string", r[f]>>])

\* Every field is written out, the ones that were defaulted too.
encode(r) ==
  Payload("document",
    [f \in DOMAIN r |-> <<IF f \in Uints THEN "number" ELSE "string", r[f]>>])

=============================================================================
