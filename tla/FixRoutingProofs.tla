-------------------------- MODULE FixRoutingProofs --------------------------
(***************************************************************************)
(* Proofs about FixRouting, in three parts: what the tables and the codecs *)
(* of FixCodec do to any message (RoundTrip for a message of the stack's   *)
(* own, DecodedWell for one that any encoder has made), the inductive      *)
(* invariant RoutingInv of a connection, and the three invariants of       *)
(* FixRouting as theorems of Spec.                                         *)
(***************************************************************************)
EXTENDS FixRouting, SequenceTheorems, FiniteSetTheorems, WellFoundedInduction, TLAPS

\* No two fields have the same tag.
LEMMA TagInjective ==
  ASSUME NEW f \in DOMAIN tag, NEW g \in DOMAIN tag, tag[f] = tag[g]
  PROVE  f = g
BY DEF tag

\* A table without equal values names every one of them.
LEMMA NameOfEntry ==
  ASSUME NEW table, NEW n \in DOMAIN table,
         \A k \in DOMAIN table : table[k] = table[n] => k = n
  PROVE  NameOf(table, table[n]) = n
BY DEF NameOf

\* No two types have the same name in mor.
LEMMA MorInjective ==
  ASSUME NEW f \in DOMAIN mor_type, NEW g \in DOMAIN mor_type, mor_type[f] = mor_type[g]
  PROVE  f = g
BY DEF mor_type

\* No two types have the same name in morfix.
LEMMA FixInjective ==
  ASSUME NEW f \in DOMAIN fix_type, NEW g \in DOMAIN fix_type, fix_type[f] = fix_type[g]
  PROVE  f = g
BY DEF fix_type

\* No two types have the same msg_type.
LEMMA MsgTypeInjective ==
  ASSUME NEW f \in DOMAIN msg_type, NEW g \in DOMAIN msg_type, msg_type[f] = msg_type[g]
  PROVE  f = g
BY DEF msg_type

\* How a value comes back: B3 has one code for two reasons.
ReadBack(f, v) ==
  IF f = "reject_reason" /\ v = "unknown_symbol" THEN "unknown_order" ELSE v

\* What b3 writes for a value, b3 reads as that value.
LEMMA ParseNormalized ==
  ASSUME NEW f \in DOMAIN normalize, NEW v \in DOMAIN normalize[f]
  PROVE  <<normalize[f][v], ReadBack(f, v)>> \in parse[f]
<1>1. f \in {"side", "ord_type", "time_in_force", "exec_type", "ord_status", "reject_reason"}
  BY DEF normalize
<1>2. CASE f = "side"
  BY <1>2 DEF normalize, parse, ReadBack
<1>3. CASE f = "ord_type"
  BY <1>3 DEF normalize, parse, ReadBack
<1>4. CASE f = "time_in_force"
  BY <1>4 DEF normalize, parse, ReadBack
<1>5. CASE f = "exec_type"
  BY <1>5 DEF normalize, parse, ReadBack
<1>6. CASE f = "ord_status"
  BY <1>6 DEF normalize, parse, ReadBack
<1>7. CASE f = "reject_reason"
  BY <1>7 DEF normalize, parse, ReadBack
<1>8. QED
  BY <1>1, <1>2, <1>3, <1>4, <1>5, <1>6, <1>7

\* No two pairs of b3 have the same code.
LEMMA ParseUnique ==
  ASSUME NEW f \in DOMAIN parse, NEW p \in parse[f], NEW q \in parse[f], p[1] = q[1]
  PROVE  p = q
BY DEF parse

-----------------------------------------------------------------------------
(* The message types *)

\* The order_entry messages that have a FIX form, and that form.
Types == {"new_order_single", "replace_order", "cancel_order", "execution_report",
          "cancel_reject"}

FixOf(t) == fix_type[mor_type[t]]

AllOf(t) == IF t \in DOMAIN Members THEN Members[t] ELSE EventMembers[t]

OptOf(t) == IF t \in DOMAIN Members THEN {} ELSE Optionals[t]

\* Its fields in FIX.
FieldsOf(t) == (AllOf(t) \ {"client_id", "message_type"}) \cup {"account"}

Names == {"symbol", "security_exchange", "text"}

\* The names of a type at the three layers lead back to it.
LEMMA TypeNames ==
  ASSUME NEW t \in Types
  PROVE  /\ t \in DOMAIN mor_type /\ mor_type[t] \in DOMAIN fix_type
         /\ FixOf(t) \in DOMAIN msg_type
         /\ NameOf(fix_type, FixOf(t)) = mor_type[t]
         /\ NameOf(mor_type, mor_type[t]) = t
<1>1. t \in DOMAIN mor_type /\ mor_type[t] \in DOMAIN fix_type /\ FixOf(t) \in DOMAIN msg_type
  BY DEF Types, mor_type, fix_type, msg_type, FixOf
<1>2. NameOf(fix_type, FixOf(t)) = mor_type[t]
  BY <1>1, FixInjective, NameOfEntry DEF FixOf
<1>3. NameOf(mor_type, mor_type[t]) = t
  BY <1>1, MorInjective, NameOfEntry
<1>4. QED
  BY <1>1, <1>2, <1>3

\* What each end decodes is what the other sends.
LEMMA InboundTypes ==
  /\ Inbound["acceptor"] = {FixOf(t) : t \in {"new_order_single", "replace_order", "cancel_order"}}
  /\ Inbound["initiator"] = {FixOf(t) : t \in {"execution_report", "cancel_reject"}}
BY DEF Inbound, FixOf, mor_type, fix_type

\* The members of the types.
LEMMA MembersByType ==
  /\ DOMAIN Members = {"new_order_single", "replace_order", "cancel_order", "flush"}
  /\ DOMAIN EventMembers = {"execution_report", "cancel_reject"}
  /\ AllOf("new_order_single") = Members["new_order_single"]
  /\ AllOf("replace_order") = Members["replace_order"]
  /\ AllOf("cancel_order") = Members["cancel_order"]
  /\ AllOf("execution_report") = EventMembers["execution_report"]
  /\ AllOf("cancel_reject") = EventMembers["cancel_reject"]
  /\ OptOf("new_order_single") = {} /\ OptOf("replace_order") = {} /\ OptOf("cancel_order") = {}
  /\ OptOf("execution_report") = Optionals["execution_report"] /\ OptOf("cancel_reject") = {}
<1>1. /\ DOMAIN Members = {"new_order_single", "replace_order", "cancel_order", "flush"}
      /\ DOMAIN EventMembers = {"execution_report", "cancel_reject"}
      /\ Optionals["cancel_reject"] = {}
  BY DEF Members, EventMembers, Optionals
<1>2. QED
  BY <1>1 DEF AllOf, OptOf

\* Every field of a FIX message has a tag and one of three kinds of value.
LEMMA FieldFacts ==
  ASSUME NEW t \in Types
  PROVE  /\ {"message_type", "client_id", "cl_ord_id"} \subseteq AllOf(t) \ OptOf(t)
         /\ "account" \notin AllOf(t) /\ "account" \notin OptOf(t) /\ "text" \notin OptOf(t)
         /\ FieldsOf(t) \subseteq DOMAIN tag
         /\ FieldsOf(t) \subseteq DOMAIN normalize \cup Integral \cup Names
<1>1. CASE t = "new_order_single"
  BY <1>1, MembersByType
  DEF Members, Terms, FieldsOf, tag, normalize, Integral, Uints, Names
<1>2. CASE t = "replace_order"
  BY <1>2, MembersByType
  DEF Members, Terms, FieldsOf, tag, normalize, Integral, Uints, Names
<1>3. CASE t = "cancel_order"
  BY <1>3, MembersByType
  DEF Members, Terms, FieldsOf, tag, normalize, Integral, Uints, Names
<1>4. CASE t = "execution_report"
  BY <1>4, MembersByType
  DEF EventMembers, Optionals, FieldsOf, tag, normalize, Integral, Uints, Names
<1>5. CASE t = "cancel_reject"
  BY <1>5, MembersByType
  DEF EventMembers, Optionals, FieldsOf, tag, normalize, Integral, Uints, Names
<1>6. QED
  BY <1>1, <1>2, <1>3, <1>4, <1>5 DEF Types

\* The kinds of value do not overlap.
LEMMA KindsApart ==
  /\ DOMAIN parse = DOMAIN normalize
  /\ DOMAIN normalize \cap Integral = {} /\ DOMAIN normalize \cap Names = {}
  /\ Integral \cap Names = {}
  /\ "message_type" \notin DOMAIN normalize \cup Integral \cup Names
BY DEF parse, normalize, Integral, Uints, Names

\* The decoder looks for just these fields, and lets just these be missing.
LEMMA FixMembersOf ==
  ASSUME NEW t \in Types
  PROVE  /\ FixMembers(FixOf(t)) = FieldsOf(t)
         /\ FieldsOf(t) \cap MayLack(FixOf(t)) = FieldsOf(t) \cap (OptOf(t) \cup {"text"})
<1>1. FixMembers(FixOf(t)) = FieldsOf(t)
  BY TypeNames DEF FixMembers, FieldsOf, AllOf
<1>2. MayLack(FixOf(t)) = OptOf(t) \cup {"text"}
  BY MembersByType DEF MayLack, FixOf, Types, mor_type, fix_type
<1>3. QED
  BY <1>1, <1>2

-----------------------------------------------------------------------------
(* The values of the fields *)

\* The values of a field, by its kind.
LEMMA ValuesByKind ==
  /\ \A f \in Integral : EventValue(f) = 0 .. UintMod - 1
  /\ \A f \in DOMAIN normalize : EventValue(f) = DOMAIN normalize[f]
  /\ EventValue("text") = Texts
  /\ EventValue("symbol") = Tokens["symbol"]
  /\ EventValue("security_exchange") = Tokens["security_exchange"]
<1>1. ASSUME NEW f \in Integral PROVE EventValue(f) = 0 .. UintMod - 1
  <2>1. f \notin DOMAIN normalize /\ f # "text" /\ f # "message_type"
    BY KindsApart DEF Names
  <2>2. QED
    BY <2>1 DEF EventValue
<1>2. ASSUME NEW f \in DOMAIN normalize PROVE EventValue(f) = DOMAIN normalize[f]
  <2>1. f \notin Integral /\ f # "text" /\ f # "message_type"
    BY KindsApart DEF Names
  <2>2. QED
    BY <2>1 DEF EventValue
<1>3. {"text", "symbol", "security_exchange"} \cap (Integral \cup DOMAIN normalize) = {}
  BY KindsApart DEF Names
<1>4. EventValue("text") = Texts
  BY <1>3 DEF EventValue
<1>5. EventValue("symbol") = Tokens["symbol"]
  BY <1>3 DEF EventValue
<1>6. EventValue("security_exchange") = Tokens["security_exchange"]
  BY <1>3 DEF EventValue
<1>7. QED
  BY <1>1, <1>2, <1>4, <1>5, <1>6

\* A field has the same values in a request as in an event.
LEMMA ValueAgrees ==
  ASSUME NEW t \in DOMAIN Members, NEW f \in Members[t], f # "message_type"
  PROVE  Value(f) = EventValue(f)
<1>1. f \in Uints \/ f \in {"symbol", "security_exchange"} \/ f \in {"side", "ord_type", "time_in_force"}
  BY DEF Members, Terms, Uints
<1>2. CASE f \in Uints
  BY <1>2, ValuesByKind DEF Value, Integral
<1>3. CASE f \in {"symbol", "security_exchange"}
  BY <1>3, ValuesByKind DEF Value, Uints
<1>4. CASE f = "side"
  <2>1. EventValue(f) = DOMAIN normalize[f]
    BY <1>4, ValuesByKind DEF normalize
  <2>2. DOMAIN normalize[f] = {"buy", "sell"}
    BY <1>4 DEF normalize
  <2>3. Value(f) = {"buy", "sell"}
    BY <1>4 DEF Value, Uints, Tokens
  <2>4. QED
    BY <2>1, <2>2, <2>3
<1>5. CASE f = "ord_type"
  <2>1. EventValue(f) = DOMAIN normalize[f]
    BY <1>5, ValuesByKind DEF normalize
  <2>2. DOMAIN normalize[f] = {"market", "limit"}
    BY <1>5 DEF normalize
  <2>3. Value(f) = {"market", "limit"}
    BY <1>5 DEF Value, Uints, Tokens
  <2>4. QED
    BY <2>1, <2>2, <2>3
<1>6. CASE f = "time_in_force"
  <2>1. EventValue(f) = DOMAIN normalize[f]
    BY <1>6, ValuesByKind DEF normalize
  <2>2. DOMAIN normalize[f] = {"day", "ioc"}
    BY <1>6 DEF normalize
  <2>3. Value(f) = {"day", "ioc"}
    BY <1>6 DEF Value, Uints, Tokens
  <2>4. QED
    BY <2>1, <2>2, <2>3
<1>7. QED
  BY <1>1, <1>2, <1>3, <1>4, <1>5, <1>6

\* A message of order_entry with a FIX form.
IsSendable(m, t) ==
  /\ t \in Types
  /\ AllOf(t) \ OptOf(t) \subseteq DOMAIN m /\ DOMAIN m \subseteq AllOf(t)
  /\ m["message_type"] = t
  /\ \A f \in DOMAIN m \ {"message_type"} : m[f] \in EventValue(f)

\* A request is one, but for a flush.
LEMMA RequestIsSendable ==
  ASSUME NEW m, IsRequest(m), m["message_type"] # "flush"
  PROVE  IsSendable(m, m["message_type"]) /\ FixOf(m["message_type"]) \in Inbound["acceptor"]
<1>1. PICK t \in DOMAIN Members :
        /\ DOMAIN m = Members[t] /\ m["message_type"] = t
        /\ \A f \in Members[t] : m[f] \in Value(f)
  BY DEF IsRequest
<1>2. t \in {"new_order_single", "replace_order", "cancel_order"}
  BY <1>1, MembersByType
<1>3. AllOf(t) = Members[t] /\ OptOf(t) = {} /\ t \in Types
  BY <1>1, <1>2 DEF AllOf, OptOf, Types
<1>4. FixOf(t) \in Inbound["acceptor"]
  BY <1>2, InboundTypes
<1>5. \A f \in DOMAIN m \ {"message_type"} : m[f] \in EventValue(f)
  BY <1>1, ValueAgrees
<1>6. QED
  BY <1>1, <1>3, <1>4, <1>5 DEF IsSendable

\* An event is one.
LEMMA EventIsSendable ==
  ASSUME NEW m, IsEvent(m)
  PROVE  IsSendable(m, m["message_type"]) /\ FixOf(m["message_type"]) \in Inbound["initiator"]
<1>1. PICK t \in DOMAIN EventMembers :
        /\ EventMembers[t] \ Optionals[t] \subseteq DOMAIN m /\ DOMAIN m \subseteq EventMembers[t]
        /\ m["message_type"] = t
        /\ \A f \in DOMAIN m : m[f] \in EventValue(f)
  BY DEF IsEvent
<1>2. t \in {"execution_report", "cancel_reject"} /\ t \notin DOMAIN Members
  BY <1>1, MembersByType
<1>3. AllOf(t) = EventMembers[t] /\ OptOf(t) = Optionals[t] /\ t \in Types
  BY <1>1, <1>2 DEF AllOf, OptOf, Types
<1>4. FixOf(t) \in Inbound["initiator"]
  BY <1>2, InboundTypes
<1>5. QED
  BY <1>1, <1>3, <1>4 DEF IsSendable

\* A flush has no FIX form; it is not sendable.
LEMMA FixForm ==
  /\ \A m, t : IsSendable(m, t) => HasFixForm(to_mor(m))
  /\ \A m : IsRequest(m) /\ m["message_type"] = "flush" => ~HasFixForm(to_mor(m))
<1>1. ASSUME NEW m, NEW t, IsSendable(m, t) PROVE HasFixForm(to_mor(m))
  <2>1. "message_type" \in DOMAIN m /\ m["message_type"] = t /\ t \in Types
    BY <1>1, FieldFacts DEF IsSendable
  <2>2. to_mor(m)["message_type"] = mor_type[t]
    BY <2>1 DEF to_mor, Converted
  <2>3. QED
    BY <2>1, <2>2, TypeNames DEF HasFixForm
<1>2. ASSUME NEW m, IsRequest(m), m["message_type"] = "flush" PROVE ~HasFixForm(to_mor(m))
  <2>1. "message_type" \in DOMAIN m
    BY <1>2 DEF IsRequest, Members
  <2>2. to_mor(m)["message_type"] = mor_type["flush"]
    BY <1>2, <2>1 DEF to_mor, Converted
  <2>3. mor_type["flush"] \notin DOMAIN fix_type
    BY DEF mor_type, fix_type
  <2>4. QED
    BY <2>2, <2>3 DEF HasFixForm
<1>3. QED
  BY <1>1, <1>2

-----------------------------------------------------------------------------
(* The conversions *)

\* Down the layers.
LEMMA ToFix ==
  ASSUME NEW m, NEW t, IsSendable(m, t)
  PROVE  /\ DOMAIN to_fix(to_mor(m)) = (DOMAIN m \ {"client_id"}) \cup {"account"}
         /\ to_fix(to_mor(m))["message_type"] = FixOf(t)
         /\ to_fix(to_mor(m))["account"] = m["client_id"]
         /\ \A f \in DOMAIN m \ {"client_id", "message_type"} : to_fix(to_mor(m))[f] = m[f]
<1> DEFINE a == to_mor(m)
           b == Converted(a, fix_type)
           x == Renamed(b, "client_id", "account")
<1>1. /\ t \in Types /\ "message_type" \in DOMAIN m /\ "client_id" \in DOMAIN m
      /\ "account" \notin DOMAIN m /\ m["message_type"] = t
  BY FieldFacts DEF IsSendable
<1>2. /\ DOMAIN a = DOMAIN m /\ a["message_type"] = mor_type[t]
      /\ \A f \in DOMAIN m \ {"message_type"} : a[f] = m[f]
  BY <1>1 DEF to_mor, Converted
<1>3. x = to_fix(a)
  BY DEF to_fix
<1> HIDE DEF a
<1>4. /\ DOMAIN b = DOMAIN m /\ b["message_type"] = FixOf(t)
      /\ \A f \in DOMAIN m \ {"message_type"} : b[f] = m[f]
  BY <1>1, <1>2 DEF Converted, FixOf
<1> HIDE DEF b
<1>5. /\ DOMAIN x = (DOMAIN m \ {"client_id"}) \cup {"account"}
      /\ x["message_type"] = FixOf(t) /\ x["account"] = m["client_id"]
      /\ \A f \in DOMAIN m \ {"client_id", "message_type"} : x[f] = m[f]
  BY <1>1, <1>4 DEF Renamed
<1>6. QED
  BY <1>3, <1>5 DEF a

\* And up again.
LEMMA FromFix ==
  ASSUME NEW t \in Types, NEW d, {"message_type", "account"} \subseteq DOMAIN d,
         "client_id" \notin DOMAIN d, d["message_type"] = FixOf(t)
  PROVE  /\ DOMAIN to_order_entry(mor_of_fix(d)) = (DOMAIN d \ {"account"}) \cup {"client_id"}
         /\ to_order_entry(mor_of_fix(d))["message_type"] = t
         /\ to_order_entry(mor_of_fix(d))["client_id"] = d["account"]
         /\ \A f \in DOMAIN d \ {"account", "message_type"} :
              to_order_entry(mor_of_fix(d))[f] = d[f] /\ mor_of_fix(d)[f] = d[f]
         /\ to_order_entry(mor_of_fix(d)) =
              [f \in (DOMAIN d \ {"account"}) \cup {"client_id"} |-> to_order_entry(mor_of_fix(d))[f]]
         /\ to_mor(to_order_entry(mor_of_fix(d))) = mor_of_fix(d)
<1> DEFINE D == (DOMAIN d \ {"account"}) \cup {"client_id"}
           a == Renamed(d, "account", "client_id")
           r == Reverted(a, fix_type)
           o == Reverted(r, mor_type)
<1>1. /\ DOMAIN a = D /\ a["message_type"] = FixOf(t) /\ a["client_id"] = d["account"]
      /\ \A f \in DOMAIN d \ {"account", "message_type"} : a[f] = d[f]
      /\ "message_type" \in D
  BY DEF Renamed
<1>2. r = mor_of_fix(d) /\ o = to_order_entry(r)
  BY DEF mor_of_fix, to_order_entry
<1> HIDE DEF a
<1>3. /\ r = [f \in D |-> IF f = "message_type" THEN mor_type[t] ELSE a[f]]
  BY <1>1, TypeNames DEF Reverted
<1> HIDE DEF r, D
<1>4. /\ DOMAIN r = D /\ r["message_type"] = mor_type[t]
      /\ \A f \in D \ {"message_type"} : r[f] = a[f]
  BY <1>1, <1>3
<1>5. o = [f \in D |-> IF f = "message_type" THEN t ELSE r[f]]
  BY <1>1, <1>4, TypeNames DEF Reverted
<1> HIDE DEF o
<1>6. /\ DOMAIN o = D /\ o["message_type"] = t
      /\ \A f \in D \ {"message_type"} : o[f] = a[f]
      /\ o = [f \in D |-> o[f]]
  BY <1>1, <1>4, <1>5
<1>7. to_mor(o) = [f \in D |-> IF f = "message_type" THEN mor_type[t] ELSE o[f]]
  BY <1>1, <1>6 DEF to_mor, Converted
<1>8. to_mor(o) = r
  BY <1>3, <1>6, <1>7
<1>9. \A f \in DOMAIN d \ {"account", "message_type"} : f \in D \ {"message_type"}
  BY DEF D
<1>10. "client_id" \in D \ {"message_type"}
  BY DEF D
<1>11. /\ o["client_id"] = d["account"]
       /\ \A f \in DOMAIN d \ {"account", "message_type"} : o[f] = d[f] /\ r[f] = d[f]
  BY <1>1, <1>4, <1>6, <1>9, <1>10
<1>12. QED
  BY <1>2, <1>6, <1>8, <1>11 DEF D

-----------------------------------------------------------------------------
(* The decoder *)

\* An error is not a message.
LEMMA NoError ==
  ASSUME NEW d, "message_type" \in DOMAIN d
  PROVE  d \notin {Invalid, Unsupported}
<1>1. DOMAIN Invalid = {"error"} /\ DOMAIN Unsupported = {"error"}
  BY DEF Invalid, Unsupported
<1>2. QED
  BY <1>1

\* The type that the decoder takes a message for.
LEMMA DecodeType ==
  ASSUME NEW message, NEW t \in Types, NEW types, types \subseteq DOMAIN msg_type,
         FixOf(t) \in types, message.msg_type = msg_type[FixOf(t)]
  PROVE  decode_message(message, types) = decode_fields(FixOf(t), message.fields)
<1>1. FixOf(t) \in types /\ msg_type[FixOf(t)] = message.msg_type
  OBVIOUS
<1>2. \A x \in types : msg_type[x] = message.msg_type => x = FixOf(t)
  BY <1>1, MsgTypeInjective
<1>3. (CHOOSE x \in types : msg_type[x] = message.msg_type) = FixOf(t)
  BY <1>1, <1>2
<1>4. QED
  BY <1>1, <1>3 DEF decode_message

\* The fields that are there.
PresentIn(t, fields) == {f \in FieldsOf(t) : tag[f] \in DOMAIN fields}

\* The fields are as they should be.
Complete(t, fields) ==
  /\ FieldsOf(t) \ (OptOf(t) \cup {"text"}) \subseteq PresentIn(t, fields)
  /\ \A f \in PresentIn(t, fields) : Parsable(f, fields[tag[f]])

\* The decoder refuses what is not complete, and reads the rest field by field.
LEMMA DecodeFields ==
  ASSUME NEW t \in Types, NEW fields
  PROVE  decode_fields(FixOf(t), fields) =
           IF Complete(t, fields)
           THEN [f \in PresentIn(t, fields) \cup {"message_type"} \cup ({"text"} \cap FieldsOf(t)) |->
                   IF f = "message_type" THEN FixOf(t)
                   ELSE IF f \in PresentIn(t, fields) THEN ParsedValue(f, fields[tag[f]]) ELSE ""]
           ELSE Invalid
<1> DEFINE present == {f \in FixMembers(FixOf(t)) : tag[f] \in DOMAIN fields}
<1>1. present = PresentIn(t, fields) /\ FixMembers(FixOf(t)) = FieldsOf(t)
  BY FixMembersOf DEF PresentIn
<1>2. FieldsOf(t) \ MayLack(FixOf(t)) = FieldsOf(t) \ (OptOf(t) \cup {"text"})
  BY FixMembersOf
<1>3. PresentIn(t, fields) \cup ({"message_type"} \cup ({"text"} \cap FieldsOf(t)))
        = PresentIn(t, fields) \cup {"message_type"} \cup ({"text"} \cap FieldsOf(t))
  OBVIOUS
<1>4. QED
  BY <1>1, <1>2, <1>3 DEF decode_fields, Complete

\* What can be parsed is in range.
LEMMA ParsedType ==
  ASSUME NEW t \in Types, NEW f \in FieldsOf(t), NEW w, Parsable(f, w), f = "text" => w[2] \in Texts
  PROVE  ParsedValue(f, w) \in EventValue(f)
<1>1. f \in DOMAIN normalize \/ f \in Integral \/ f \in Names
  BY FieldFacts
<1>2. CASE f \in DOMAIN normalize
  <2>1. f \in DOMAIN parse /\ f \notin Integral
    BY <1>2, KindsApart
  <2>2. \E p \in parse[f] : p[1] = w[2]
    BY <2>1 DEF Parsable
  <2>3. PICK p \in parse[f] : ParsedValue(f, w) = p[2]
    BY <2>1, <2>2 DEF ParsedValue
  <2>4. p[2] \in DOMAIN normalize[f]
    BY <1>2, <2>3 DEF parse, normalize
  <2>5. QED
    BY <1>2, <2>3, <2>4, ValuesByKind
<1>3. CASE f \in Integral
  <2>1. f \notin DOMAIN parse
    BY <1>3, KindsApart
  <2>2. w[2] \in 0 .. UintMod - 1
    BY <1>3, <2>1 DEF Parsable
  <2>3. QED
    BY <1>3, <2>1, <2>2, ValuesByKind DEF ParsedValue
<1>4. CASE f \in Names
  <2>1. f \notin DOMAIN parse /\ f \notin Integral
    BY <1>4, KindsApart
  <2>2. f = "text" \/ w[2] \in Tokens[f]
    BY <2>1 DEF Parsable
  <2>3. ParsedValue(f, w) = w[2]
    BY <2>1 DEF ParsedValue
  <2>4. QED
    BY <1>4, <2>2, <2>3, ValuesByKind DEF Names
<1>5. QED
  BY <1>1, <1>2, <1>3, <1>4

\* The empty string, by name.
Empty == ""

\* What the stack hands on for a message that was decoded.
HandedOn(d) == to_order_entry(mor_of_fix(d))

\* A complete message, whoever made it, is handed on well formed.
LEMMA DecodedIsSendable ==
  ASSUME NEW t \in Types, NEW fields, Complete(t, fields), Empty \in Texts,
         tag["text"] \in DOMAIN fields => fields[tag["text"]][2] \in Texts,
         NEW d, d = decode_fields(FixOf(t), fields)
  PROVE  /\ {"message_type", "account"} \subseteq DOMAIN d /\ "client_id" \notin DOMAIN d
         /\ d["message_type"] = FixOf(t)
         /\ IsSendable(HandedOn(d), t)
         /\ HandedOn(d) = [f \in DOMAIN HandedOn(d) |-> HandedOn(d)[f]]
         /\ to_mor(HandedOn(d)) = mor_of_fix(d)
         /\ mor_of_fix(d)["cl_ord_id"] = HandedOn(d)["cl_ord_id"]
<1> DEFINE P == PresentIn(t, fields)
           D == P \cup {"message_type"} \cup ({"text"} \cap FieldsOf(t))
           o == HandedOn(d)
<1>1. d = [f \in D |-> IF f = "message_type" THEN FixOf(t)
                       ELSE IF f \in P THEN ParsedValue(f, fields[tag[f]]) ELSE ""]
  BY DecodeFields
<1>2. P \subseteq FieldsOf(t) /\ FieldsOf(t) \ (OptOf(t) \cup {"text"}) \subseteq P
  BY DEF Complete, PresentIn
<1>3. /\ {"message_type", "client_id", "cl_ord_id"} \subseteq AllOf(t) \ OptOf(t)
      /\ "account" \notin AllOf(t) /\ "text" \notin OptOf(t)
  BY FieldFacts
<1>4. "account" \notin OptOf(t)
  BY FieldFacts
<1>5. "account" \in P /\ "cl_ord_id" \in P
  BY <1>2, <1>3, <1>4 DEF FieldsOf
<1>6. /\ DOMAIN d = D /\ {"message_type", "account"} \subseteq D /\ "client_id" \notin D
      /\ d["message_type"] = FixOf(t)
  BY <1>1, <1>2, <1>5 DEF FieldsOf
<1>7. \A f \in D \ {"message_type"} : d[f] \in EventValue(f)
  <2>1. SUFFICES ASSUME NEW f \in D \ {"message_type"} PROVE d[f] \in EventValue(f)
    OBVIOUS
  <2>2. CASE f \in P
    <3>1. Parsable(f, fields[tag[f]]) /\ f \in FieldsOf(t) /\ tag[f] \in DOMAIN fields
      BY <2>2 DEF Complete, PresentIn
    <3>2. ParsedValue(f, fields[tag[f]]) \in EventValue(f)
      BY <3>1, ParsedType
    <3>3. d[f] = ParsedValue(f, fields[tag[f]])
      BY <1>1, <2>2
    <3>4. QED
      BY <3>2, <3>3
  <2>3. CASE f \notin P
    <3>1. f = "text" /\ d[f] = Empty
      BY <1>1, <2>3 DEF Empty
    <3>2. QED
      BY <3>1, ValuesByKind
  <2>4. QED
    BY <2>2, <2>3
<1> HIDE DEF D
<1>8. /\ DOMAIN o = (D \ {"account"}) \cup {"client_id"}
      /\ o["message_type"] = t /\ o["client_id"] = d["account"]
      /\ \A f \in D \ {"account", "message_type"} : o[f] = d[f] /\ mor_of_fix(d)[f] = d[f]
      /\ o = [f \in (D \ {"account"}) \cup {"client_id"} |-> o[f]]
      /\ to_mor(o) = mor_of_fix(d)
  BY <1>6, FromFix DEF HandedOn
<1>9. AllOf(t) \ OptOf(t) \subseteq DOMAIN o /\ DOMAIN o \subseteq AllOf(t)
  <2>1. AllOf(t) \ OptOf(t) \subseteq DOMAIN o
    BY <1>2, <1>3, <1>8 DEF D, FieldsOf
  <2>2. DOMAIN o \subseteq AllOf(t)
    BY <1>2, <1>3, <1>8 DEF D, FieldsOf
  <2>3. QED
    BY <2>1, <2>2
<1>10. EventValue("account") = EventValue("client_id")
  BY ValuesByKind DEF Integral, Uints
<1> HIDE DEF o
<1>11. \A f \in DOMAIN o \ {"message_type"} : o[f] \in EventValue(f)
  BY <1>6, <1>7, <1>8, <1>10
<1>12. IsSendable(o, t)
  BY <1>8, <1>9, <1>11 DEF IsSendable
<1>13. mor_of_fix(d)["cl_ord_id"] = o["cl_ord_id"]
  BY <1>5, <1>8 DEF D
<1>14. QED
  BY <1>6, <1>8, <1>12, <1>13 DEF o

\* Well formed means a request, or an event.
LEMMA SendableKinds ==
  ASSUME NEW m, NEW t, IsSendable(m, t), m = [f \in DOMAIN m |-> m[f]]
  PROVE  /\ t \in DOMAIN Members => IsRequest(m)
         /\ t \in DOMAIN EventMembers => IsEvent(m)
<1>1. /\ t \in Types /\ AllOf(t) \ OptOf(t) \subseteq DOMAIN m /\ DOMAIN m \subseteq AllOf(t)
      /\ m["message_type"] = t /\ "message_type" \in DOMAIN m
      /\ \A f \in DOMAIN m \ {"message_type"} : m[f] \in EventValue(f)
  BY FieldFacts DEF IsSendable
<1>2. ASSUME t \in DOMAIN Members PROVE IsRequest(m)
  <2>1. AllOf(t) = Members[t] /\ OptOf(t) = {}
    BY <1>2 DEF AllOf, OptOf
  <2>2. DOMAIN m = Members[t]
    BY <1>1, <2>1
  <2>3. m["message_type"] \in Value("message_type")
    BY <1>1, <1>2 DEF Value, Uints, Tokens
  <2>4. \A f \in Members[t] : m[f] \in Value(f)
    BY <1>1, <1>2, <2>2, <2>3, ValueAgrees
  <2>5. QED
    BY <1>1, <1>2, <2>2, <2>4 DEF IsRequest
<1>3. ASSUME t \in DOMAIN EventMembers PROVE IsEvent(m)
  <2>1. t \notin DOMAIN Members
    BY <1>3, MembersByType
  <2>2. AllOf(t) = EventMembers[t] /\ OptOf(t) = Optionals[t]
    BY <2>1 DEF AllOf, OptOf
  <2>3. /\ "message_type" \notin Integral /\ "message_type" \notin DOMAIN normalize
        /\ "message_type" # "text"
    BY KindsApart
  <2>4. EventValue("message_type") = DOMAIN EventMembers
    BY <2>3 DEF EventValue
  <2>5. \A f \in DOMAIN m : m[f] \in EventValue(f)
    BY <1>1, <1>3, <2>4
  <2>6. QED
    BY <1>1, <1>3, <2>2, <2>5 DEF IsEvent
<1>4. QED
  BY <1>2, <1>3

-----------------------------------------------------------------------------
(* The way there *)

\* The encoder writes each field under its tag.
LEMMA EncodeFields ==
  ASSUME NEW x, Written(x) \subseteq DOMAIN tag
  PROVE  /\ encode_message(x).msg_type = msg_type[x["message_type"]]
         /\ DOMAIN encode_message(x).fields = {tag[f] : f \in Written(x)}
         /\ \A f \in Written(x) : encode_message(x).fields[tag[f]] = as_field_value(f, x[f])
<1> DEFINE W == {tag[f] : f \in Written(x)}
           F == [n \in W |-> as_field_value(NameOf(tag, n), x[NameOf(tag, n)])]
<1>1. encode_message(x).msg_type = msg_type[x["message_type"]] /\ encode_message(x).fields = F
  BY DEF encode_message
<1>2. \A f \in Written(x) : F[tag[f]] = as_field_value(f, x[f])
  <2>1. SUFFICES ASSUME NEW f \in Written(x) PROVE F[tag[f]] = as_field_value(f, x[f])
    OBVIOUS
  <2>2. f \in DOMAIN tag
    OBVIOUS
  <2>3. NameOf(tag, tag[f]) = f
    BY <2>2, TagInjective, NameOfEntry
  <2>4. tag[f] \in W
    OBVIOUS
  <2>5. F[tag[f]] = as_field_value(NameOf(tag, tag[f]), x[NameOf(tag, tag[f])])
    BY <2>4
  <2>6. QED
    BY <2>3, <2>5
<1>3. QED
  BY <1>1, <1>2

\* A value that is written is read back, unless it is an empty name.
LEMMA WriteRead ==
  ASSUME NEW t \in Types, NEW f \in FieldsOf(t), NEW v \in EventValue(f)
  PROVE  /\ f \notin Names \/ v # Empty => Parsable(f, as_field_value(f, v))
         /\ f \in Names /\ v = Empty => ~Parsable(f, as_field_value(f, v))
         /\ f \notin Names \/ v # Empty => ParsedValue(f, as_field_value(f, v)) = ReadBack(f, v)
<1> DEFINE w == as_field_value(f, v)
<1>1. f \in DOMAIN normalize \/ f \in Integral \/ f \in Names
  BY FieldFacts
<1>2. CASE f \in DOMAIN normalize
  <2>1. f \in DOMAIN parse /\ f \notin Integral /\ f \notin Names
    BY <1>2, KindsApart
  <2>2. w = <<"text", normalize[f][v]>>
    BY <1>2, <2>1 DEF as_field_value
  <2>3. v \in DOMAIN normalize[f]
    BY <1>2, ValuesByKind
  <2>4. <<normalize[f][v], ReadBack(f, v)>> \in parse[f]
    BY <1>2, <2>3, ParseNormalized
  <2> DEFINE p == <<normalize[f][v], ReadBack(f, v)>>
  <2>5. p \in parse[f] /\ p[1] = normalize[f][v] /\ p[2] = ReadBack(f, v)
    BY <2>4
  <2> HIDE DEF p
  <2>6. w[1] = "text" /\ w[2] = normalize[f][v]
    BY <2>2
  <2> HIDE DEF w
  <2>7. Parsable(f, w)
    <3>1. w[1] = "text" /\ \E q \in parse[f] : q[1] = w[2]
      BY <2>5, <2>6
    <3>2. QED
      BY <2>1, <3>1 DEF Parsable
  <2>8. (CHOOSE q \in parse[f] : q[1] = w[2]) = p
    <3>1. \A q \in parse[f] : q[1] = w[2] => q = p
      BY <2>1, <2>5, <2>6, ParseUnique
    <3>2. QED
      BY <2>5, <2>6, <3>1
  <2>9. ParsedValue(f, w) = ReadBack(f, v)
    BY <2>1, <2>5, <2>8 DEF ParsedValue
  <2>10. QED
    BY <2>1, <2>7, <2>9 DEF w
<1>3. CASE f \in Integral
  <2>1. f \notin DOMAIN parse /\ f \notin DOMAIN normalize /\ f \notin Names
    BY <1>3, KindsApart
  <2>2. w = <<"digits", v>>
    BY <1>3, <2>1 DEF as_field_value
  <2>3. w[1] = "digits" /\ w[2] = v /\ v \in 0 .. UintMod - 1
    <3>1. v \in 0 .. UintMod - 1
      BY <1>3, ValuesByKind
    <3>2. QED
      BY <2>2, <3>1
  <2> HIDE DEF w
  <2>4. Parsable(f, w)
    BY <1>3, <2>1, <2>3 DEF Parsable
  <2>5. ReadBack(f, v) = v /\ ParsedValue(f, w) = v
    BY <2>1, <2>3 DEF ReadBack, ParsedValue, normalize
  <2>6. QED
    BY <2>1, <2>4, <2>5 DEF w
<1>4. CASE f \in Names
  <2>1. f \notin DOMAIN parse /\ f \notin DOMAIN normalize /\ f \notin Integral
    BY <1>4, KindsApart
  <2>2. w = <<"text", v>>
    BY <2>1 DEF as_field_value
  <2>3. w[1] = "text" /\ w[2] = v
    BY <2>2
  <2>4. f = "text" \/ v \in Tokens[f]
    BY <1>4, ValuesByKind DEF Names
  <2> HIDE DEF w
  <2>5. Parsable(f, w) <=> v # Empty
    BY <2>1, <2>3, <2>4 DEF Parsable, Empty
  <2>6. ReadBack(f, v) = v /\ ParsedValue(f, w) = v
    BY <2>1, <2>3 DEF ReadBack, ParsedValue, normalize
  <2>7. QED
    BY <1>4, <2>5, <2>6 DEF w
<1>5. QED
  BY <1>1, <1>2, <1>3, <1>4

\* Six conversions there and back: a message with an empty name is refused, any
\* other one comes back as it was, but for the reason that B3 does not have.
THEOREM RoundTrip ==
  ASSUME NEW m, NEW t, IsSendable(m, t), NEW types, types \subseteq DOMAIN msg_type,
         FixOf(t) \in types, NEW d, d = decode_message(encode_message(to_fix(to_mor(m))), types)
  PROVE  /\ HasEmptyName(m) => d = Invalid
         /\ ~HasEmptyName(m) => d \notin {Invalid, Unsupported} /\ HandedOn(d) = AsReported(m)
<1> DEFINE x == to_fix(to_mor(m))
           W == Written(x)
           fields == encode_message(x).fields
<1>1. /\ t \in Types /\ AllOf(t) \ OptOf(t) \subseteq DOMAIN m /\ DOMAIN m \subseteq AllOf(t)
      /\ m["message_type"] = t
      /\ \A f \in DOMAIN m \ {"message_type"} : m[f] \in EventValue(f)
  BY DEF IsSendable
<1>2. /\ DOMAIN x = (DOMAIN m \ {"client_id"}) \cup {"account"}
      /\ x["message_type"] = FixOf(t) /\ x["account"] = m["client_id"]
      /\ \A f \in DOMAIN m \ {"client_id", "message_type"} : x[f] = m[f]
  BY ToFix
<1>3. /\ {"message_type", "client_id", "cl_ord_id"} \subseteq AllOf(t) \ OptOf(t)
      /\ "account" \notin AllOf(t) /\ "account" \notin OptOf(t) /\ "text" \notin OptOf(t)
      /\ FieldsOf(t) \subseteq DOMAIN tag
  BY <1>1, FieldFacts
<1> HIDE DEF x
<1>4. W = {f \in DOMAIN x \ {"message_type"} : f = "text" => x[f] # Empty}
  BY DEF Written, Empty
<1>5. DOMAIN x \ {"message_type"} \subseteq FieldsOf(t)
  BY <1>1, <1>2 DEF FieldsOf
<1>6. \A f \in DOMAIN x \ {"message_type"} : x[f] \in EventValue(f)
  <2>1. EventValue("account") = EventValue("client_id")
    BY ValuesByKind DEF Integral, Uints
  <2>2. x["account"] \in EventValue("account")
    BY <1>1, <1>2, <1>3, <2>1
  <2>3. QED
    BY <1>1, <1>2, <2>2
<1>7. W \subseteq FieldsOf(t) /\ W \subseteq DOMAIN tag
  BY <1>3, <1>4, <1>5
<1>8. /\ encode_message(x).msg_type = msg_type[FixOf(t)]
      /\ DOMAIN fields = {tag[f] : f \in W}
      /\ \A f \in W : fields[tag[f]] = as_field_value(f, x[f])
  BY <1>2, <1>7, EncodeFields
<1>9. d = decode_fields(FixOf(t), fields)
  <2>1. d = decode_message(encode_message(x), types)
    BY DEF x
  <2>2. QED
    BY <1>1, <1>8, <2>1, DecodeType
<1> HIDE DEF fields, W
<1>10. PresentIn(t, fields) = W
  <2>1. ASSUME NEW f \in FieldsOf(t), tag[f] \in DOMAIN fields PROVE f \in W
    <3>1. PICK g \in W : tag[f] = tag[g]
      BY <1>8, <2>1
    <3>2. QED
      BY <1>3, <1>7, <3>1, TagInjective
  <2>2. \A f \in W : f \in FieldsOf(t) /\ tag[f] \in DOMAIN fields
    BY <1>7, <1>8
  <2>3. QED
    BY <2>1, <2>2 DEF PresentIn
<1>11. FieldsOf(t) \ (OptOf(t) \cup {"text"}) \subseteq W
  BY <1>1, <1>2, <1>3, <1>4 DEF FieldsOf
<1>12. \A f \in W : f \in FieldsOf(t) /\ f # "message_type" /\ x[f] \in EventValue(f)
  BY <1>4, <1>6, <1>7
<1>13. HasEmptyName(m) <=> \E f \in {"symbol", "security_exchange"} \cap DOMAIN m : m[f] = Empty
  BY DEF HasEmptyName, Empty
<1>14. ASSUME HasEmptyName(m) PROVE d = Invalid
  <2>1. PICK f \in {"symbol", "security_exchange"} \cap DOMAIN m : m[f] = Empty
    BY <1>13, <1>14
  <2>2. f \in W /\ x[f] = Empty /\ f \in Names
    BY <1>2, <1>4, <2>1 DEF Names
  <2>3. ~Parsable(f, fields[tag[f]])
    BY <1>1, <1>8, <1>12, <2>2, WriteRead
  <2>4. ~Complete(t, fields)
    BY <1>10, <2>2, <2>3 DEF Complete
  <2>5. QED
    BY <1>1, <1>9, <2>4, DecodeFields
<1>15. ASSUME ~HasEmptyName(m)
       PROVE  d \notin {Invalid, Unsupported} /\ HandedOn(d) = AsReported(m)
  <2> DEFINE D == W \cup {"message_type"} \cup ({"text"} \cap FieldsOf(t))
             o == HandedOn(d)
  <2>1. \A f \in W : f \notin Names \/ x[f] # Empty
    BY <1>2, <1>4, <1>13, <1>15 DEF Names
  <2>2. \A f \in W : /\ Parsable(f, fields[tag[f]])
                     /\ ParsedValue(f, fields[tag[f]]) = ReadBack(f, x[f])
    BY <1>1, <1>8, <1>12, <2>1, WriteRead
  <2>3. Complete(t, fields)
    BY <1>10, <1>11, <2>2 DEF Complete
  <2>4. d = [f \in D |-> IF f = "message_type" THEN FixOf(t)
                         ELSE IF f \in W THEN ParsedValue(f, fields[tag[f]]) ELSE ""]
    BY <1>1, <1>9, <1>10, <2>3, DecodeFields
  <2>5. d = [f \in D |-> IF f = "message_type" THEN FixOf(t)
                         ELSE IF f \in W THEN ParsedValue(f, fields[tag[f]]) ELSE Empty]
    BY <2>4 DEF Empty
  <2>6. D = DOMAIN x
    BY <1>1, <1>2, <1>3, <1>4 DEF FieldsOf
  <2> HIDE DEF D
  <2>7. /\ DOMAIN d = D /\ d["message_type"] = FixOf(t)
        /\ \A f \in W : d[f] = ReadBack(f, x[f])
        /\ \A f \in D \ (W \cup {"message_type"}) : d[f] = Empty
        /\ {"message_type", "account"} \subseteq D /\ "client_id" \notin D
    BY <1>1, <1>2, <1>3, <1>4, <1>12, <2>2, <2>5, <2>6
  <2>8. d \notin {Invalid, Unsupported}
    BY <2>7, NoError
  <2>9. /\ o["message_type"] = t /\ o["client_id"] = d["account"]
        /\ \A f \in D \ {"account", "message_type"} : o[f] = d[f]
        /\ o = [f \in (D \ {"account"}) \cup {"client_id"} |-> o[f]]
    BY <1>1, <2>7, FromFix DEF HandedOn
  <2>10. (D \ {"account"}) \cup {"client_id"} = DOMAIN m
    BY <1>1, <1>2, <1>3, <2>6
  <2> HIDE DEF o
  <2>11. ASSUME NEW f \in DOMAIN m PROVE o[f] = ReadBack(f, m[f])
    <3>1. CASE f = "message_type"
      BY <1>1, <2>9, <3>1 DEF ReadBack
    <3>2. CASE f = "client_id"
      <4>1. "account" \in W
        BY <1>2, <1>4
      <4>2. QED
        BY <1>2, <2>7, <2>9, <3>2, <4>1 DEF ReadBack
    <3>3. CASE f \notin {"message_type", "client_id"}
      <4>1. f \in D /\ f # "account" /\ x[f] = m[f] /\ o[f] = d[f]
        BY <1>1, <1>2, <1>3, <2>6, <2>9, <3>3
      <4>2. CASE f \in W
        BY <2>7, <4>1, <4>2
      <4>3. CASE f \notin W
        <5>1. f = "text" /\ x[f] = Empty /\ d[f] = Empty
          BY <1>4, <2>6, <2>7, <3>3, <4>1, <4>3
        <5>2. QED
          BY <4>1, <5>1 DEF ReadBack
      <4>4. QED
        BY <4>2, <4>3
    <3>4. QED
      BY <3>1, <3>2, <3>3
  <2>12. AsReported(m) = [f \in DOMAIN m |-> ReadBack(f, m[f])]
    BY DEF AsReported, ReadBack
  <2>13. o = AsReported(m)
    BY <2>9, <2>10, <2>11, <2>12
  <2>14. QED
    BY <2>8, <2>13 DEF o
<1>16. QED
  BY <1>14, <1>15

-----------------------------------------------------------------------------
(* What arrives *)

\* The text of a message that the stack itself has made.
LEMMA OwnText ==
  ASSUME NEW m, NEW t, IsSendable(m, t),
         tag["text"] \in DOMAIN encode_message(to_fix(to_mor(m))).fields
  PROVE  encode_message(to_fix(to_mor(m))).fields[tag["text"]][2] \in Texts
<1> DEFINE x == to_fix(to_mor(m))
           fields == encode_message(x).fields
<1>1. /\ t \in Types /\ DOMAIN m \subseteq AllOf(t)
      /\ \A f \in DOMAIN m \ {"message_type"} : m[f] \in EventValue(f)
  BY DEF IsSendable
<1>2. /\ DOMAIN x = (DOMAIN m \ {"client_id"}) \cup {"account"}
      /\ \A f \in DOMAIN m \ {"client_id", "message_type"} : x[f] = m[f]
  BY ToFix
<1>3. FieldsOf(t) \subseteq DOMAIN tag
  BY <1>1, FieldFacts
<1> HIDE DEF x
<1>4. Written(x) \subseteq DOMAIN x \ {"message_type"}
  BY DEF Written
<1>5. Written(x) \subseteq DOMAIN tag
  BY <1>1, <1>2, <1>3, <1>4 DEF FieldsOf
<1>6. /\ DOMAIN fields = {tag[f] : f \in Written(x)}
      /\ \A f \in Written(x) : fields[tag[f]] = as_field_value(f, x[f])
  BY <1>5, EncodeFields
<1>7. tag["text"] \in DOMAIN fields
  BY DEF x
<1> HIDE DEF fields
<1>8. "text" \in DOMAIN tag
  BY DEF tag
<1>9. "text" \in Written(x)
  <2>1. PICK f \in Written(x) : tag[f] = tag["text"]
    BY <1>6, <1>7
  <2>2. QED
    BY <1>5, <1>8, <2>1, TagInjective
<1>10. x["text"] = m["text"] /\ m["text"] \in EventValue("text")
  BY <1>1, <1>2, <1>4, <1>9
<1>11. x["text"] \in Texts
  BY <1>10, ValuesByKind
<1>12. "text" \notin DOMAIN normalize /\ "text" \notin Integral
  BY KindsApart DEF Names
<1>13. as_field_value("text", x["text"]) = <<"text", x["text"]>>
  BY <1>12 DEF as_field_value
<1>14. fields[tag["text"]][2] \in Texts
  BY <1>6, <1>9, <1>11, <1>13
<1>15. QED
  BY <1>14 DEF fields, x

\* The ends of the connection, and the types of messages that they decode.
LEMMA EndFacts ==
  /\ \A end \in Ends : /\ Other(end) \in Ends /\ Other(end) # end /\ Other(Other(end)) = end
                       /\ Inbound[end] \subseteq DOMAIN msg_type
  /\ Other("initiator") = "acceptor" /\ Other("acceptor") = "initiator"
<1>1. /\ Other("initiator") = "acceptor" /\ Other("acceptor") = "initiator"
  BY DEF Other
<1>2. \A end \in Ends : Inbound[end] \subseteq DOMAIN msg_type
  BY DEF Ends, Inbound, msg_type
<1>3. QED
  BY <1>1, <1>2 DEF Ends

\* What a decoded message leads to.
WellDecoded(to, d) ==
  /\ to = "acceptor" => IsRequest(HandedOn(d))
  /\ to = "initiator" => IsEvent(HandedOn(d))
  /\ to_mor(HandedOn(d)) = mor_of_fix(d)
  /\ mor_of_fix(d)["cl_ord_id"] = HandedOn(d)["cl_ord_id"]
  /\ HandedOn(d)["cl_ord_id"] \in 0 .. UintMod - 1

\* Only well-formed messages are handed on, whatever arrives.
LEMMA DecodedWell ==
  ASSUME NEW to \in Ends, NEW message,
         tag["text"] \in DOMAIN message.fields => message.fields[tag["text"]][2] \in Texts,
         decode_message(message, Inbound[to]) \notin {Invalid, Unsupported}
  PROVE  WellDecoded(to, decode_message(message, Inbound[to]))
<1> DEFINE d == decode_message(message, Inbound[to])
           fields == message.fields
           requests == {"new_order_single", "replace_order", "cancel_order"}
           events == {"execution_report", "cancel_reject"}
<1>1. PICK x \in Inbound[to] : msg_type[x] = message.msg_type
  BY DEF decode_message
<1>2. PICK t \in Types : /\ x = FixOf(t)
                         /\ to = "acceptor" => t \in DOMAIN Members
                         /\ to = "initiator" => t \in DOMAIN EventMembers
  <2>1. CASE to = "acceptor"
    <3>1. PICK t \in requests : x = FixOf(t)
      BY <1>1, <2>1, InboundTypes
    <3>2. t \in Types /\ t \in DOMAIN Members
      BY MembersByType DEF Types
    <3>3. QED
      BY <2>1, <3>1, <3>2
  <2>2. CASE to = "initiator"
    <3>1. PICK t \in events : x = FixOf(t)
      BY <1>1, <2>2, InboundTypes
    <3>2. t \in Types /\ t \in DOMAIN EventMembers
      BY MembersByType DEF Types
    <3>3. QED
      BY <2>2, <3>1, <3>2
  <2>3. QED
    BY <2>1, <2>2 DEF Ends
<1>3. d = decode_fields(FixOf(t), fields)
  BY <1>1, <1>2, EndFacts, DecodeType
<1>4. Complete(t, fields)
  BY <1>3, DecodeFields
<1>5. Empty \in Texts
  BY TextsAssumption, Zenon DEF Empty
<1> HIDE DEF d, fields
<1>6. /\ IsSendable(HandedOn(d), t)
      /\ HandedOn(d) = [f \in DOMAIN HandedOn(d) |-> HandedOn(d)[f]]
      /\ to_mor(HandedOn(d)) = mor_of_fix(d)
      /\ mor_of_fix(d)["cl_ord_id"] = HandedOn(d)["cl_ord_id"]
  <2>1. tag["text"] \in DOMAIN fields => fields[tag["text"]][2] \in Texts
    BY DEF fields
  <2>2. QED
    BY <1>3, <1>4, <1>5, <2>1, DecodedIsSendable
<1>7. /\ t \in DOMAIN Members => IsRequest(HandedOn(d))
      /\ t \in DOMAIN EventMembers => IsEvent(HandedOn(d))
  BY <1>6, SendableKinds
<1>8. HandedOn(d)["cl_ord_id"] \in 0 .. UintMod - 1
  <2>1. "cl_ord_id" \in DOMAIN HandedOn(d) \ {"message_type"}
    BY <1>6, FieldFacts DEF IsSendable
  <2>2. "cl_ord_id" \in Integral
    BY DEF Integral, Uints
  <2>3. QED
    BY <1>6, <2>1, <2>2, ValuesByKind DEF IsSendable
<1>9. WellDecoded(to, d)
  BY <1>2, <1>6, <1>7, <1>8 DEF WellDecoded
<1>10. QED
  BY <1>9 DEF d

-----------------------------------------------------------------------------
(* The connection *)

\* The entries of the log, and of the inboxes.
Sendings == UNION {Outgoing[end] \cup Foreign[end] : end \in Ends}

Entry == [from : Ends, own : BOOLEAN, message : Sendings, reached : BOOLEAN]

\* What an entry put on the wire, what the other end made of it, and whether it
\* had anything to make of it.
WireOf(e) == IF e.own THEN encode_message(to_fix(to_mor(e.message))) ELSE e.message

Arrived(e) == decode_message(WireOf(e), Inbound[Other(e.from)])

Heard(e) ==
  /\ e.reached
  /\ e.own => HasFixForm(to_mor(e.message))
  /\ Arrived(e) \notin {Invalid, Unsupported}

Letters == {HandedOn(Arrived(e)) : e \in Entry}

Item == [seq : Nat, message : Letters]

\* An end sends what is its own, or what another encoder has made for it.
Sender(e) == e.message \in (IF e.own THEN Outgoing[e.from] ELSE Foreign[e.from])

RoutingTypes ==
  /\ peer \in [Ends -> BOOLEAN] /\ listening \in [Ends -> BOOLEAN]
  /\ log \in Seq(Entry) /\ Len(log) <= MaxSends
  /\ \A n \in 1 .. Len(log) : Sender(log[n])
  /\ inbox \in [Ends -> Seq(Item)]
  /\ DOMAIN requests_by_cl_ord_id = 0 .. UintMod - 1

\* An item of an inbox stands for an entry of the log that was heard.
Stands(to, item) ==
  /\ item.seq \in 1 .. Len(log)
  /\ log[item.seq].from = Other(to) /\ Heard(log[item.seq])
  /\ item.message = HandedOn(Arrived(log[item.seq]))

Genuine == \A to \in Ends : \A i \in 1 .. Len(inbox[to]) : Stands(to, inbox[to][i])

\* No entry has two items.
AtMostOnce ==
  \A to \in Ends : \A i, j \in 1 .. Len(inbox[to]) :
    inbox[to][i].seq = inbox[to][j].seq => i = j

\* Every entry that was heard has one.
AtLeastOnce ==
  \A to \in Ends : \A n \in 1 .. Len(log) :
    log[n].from = Other(to) /\ Heard(log[n]) =>
      \E i \in 1 .. Len(inbox[to]) : inbox[to][i].seq = n

RoutingInv == RoutingTypes /\ Genuine /\ AtMostOnce /\ AtLeastOnce /\ Correlated

\* A sent message that has a FIX form is sendable.
LEMMA OwnIsSendable ==
  ASSUME NEW e \in Entry, Sender(e), e.own
  PROVE  /\ e.message["message_type"] # "flush" =>
              /\ IsSendable(e.message, e.message["message_type"])
              /\ FixOf(e.message["message_type"]) \in Inbound[Other(e.from)]
         /\ HasFixForm(to_mor(e.message)) <=> e.message["message_type"] # "flush"
<1>1. e.message \in Outgoing[e.from] /\ e.from \in Ends
  BY DEF Sender, Entry
<1>2. CASE e.from = "initiator"
  <2>1. IsRequest(e.message)
    BY <1>1, <1>2, RoutingAssumption
  <2>2. QED
    BY <1>2, <2>1, EndFacts, RequestIsSendable, FixForm
<1>3. CASE e.from = "acceptor"
  <2>1. IsEvent(e.message)
    BY <1>1, <1>3, RoutingAssumption
  <2>2. /\ IsSendable(e.message, e.message["message_type"])
        /\ FixOf(e.message["message_type"]) \in Inbound[Other(e.from)]
    BY <1>3, <2>1, EndFacts, EventIsSendable
  <2>3. e.message["message_type"] # "flush"
    BY <2>2 DEF IsSendable, Types
  <2>4. QED
    BY <2>2, <2>3, FixForm
<1>4. QED
  BY <1>1, <1>2, <1>3 DEF Ends

\* What was heard is handed on well formed.
LEMMA HeardWell ==
  ASSUME NEW e \in Entry, Sender(e), Heard(e)
  PROVE  WellDecoded(Other(e.from), Arrived(e))
<1> DEFINE w == WireOf(e)
<1>1. e.from \in Ends /\ Other(e.from) \in Ends
  BY EndFacts DEF Entry
<1>2. tag["text"] \in DOMAIN w.fields => w.fields[tag["text"]][2] \in Texts
  <2>1. CASE e.own
    <3>1. IsSendable(e.message, e.message["message_type"])
      BY <2>1, OwnIsSendable DEF Heard
    <3>2. w = encode_message(to_fix(to_mor(e.message)))
      BY <2>1 DEF WireOf
    <3>3. QED
      BY <3>1, <3>2, OwnText
  <2>2. CASE ~e.own
    <3>1. w = e.message /\ e.message \in Foreign[e.from]
      BY <2>2 DEF WireOf, Sender
    <3>2. QED
      BY <1>1, <3>1, RoutingAssumption
  <2>3. QED
    BY <2>1, <2>2
<1>3. Arrived(e) = decode_message(w, Inbound[Other(e.from)])
  BY DEF Arrived
<1> HIDE DEF w
<1>4. decode_message(w, Inbound[Other(e.from)]) \notin {Invalid, Unsupported}
  BY <1>3 DEF Heard
<1>5. WellDecoded(Other(e.from), decode_message(w, Inbound[Other(e.from)]))
  BY <1>1, <1>2, <1>4, DecodedWell
<1>6. QED
  BY <1>3, <1>5

\* An own message is heard unless nobody was there, or it is a flush or has an
\* empty name; what is handed on is then the message itself.
LEMMA OwnHeard ==
  ASSUME NEW e \in Entry, Sender(e), e.own
  PROVE  /\ Heard(e) <=>
              e.reached /\ e.message["message_type"] # "flush" /\ ~HasEmptyName(e.message)
         /\ Heard(e) => HandedOn(Arrived(e)) = AsReported(e.message)
<1> DEFINE m == e.message
           to == Other(e.from)
<1>1. WireOf(e) = encode_message(to_fix(to_mor(m)))
  BY DEF WireOf
<1>2. CASE m["message_type"] = "flush"
  <2>1. ~HasFixForm(to_mor(m))
    BY <1>2, OwnIsSendable
  <2>2. QED
    BY <1>2, <2>1 DEF Heard
<1>3. CASE m["message_type"] # "flush"
  <2>1. /\ IsSendable(m, m["message_type"]) /\ FixOf(m["message_type"]) \in Inbound[to]
        /\ HasFixForm(to_mor(m))
    BY <1>3, OwnIsSendable
  <2>2. Inbound[to] \subseteq DOMAIN msg_type
    BY EndFacts DEF Entry
  <2>3. Arrived(e) = decode_message(encode_message(to_fix(to_mor(m))), Inbound[to])
    BY <1>1 DEF Arrived
  <2> HIDE DEF m, to
  <2>4. /\ HasEmptyName(m) => Arrived(e) = Invalid
        /\ ~HasEmptyName(m) =>
             Arrived(e) \notin {Invalid, Unsupported} /\ HandedOn(Arrived(e)) = AsReported(m)
    BY <2>1, <2>2, <2>3, RoundTrip
  <2>5. QED
    BY <1>3, <2>1, <2>4 DEF Heard, m
<1>4. QED
  BY <1>2, <1>3

\* A step that sends: the entry is logged, and is handed on if it is heard.
ItemOf(e) == [seq |-> Len(log) + 1, message |-> HandedOn(Arrived(e))]

Posting(e) ==
  LET to == Other(e.from)
      routed == mor_of_fix(Arrived(e))
  IN /\ e \in Entry /\ Sender(e)
     /\ Len(log) < MaxSends /\ log' = Append(log, e)
     /\ UNCHANGED <<peer, listening>>
     /\ Heard(e) =>
          /\ inbox' = [inbox EXCEPT ![to] = Append(@, ItemOf(e))]
          /\ requests_by_cl_ord_id' =
               IF to = "acceptor" THEN remember(routed) ELSE requests_by_cl_ord_id
     /\ ~Heard(e) => UNCHANGED <<inbox, requests_by_cl_ord_id>>

\* Send is such a step.
LEMMA SendPosts ==
  ASSUME RoutingTypes, NEW end \in Ends, NEW m \in Outgoing[end], Send(end, m)
  PROVE  \E e \in Entry : Posting(e)
<1> DEFINE e == [from |-> end, own |-> TRUE, message |-> m, reached |-> Reaches(end)]
<1>1. Reaches(end) \in BOOLEAN
  BY EndFacts DEF Reaches, RoutingTypes
<1>2. e \in Entry /\ Sender(e)
  BY <1>1 DEF Entry, Sendings, Sender
<1>3. WireOf(e) = encode_message(to_fix(to_mor(m)))
  BY DEF WireOf
<1>4. Arrived(e) = decode_message(encode_message(to_fix(to_mor(m))), Inbound[Other(end)])
  BY <1>3 DEF Arrived
<1>5. Heard(e) <=> /\ Reaches(end) /\ HasFixForm(to_mor(m))
                   /\ Arrived(e) \notin {Invalid, Unsupported}
  BY DEF Heard
<1>6. /\ Len(log) < MaxSends /\ log' = Append(log, e) /\ UNCHANGED <<peer, listening>>
  BY DEF Send, Logged
<1>7. Posting(e)
  <2>1. CASE HasFixForm(to_mor(m))
    <3>1. Deliver(end, encode_message(to_fix(to_mor(m))))
      BY <2>1 DEF Send
    <3>2. /\ e.from = end /\ ItemOf(e) =
               [seq |-> Len(log) + 1, message |-> to_order_entry(mor_of_fix(Arrived(e)))]
      BY DEF ItemOf, HandedOn
    <3> HIDE DEF e
    <3>3. QED
      BY <1>2, <1>4, <1>5, <1>6, <2>1, <3>1, <3>2 DEF Deliver, Posting
  <2>2. CASE ~HasFixForm(to_mor(m))
    <3>1. UNCHANGED <<inbox, requests_by_cl_ord_id>> /\ ~Heard(e)
      BY <1>5, <2>2 DEF Send
    <3> HIDE DEF e
    <3>2. QED
      BY <1>2, <1>6, <3>1 DEF Posting
  <2>3. QED
    BY <2>1, <2>2
<1>8. QED
  BY <1>2, <1>7

\* SendForeign is one too.
LEMMA SendForeignPosts ==
  ASSUME RoutingTypes, NEW end \in Ends, NEW message \in Foreign[end], SendForeign(end, message)
  PROVE  \E e \in Entry : Posting(e)
<1> DEFINE e == [from |-> end, own |-> FALSE, message |-> message, reached |-> Reaches(end)]
<1>1. Reaches(end) \in BOOLEAN
  BY EndFacts DEF Reaches, RoutingTypes
<1>2. e \in Entry /\ Sender(e)
  BY <1>1 DEF Entry, Sendings, Sender
<1>3. WireOf(e) = message
  BY DEF WireOf
<1>4. Arrived(e) = decode_message(message, Inbound[Other(end)])
  BY <1>3 DEF Arrived
<1>5. Heard(e) <=> Reaches(end) /\ Arrived(e) \notin {Invalid, Unsupported}
  BY DEF Heard
<1>6. /\ Len(log) < MaxSends /\ log' = Append(log, e) /\ UNCHANGED <<peer, listening>>
      /\ Deliver(end, message)
  BY DEF SendForeign, Logged
<1>7. /\ e.from = end /\ ItemOf(e) =
           [seq |-> Len(log) + 1, message |-> to_order_entry(mor_of_fix(Arrived(e)))]
  BY DEF ItemOf, HandedOn
<1> HIDE DEF e
<1>8. Posting(e)
  BY <1>2, <1>4, <1>5, <1>6, <1>7 DEF Deliver, Posting
<1>9. QED
  BY <1>2, <1>8

\* Where a sent message goes in the log and in the inboxes.
LEMMA PostingPlaces ==
  ASSUME RoutingTypes, NEW e \in Entry, Posting(e)
  PROVE  /\ Len(log) \in Nat /\ Len(log') = Len(log) + 1 /\ log'[Len(log) + 1] = e
         /\ log' \in Seq(Entry) /\ \A n \in 1 .. Len(log) : log'[n] = log[n]
         /\ \A to \in Ends :
              /\ Len(inbox[to]) \in Nat /\ inbox'[to] \in Seq(Item)
              /\ \A i \in 1 .. Len(inbox[to]) : inbox'[to][i] = inbox[to][i]
              /\ Heard(e) /\ to = Other(e.from) =>
                   /\ Len(inbox'[to]) = Len(inbox[to]) + 1
                   /\ inbox'[to][Len(inbox[to]) + 1] = ItemOf(e)
              /\ ~(Heard(e) /\ to = Other(e.from)) => inbox'[to] = inbox[to]
         /\ inbox' \in [Ends -> Seq(Item)]
<1>1. /\ log \in Seq(Entry) /\ log' = Append(log, e) /\ inbox \in [Ends -> Seq(Item)]
  BY DEF RoutingTypes, Posting
<1>2. /\ Len(log) \in Nat /\ Len(log') = Len(log) + 1 /\ log'[Len(log) + 1] = e
      /\ log' \in Seq(Entry) /\ \A n \in 1 .. Len(log) : log'[n] = log[n]
  BY <1>1
<1>3. ItemOf(e) \in Item
  BY <1>2 DEF ItemOf, Item, Letters
<1>4. /\ Heard(e) => inbox' = [inbox EXCEPT ![Other(e.from)] = Append(@, ItemOf(e))]
      /\ ~Heard(e) => inbox' = inbox
  BY DEF Posting
<1> HIDE DEF Item
<1>5. /\ Heard(e) => \A to \in Ends : inbox'[to] =
            IF to = Other(e.from) THEN Append(inbox[to], ItemOf(e)) ELSE inbox[to]
      /\ ~Heard(e) => \A to \in Ends : inbox'[to] = inbox[to]
  BY <1>1, <1>4
<1>6. ASSUME NEW to \in Ends
      PROVE  /\ Len(inbox[to]) \in Nat /\ inbox'[to] \in Seq(Item)
             /\ \A i \in 1 .. Len(inbox[to]) : inbox'[to][i] = inbox[to][i]
             /\ Heard(e) /\ to = Other(e.from) =>
                  /\ Len(inbox'[to]) = Len(inbox[to]) + 1
                  /\ inbox'[to][Len(inbox[to]) + 1] = ItemOf(e)
             /\ ~(Heard(e) /\ to = Other(e.from)) => inbox'[to] = inbox[to]
  <2>1. inbox[to] \in Seq(Item)
    BY <1>1
  <2>2. CASE Heard(e) /\ to = Other(e.from)
    <3>1. inbox'[to] = Append(inbox[to], ItemOf(e))
      BY <1>5, <2>2
    <3>2. QED
      BY <1>3, <2>1, <2>2, <3>1
  <2>3. CASE ~(Heard(e) /\ to = Other(e.from))
    <3>1. inbox'[to] = inbox[to]
      BY <1>5, <2>3
    <3>2. QED
      BY <2>1, <2>3, <3>1
  <2>4. QED
    BY <2>2, <2>3
<1>7. inbox' \in [Ends -> Seq(Item)]
  BY <1>1, <1>4, <1>6
<1>8. QED
  BY <1>2, <1>6, <1>7

\* Sending keeps the types.
LEMMA PostingTypes ==
  ASSUME RoutingTypes, NEW e \in Entry, Posting(e)
  PROVE  RoutingTypes'
<1>1. /\ Len(log) \in Nat /\ Len(log') = Len(log) + 1 /\ log'[Len(log) + 1] = e
      /\ log' \in Seq(Entry) /\ \A n \in 1 .. Len(log) : log'[n] = log[n]
      /\ inbox' \in [Ends -> Seq(Item)]
  BY PostingPlaces
<1>2. MaxSends \in Nat /\ Len(log) < MaxSends /\ Sender(e)
  BY RoutingAssumption DEF Posting
<1>3. Len(log') <= MaxSends
  BY <1>1, <1>2
<1>4. ASSUME NEW n \in 1 .. Len(log') PROVE Sender(log'[n])
  <2>1. n \in 1 .. Len(log) \/ n = Len(log) + 1
    BY <1>1
  <2>2. QED
    BY <1>1, <1>2, <2>1 DEF RoutingTypes
<1>5. DOMAIN requests_by_cl_ord_id' = 0 .. UintMod - 1
  BY DEF RoutingTypes, Posting, remember
<1>6. peer' = peer /\ listening' = listening
  BY DEF Posting
<1>7. QED
  BY <1>1, <1>3, <1>4, <1>5, <1>6 DEF RoutingTypes

\* What an inbox holds stands for the entries that were heard, once each.
LEMMA PostingBoxes ==
  ASSUME RoutingInv, NEW e \in Entry, Posting(e)
  PROVE  Genuine' /\ AtMostOnce' /\ AtLeastOnce'
<1>1. /\ Len(log) \in Nat /\ Len(log') = Len(log) + 1 /\ log'[Len(log) + 1] = e
      /\ \A n \in 1 .. Len(log) : log'[n] = log[n]
      /\ \A to \in Ends :
           /\ Len(inbox[to]) \in Nat
           /\ \A i \in 1 .. Len(inbox[to]) : inbox'[to][i] = inbox[to][i]
           /\ Heard(e) /\ to = Other(e.from) =>
                /\ Len(inbox'[to]) = Len(inbox[to]) + 1
                /\ inbox'[to][Len(inbox[to]) + 1] = ItemOf(e)
           /\ ~(Heard(e) /\ to = Other(e.from)) => inbox'[to] = inbox[to]
  BY PostingPlaces DEF RoutingInv
<1>2. ItemOf(e).seq = Len(log) + 1 /\ ItemOf(e).message = HandedOn(Arrived(e))
  BY DEF ItemOf
<1>3. e.from \in Ends /\ Other(Other(e.from)) = e.from
  BY EndFacts DEF Entry
<1>4. ASSUME NEW to \in Ends, NEW i \in 1 .. Len(inbox'[to])
      PROVE  \/ i \in 1 .. Len(inbox[to]) /\ inbox'[to][i] = inbox[to][i]
             \/ /\ i = Len(inbox[to]) + 1 /\ inbox'[to][i] = ItemOf(e)
                /\ Heard(e) /\ to = Other(e.from)
  <2>1. CASE Heard(e) /\ to = Other(e.from)
    <3>1. i \in 1 .. Len(inbox[to]) \/ i = Len(inbox[to]) + 1
      BY <1>1, <2>1
    <3>2. QED
      BY <1>1, <2>1, <3>1
  <2>2. CASE ~(Heard(e) /\ to = Other(e.from))
    BY <1>1, <2>2
  <2>3. QED
    BY <2>1, <2>2
<1>5. ASSUME NEW to \in Ends, NEW i \in 1 .. Len(inbox[to])
      PROVE  /\ inbox[to][i].seq \in 1 .. Len(log) /\ log[inbox[to][i].seq].from = Other(to)
             /\ Heard(log[inbox[to][i].seq])
             /\ inbox[to][i].message = HandedOn(Arrived(log[inbox[to][i].seq]))
  BY DEF RoutingInv, Genuine, Stands
<1>6. ASSUME NEW n \in 1 .. Len(log') PROVE n \in 1 .. Len(log) \/ n = Len(log) + 1
  BY <1>1
<1>7. ASSUME NEW n \in 1 .. Len(log) PROVE n \in 1 .. Len(log') /\ n # Len(log) + 1
  BY <1>1
<1>8. Len(log) + 1 \in 1 .. Len(log')
  BY <1>1
<1>9. Genuine'
  <2>1. SUFFICES ASSUME NEW to \in Ends, NEW i \in 1 .. Len(inbox'[to])
                 PROVE  /\ inbox'[to][i].seq \in 1 .. Len(log')
                        /\ log'[inbox'[to][i].seq].from = Other(to)
                        /\ Heard(log'[inbox'[to][i].seq])
                        /\ inbox'[to][i].message = HandedOn(Arrived(log'[inbox'[to][i].seq]))
    BY DEF Genuine, Stands, Heard, Arrived, WireOf
  <2>2. CASE i \in 1 .. Len(inbox[to]) /\ inbox'[to][i] = inbox[to][i]
    BY <1>1, <1>5, <1>7, <2>2
  <2>3. CASE inbox'[to][i] = ItemOf(e) /\ Heard(e) /\ to = Other(e.from)
    BY <1>1, <1>2, <1>3, <1>8, <2>3
  <2>4. QED
    BY <1>4, <2>2, <2>3
<1>10. AtMostOnce'
  <2>1. SUFFICES ASSUME NEW to \in Ends, NEW i \in 1 .. Len(inbox'[to]),
                        NEW j \in 1 .. Len(inbox'[to]), inbox'[to][i].seq = inbox'[to][j].seq
                 PROVE  i = j
    BY DEF AtMostOnce
  <2>2. CASE i \in 1 .. Len(inbox[to]) /\ inbox'[to][i] = inbox[to][i]
    <3>1. inbox'[to][i].seq # Len(log) + 1
      BY <1>5, <1>7, <2>2
    <3>2. j \in 1 .. Len(inbox[to]) /\ inbox'[to][j] = inbox[to][j]
      BY <1>2, <1>4, <2>1, <3>1
    <3>3. QED
      BY <2>1, <2>2, <3>2 DEF RoutingInv, AtMostOnce
  <2>3. CASE i = Len(inbox[to]) + 1 /\ inbox'[to][i] = ItemOf(e)
    <3>1. inbox'[to][j].seq = Len(log) + 1
      BY <1>2, <2>1, <2>3
    <3>2. ~(j \in 1 .. Len(inbox[to]) /\ inbox'[to][j] = inbox[to][j])
      BY <1>5, <1>7, <3>1
    <3>3. j = Len(inbox[to]) + 1
      BY <1>4, <3>2
    <3>4. QED
      BY <2>3, <3>3
  <2>4. QED
    BY <1>4, <2>2, <2>3
<1>11. AtLeastOnce'
  <2>1. SUFFICES ASSUME NEW to \in Ends, NEW n \in 1 .. Len(log'),
                        log'[n].from = Other(to), Heard(log'[n])
                 PROVE  \E i \in 1 .. Len(inbox'[to]) : inbox'[to][i].seq = n
    BY DEF AtLeastOnce, Heard, Arrived, WireOf
  <2>2. \A i \in 1 .. Len(inbox[to]) : i \in 1 .. Len(inbox'[to])
    <3>1. CASE Heard(e) /\ to = Other(e.from)
      BY <1>1, <3>1
    <3>2. CASE ~(Heard(e) /\ to = Other(e.from))
      BY <1>1, <3>2
    <3>3. QED
      BY <3>1, <3>2
  <2>3. CASE n \in 1 .. Len(log)
    <3>1. log[n].from = Other(to) /\ Heard(log[n])
      BY <1>1, <2>1, <2>3
    <3>2. PICK i \in 1 .. Len(inbox[to]) : inbox[to][i].seq = n
      BY <2>3, <3>1 DEF RoutingInv, AtLeastOnce
    <3>3. QED
      BY <1>1, <2>2, <3>2
  <2>4. CASE n = Len(log) + 1
    <3>1. Heard(e) /\ e.from = Other(to)
      BY <1>1, <2>1, <2>4
    <3>2. to = Other(e.from)
      BY <3>1, EndFacts
    <3>3. Len(inbox[to]) + 1 \in 1 .. Len(inbox'[to])
      BY <1>1, <3>1, <3>2
    <3>4. QED
      BY <1>1, <1>2, <2>4, <3>1, <3>2, <3>3
  <2>5. QED
    BY <1>6, <2>3, <2>4
<1>12. QED
  BY <1>9, <1>10, <1>11

-----------------------------------------------------------------------------
(* The requests remembered *)

\* The items with a ClOrdID, and the latest of them.
With(box, id) == {i \in DOMAIN box : box[i].message["cl_ord_id"] = id}

Latest(S) == CHOOSE i \in S : \A j \in S : j <= i

\* What is remembered for a ClOrdID that box is about.
LatestIn(box, id) ==
  IF With(box, id) = {} THEN None ELSE to_mor(box[Latest(With(box, id))].message)

\* Correlated in these terms.
LEMMA CorrelatedDef ==
  Correlated <=> \A id \in DOMAIN requests_by_cl_ord_id :
                   requests_by_cl_ord_id[id] = LatestIn(inbox["acceptor"], id)
BY Zenon DEF Correlated, LatestIn, Latest, With

\* The same of the next state.
LEMMA CorrelatedNext ==
  Correlated' <=> \A id \in DOMAIN requests_by_cl_ord_id' :
                    requests_by_cl_ord_id'[id] = LatestIn(inbox'["acceptor"], id)
BY Zenon DEF Correlated, LatestIn, Latest, With

\* A nonempty set of places in a sequence has a greatest element.
LEMMA HasGreatest ==
  ASSUME NEW n \in Nat, NEW S, S \subseteq 1 .. n, S # {}
  PROVE  \E x \in S : \A y \in S : y <= x
<1> DEFINE T == {n - s : s \in S}
<1>1. T \subseteq Nat /\ T # {}
  <2>1. PICK s \in S : TRUE
    OBVIOUS
  <2>2. n - s \in T
    BY <2>1
  <2>3. \A r \in S : n - r \in Nat
    OBVIOUS
  <2>4. QED
    BY <2>2, <2>3
<1>2. PICK t \in T : \A u \in T : ~(<<u, t>> \in OpToRel(<, Nat))
  BY <1>1, WFMin, NatLessThanWellFounded
<1>3. \A u \in T : u < t => <<u, t>> \in {ss \in Nat \X Nat : ss[1] < ss[2]}
  BY <1>1
<1>4. \A u \in T : ~(u < t)
  BY <1>2, <1>3 DEF OpToRel
<1>5. PICK x \in S : t = n - x
  BY <1>2
<1>6. \A y \in S : y <= x
  BY <1>4, <1>5
<1>7. QED
  BY <1>6

\* One more item is the latest with its ClOrdID, and no other one is affected.
LEMMA LatestAppend ==
  ASSUME NEW S, NEW box \in Seq(S), NEW item \in S, NEW id
  PROVE  LatestIn(Append(box, item), id) =
           IF item.message["cl_ord_id"] = id THEN to_mor(item.message) ELSE LatestIn(box, id)
<1> DEFINE box2 == Append(box, item)
           L == Len(box)
<1>1. /\ L \in Nat /\ DOMAIN box = 1 .. L /\ DOMAIN box2 = 1 .. L + 1
      /\ box2[L + 1] = item /\ \A i \in 1 .. L : box2[i] = box[i]
  BY SMT
<1> HIDE DEF box2, L
<1>2. CASE item.message["cl_ord_id"] = id
  <2>1. L + 1 \in With(box2, id) /\ With(box2, id) \subseteq 1 .. L + 1
    BY <1>1, <1>2 DEF With
  <2>2. \A j \in With(box2, id) : j <= L + 1
    BY <1>1, <2>1
  <2>3. \A i \in With(box2, id) : (\A j \in With(box2, id) : j <= i) => i = L + 1
    BY <1>1, <2>1
  <2>4. Latest(With(box2, id)) = L + 1
    BY <2>1, <2>2, <2>3 DEF Latest
  <2>5. LatestIn(box2, id) = to_mor(item.message)
    BY <1>1, <2>1, <2>4 DEF LatestIn
  <2>6. QED
    BY <1>2, <2>5 DEF box2
<1>3. CASE item.message["cl_ord_id"] # id
  <2>1. With(box2, id) = With(box, id)
    BY <1>1, <1>3 DEF With
  <2>2. CASE With(box, id) = {}
    <3>1. LatestIn(box2, id) = LatestIn(box, id)
      BY <2>1, <2>2, Zenon DEF LatestIn
    <3>2. QED
      BY <1>3, <3>1 DEF box2
  <2>3. CASE With(box, id) # {}
    <3>1. With(box, id) \subseteq 1 .. L
      BY <1>1 DEF With
    <3>2. PICK x \in With(box, id) : \A j \in With(box, id) : j <= x
      BY <1>1, <2>3, <3>1, HasGreatest
    <3>3. Latest(With(box, id)) \in With(box, id)
      BY <3>2 DEF Latest
    <3>4. box2[Latest(With(box, id))] = box[Latest(With(box, id))]
      BY <1>1, <3>1, <3>3
    <3>5. LatestIn(box2, id) = LatestIn(box, id)
      BY <2>1, <3>4, Zenon DEF LatestIn
    <3>6. QED
      BY <1>3, <3>5 DEF box2
  <2>4. QED
    BY <2>2, <2>3
<1>4. QED
  BY <1>2, <1>3

\* Sending keeps the requests remembered in step with the inbox.
LEMMA PostingCorrelated ==
  ASSUME RoutingInv, NEW e \in Entry, Posting(e)
  PROVE  Correlated'
<1> DEFINE box == inbox["acceptor"]
           routed == mor_of_fix(Arrived(e))
           heard == Heard(e) /\ Other(e.from) = "acceptor"
<1>1. RoutingTypes /\ Correlated /\ "acceptor" \in Ends
  BY DEF RoutingInv, Ends
<1>2. \A id \in DOMAIN requests_by_cl_ord_id : requests_by_cl_ord_id[id] = LatestIn(box, id)
  BY <1>1, CorrelatedDef
<1>3. Correlated' <=> \A id \in DOMAIN requests_by_cl_ord_id' :
                        requests_by_cl_ord_id'[id] = LatestIn(inbox'["acceptor"], id)
  BY CorrelatedNext
<1>4. CASE ~heard
  <2>1. inbox'["acceptor"] = box
    BY <1>1, <1>4, PostingPlaces
  <2>2. requests_by_cl_ord_id' = requests_by_cl_ord_id
    BY <1>4 DEF Posting
  <2>3. QED
    BY <1>2, <1>3, <2>1, <2>2
<1>5. CASE heard
  <2>1. inbox \in [Ends -> Seq(Item)] /\ Len(log) \in Nat
    BY <1>1 DEF RoutingTypes
  <2>2. inbox'["acceptor"] = Append(box, ItemOf(e))
    BY <1>1, <1>5, <2>1 DEF Posting
  <2>3. ItemOf(e) \in Item /\ box \in Seq(Item)
    BY <1>1, <2>1 DEF ItemOf, Item, Letters
  <2>4. ItemOf(e).message = HandedOn(Arrived(e))
    BY DEF ItemOf
  <2>5. requests_by_cl_ord_id' = [requests_by_cl_ord_id EXCEPT ![routed["cl_ord_id"]] = routed]
    BY <1>5 DEF Posting, remember
  <2>6. WellDecoded("acceptor", Arrived(e))
    BY <1>5, HeardWell DEF Posting
  <2>7. /\ to_mor(ItemOf(e).message) = routed
        /\ ItemOf(e).message["cl_ord_id"] = routed["cl_ord_id"]
    BY <2>4, <2>6 DEF WellDecoded
  <2> HIDE DEF box, routed
  <2>8. \A id : LatestIn(Append(box, ItemOf(e)), id) =
                  IF routed["cl_ord_id"] = id THEN routed ELSE LatestIn(box, id)
    BY <2>3, <2>7, LatestAppend
  <2>9. ASSUME NEW id \in DOMAIN requests_by_cl_ord_id'
        PROVE  requests_by_cl_ord_id'[id] = LatestIn(inbox'["acceptor"], id)
    <3>1. id \in DOMAIN requests_by_cl_ord_id
      BY <2>5
    <3>2. requests_by_cl_ord_id'[id] =
            IF routed["cl_ord_id"] = id THEN routed ELSE requests_by_cl_ord_id[id]
      BY <2>5, <3>1
    <3>3. QED
      BY <1>2, <2>2, <2>8, <3>1, <3>2 DEF box
  <2>10. QED
    BY <1>3, <2>9
<1>6. QED
  BY <1>4, <1>5

-----------------------------------------------------------------------------
(* The theorems *)

\* Nothing was sent yet.
LEMMA InitRouting == Init => RoutingInv
<1> SUFFICES ASSUME Init PROVE RoutingInv
  OBVIOUS
<1>1. /\ log = << >> /\ Len(log) = 0 /\ \A to \in Ends : inbox[to] = << >> /\ Len(inbox[to]) = 0
  BY DEF Init
<1>2. RoutingTypes
  BY <1>1, RoutingAssumption DEF Init, RoutingTypes
<1>3. Genuine /\ AtMostOnce /\ AtLeastOnce
  BY <1>1 DEF Genuine, AtMostOnce, AtLeastOnce
<1>4. \A id : With(inbox["acceptor"], id) = {}
  BY DEF With, Init, Ends
<1>5. Correlated
  BY <1>4, CorrelatedDef DEF LatestIn, Init
<1>6. QED
  BY <1>2, <1>3, <1>5 DEF RoutingInv

\* A step that sends nothing keeps what was sent.
LEMMA Quiet ==
  ASSUME RoutingInv, UNCHANGED <<log, inbox, requests_by_cl_ord_id>>,
         peer' \in [Ends -> BOOLEAN], listening' \in [Ends -> BOOLEAN]
  PROVE  RoutingInv'
<1>1. RoutingTypes'
  BY DEF RoutingInv, RoutingTypes
<1>2. Genuine' /\ AtMostOnce' /\ AtLeastOnce'
  BY DEF RoutingInv, Genuine, AtMostOnce, AtLeastOnce, Stands
<1>3. Correlated'
  BY CorrelatedDef, CorrelatedNext DEF RoutingInv
<1>4. QED
  BY <1>1, <1>2, <1>3 DEF RoutingInv

\* Every step keeps the invariant.
LEMMA NextRouting ==
  ASSUME RoutingInv, [Next]_vars
  PROVE  RoutingInv'
<1>1. RoutingTypes /\ peer \in [Ends -> BOOLEAN] /\ listening \in [Ends -> BOOLEAN]
  BY DEF RoutingInv, RoutingTypes
<1>2. ASSUME NEW e \in Entry, Posting(e) PROVE RoutingInv'
  BY <1>1, <1>2, PostingTypes, PostingBoxes, PostingCorrelated DEF RoutingInv
<1>3. CASE ConnectPair
  BY <1>1, <1>3, Quiet DEF ConnectPair
<1>4. ASSUME NEW end \in Ends, Connect(end) PROVE RoutingInv'
  BY <1>1, <1>4, Quiet DEF Connect
<1>5. ASSUME NEW end \in Ends, Listen(end) PROVE RoutingInv'
  BY <1>1, <1>5, Quiet DEF Listen
<1>6. ASSUME NEW end \in Ends, NEW m \in Outgoing[end], Send(end, m) PROVE RoutingInv'
  BY <1>1, <1>2, <1>6, SendPosts
<1>7. ASSUME NEW end \in Ends, NEW message \in Foreign[end], SendForeign(end, message)
      PROVE  RoutingInv'
  BY <1>1, <1>2, <1>7, SendForeignPosts
<1>8. CASE Done
  BY <1>1, <1>8, Quiet DEF Done, vars
<1>9. CASE UNCHANGED vars
  BY <1>1, <1>9, Quiet DEF vars
<1>10. QED
  BY <1>3, <1>4, <1>5, <1>6, <1>7, <1>8, <1>9 DEF Next

\* The inductive invariant of the connection: the items of the inboxes stand
\* for the entries of the log that were heard, one for one, and the requests
\* remembered are the latest of them.
THEOREM RoutingInvariance == Spec => []RoutingInv
BY InitRouting, NextRouting, PTL DEF Spec

\* TypeOK holds: whatever another encoder has put on the wire, the decoders of
\* codecs.cpp and the conversions of morfix and mor hand on only requests to
\* the acceptor, and events to the initiator, that are well formed.
THEOREM OnlyWellFormed == Spec => []TypeOK
<1>1. RoutingInv => TypeOK
  <2> SUFFICES ASSUME RoutingInv PROVE TypeOK
    OBVIOUS
  <2>1. /\ RoutingTypes /\ log \in Seq(Entry) /\ inbox \in [Ends -> Seq(Item)]
        /\ DOMAIN log = 1 .. Len(log)
    BY DEF RoutingInv, RoutingTypes
  <2>2. ASSUME NEW to \in Ends, NEW i \in DOMAIN inbox[to]
        PROVE  /\ inbox[to][i].seq \in DOMAIN log
               /\ to = "acceptor" => IsRequest(inbox[to][i].message)
               /\ to = "initiator" => IsEvent(inbox[to][i].message)
    <3>1. i \in 1 .. Len(inbox[to])
      BY <2>1
    <3>2. Stands(to, inbox[to][i])
      BY <3>1 DEF RoutingInv, Genuine
    <3> DEFINE e == log[inbox[to][i].seq]
    <3>3. e \in Entry /\ Sender(e) /\ Heard(e) /\ to = Other(e.from)
      BY <2>1, <3>2, EndFacts DEF Stands, RoutingTypes
    <3>4. WellDecoded(to, Arrived(e))
      BY <3>3, HeardWell
    <3>5. QED
      BY <2>1, <3>2, <3>4 DEF Stands, WellDecoded
  <2>3. "acceptor" \in Ends /\ "initiator" \in Ends
    BY DEF Ends
  <2>4. QED
    BY <2>1, <2>2, <2>3 DEF TypeOK, RoutingTypes
<1>2. QED
  BY <1>1, RoutingInvariance, PTL

\* Carried holds: what one end sends the other hands on unchanged and exactly
\* once, but for a flush, a message with an empty name and unknown_symbol.
THEOREM CarriedHolds == Spec => []Carried
<1>1. RoutingInv => Carried
  <2> SUFFICES ASSUME RoutingInv,
                      NEW n \in {k \in DOMAIN log : log[k].own}
               PROVE  LET m == log[n].message
                          box == inbox[Other(log[n].from)]
                          got == {i \in DOMAIN box : box[i].seq = n}
                      IN IF log[n].reached /\ m["message_type"] # "flush" /\ ~HasEmptyName(m)
                         THEN Cardinality(got) = 1 /\ \A i \in got : box[i].message = AsReported(m)
                         ELSE got = {}
    BY DEF Carried
  <2> DEFINE m == log[n].message
             to == Other(log[n].from)
             box == inbox[to]
             got == {i \in DOMAIN box : box[i].seq = n}
  <2>1. /\ RoutingTypes /\ log \in Seq(Entry) /\ inbox \in [Ends -> Seq(Item)]
        /\ n \in 1 .. Len(log) /\ log[n].own
    BY DEF RoutingInv, RoutingTypes
  <2>2. log[n] \in Entry /\ Sender(log[n])
    BY <2>1 DEF RoutingTypes
  <2>3. to \in Ends /\ Other(to) = log[n].from
    BY <2>2, EndFacts DEF Entry
  <2>4. DOMAIN box = 1 .. Len(box)
    BY <2>1, <2>3
  <2>5. /\ Heard(log[n]) <=>
             log[n].reached /\ m["message_type"] # "flush" /\ ~HasEmptyName(m)
        /\ Heard(log[n]) => HandedOn(Arrived(log[n])) = AsReported(m)
    BY <2>1, <2>2, OwnHeard
  <2>6. \A i \in got : Heard(log[n]) /\ box[i].message = HandedOn(Arrived(log[n]))
    BY <2>3, <2>4 DEF RoutingInv, Genuine, Stands
  <2>7. ASSUME Heard(log[n]) PROVE Cardinality(got) = 1
    <3>1. PICK i \in 1 .. Len(box) : box[i].seq = n
      BY <2>1, <2>3, <2>7 DEF RoutingInv, AtLeastOnce
    <3>2. \A j \in got : j = i
      BY <2>3, <2>4, <3>1 DEF RoutingInv, AtMostOnce
    <3>3. got = {i}
      BY <2>4, <3>1, <3>2
    <3>4. QED
      BY <3>3, FS_Singleton
  <2> HIDE DEF got, m, box
  <2>8. CASE Heard(log[n])
    BY <2>5, <2>6, <2>7, <2>8 DEF got, m, box
  <2>9. CASE ~Heard(log[n])
    <3>1. got = {}
      BY <2>6, <2>9
    <3>2. QED
      BY <2>5, <2>9, <3>1 DEF got, m, box
  <2>10. QED
    BY <2>8, <2>9
<1>2. QED
  BY <1>1, RoutingInvariance, PTL

\* Correlated holds: lifecycle_state::find gives the latest request that
\* arrived with a ClOrdID, and nothing for one that never arrived.
THEOREM CorrelatedHolds == Spec => []Correlated
<1>1. RoutingInv => Correlated
  BY DEF RoutingInv
<1>2. QED
  BY <1>1, RoutingInvariance, PTL

=============================================================================
