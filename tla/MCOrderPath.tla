---------------------------- MODULE MCOrderPath ----------------------------
(***************************************************************************)
(* The instance of OrderPath for TLC.                                      *)
(***************************************************************************)
EXTENDS OrderPath, TLC

Num(n) == <<"number", n>>
Str(s) == <<"string", s>>
Doc(members) == Payload("document", members)

\* A limit order without its optional members; -1 wraps.
BareOrder(qty, price) ==
  [message_type |-> Str("new_order_single"), client_id |-> Num(1),
   cl_ord_id |-> Num(1), symbol |-> Str("IBM"), side |-> Str("buy"),
   order_qty |-> Num(qty), price |-> Num(price)]

\* The same with values that differ from the defaults.
FullOrder ==
  BareOrder(1, 1) @@ [time_in_force |-> Str("ioc"), ord_type |-> Str("market"),
                      security_id |-> Num(2), security_exchange |-> Str("XNYS")]

BareReplace ==
  BareOrder(1, 0) @@ [orig_cl_ord_id |-> Num(0)]

Cancel ==
  [message_type |-> Str("cancel_order"), client_id |-> Num(1), cl_ord_id |-> Num(2),
   orig_cl_ord_id |-> Num(1)]

\* With a member that a flush does not have.
Flush == [message_type |-> Str("flush"), price |-> Str("none")]

GoodLines ==
  {Doc(BareOrder(1, 2)), Doc(BareOrder(-1, 0)), Doc(FullOrder), Doc(Cancel), Doc(Flush),
   Doc([BareReplace EXCEPT !["message_type"] = Str("replace_order")])}

\* A missing member, a bad enumerator, a symbol that is too long, a null, a
\* message type that does not exist, and a text that is no object.
BadLines ==
  {Doc([message_type |-> Str("cancel_order"), client_id |-> Num(1)]),
   Doc([BareOrder(1, 1) EXCEPT !["side"] = Str("short")]),
   Doc([BareOrder(1, 1) EXCEPT !["symbol"] = Str("a name of 17 char")]),
   Doc(BareOrder(1, 1) @@ [security_id |-> <<"null", 0>>]),
   Doc([message_type |-> Str("ping")]),
   Payload("text", << >>)}

Empty == Payload("empty", << >>)
Blank == Payload("blank", << >>)

MCLines == GoodLines \cup BadLines \cup {Empty, Blank}
MCOthers == {Blank, Payload("text", << >>), Doc(Cancel)}

=============================================================================
