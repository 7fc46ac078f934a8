---------------------------- MODULE MCFixRouting ----------------------------
(***************************************************************************)
(* The instance of FixRouting for TLC.                                     *)
(***************************************************************************)
EXTENDS FixRouting, TLC

NewOrder(client, symbol) ==
  [message_type |-> "new_order_single", client_id |-> client, cl_ord_id |-> 1,
   security_id |-> 2, symbol |-> symbol, security_exchange |-> "BVMF", side |-> "buy",
   ord_type |-> "limit", time_in_force |-> "day", order_qty |-> 3, price |-> 1]

Replace ==
  [message_type |-> "replace_order", client_id |-> 1, cl_ord_id |-> 2,
   orig_cl_ord_id |-> 1, security_id |-> 0, symbol |-> "IBM",
   security_exchange |-> "XNYS", side |-> "sell", ord_type |-> "market",
   time_in_force |-> "ioc", order_qty |-> 0, price |-> 3]

Cancel ==
  [message_type |-> "cancel_order", client_id |-> 2, cl_ord_id |-> 1,
   orig_cl_ord_id |-> 3]

MCRequests ==
  {NewOrder(1, "IBM"), NewOrder(2, "IBM"), NewOrder(1, ""), Replace, Cancel,
   [message_type |-> "flush"]}

Report(exec_type, ord_status, text) ==
  [message_type |-> "execution_report", client_id |-> 1, cl_ord_id |-> 1, order_id |-> 3,
   exec_id |-> 2, security_id |-> 0, symbol |-> "IBM", security_exchange |-> "BVMF",
   side |-> "sell", ord_type |-> "limit", time_in_force |-> "day",
   exec_type |-> exec_type, ord_status |-> ord_status, order_qty |-> 3, cum_qty |-> 0,
   leaves_qty |-> 2, transact_time |-> 1, text |-> text]

Reject(reason, text) ==
  [message_type |-> "cancel_reject", client_id |-> 1, cl_ord_id |-> 2,
   orig_cl_ord_id |-> 1, reject_reason |-> reason, text |-> text, transact_time |-> 0]

MCEvents ==
  {Report("new_order", "new_order", ""), Report("replaced", "replaced", "ok"),
   Report("canceled", "canceled", ""), Report("expired", "expired", ""),
   Report("trade", "partially_filled", "") @@
     [last_qty |-> 1, last_px |-> 0, avg_px |-> 2, orig_cl_ord_id |-> 0],
   Report("rejected", "rejected", "ok") @@ [reject_reason |-> "unknown_symbol"],
   Reject("unknown_order", ""), Reject("duplicate_order", "ok")}

MCOutgoing == [initiator |-> MCRequests, acceptor |-> MCEvents]

N(n) == <<"digits", n>>
T(s) == <<"text", s>>

RawCancel(account) ==
  [msg_type |-> "F", fields |-> 1 :> N(account) @@ 11 :> N(1) @@ 41 :> N(3)]

RawReject(reason, text) ==
  [msg_type |-> "9",
   fields |-> 1 :> N(1) @@ 11 :> N(2) @@ 41 :> N(1) @@ 102 :> reason @@ 60 :> N(0) @@
              58 :> text]

\* A type that the receiver does not know, a good cancel, one without its
\* account and one with an integer out of range; a good reject, one with a code
\* that B3 does not have and one with an empty text.
MCForeign ==
  [initiator |->
     {[msg_type |-> "Z", fields |-> 11 :> N(1)], RawReject(T("1"), T("ok")), RawCancel(2),
      RawCancel(UintMod), [msg_type |-> "F", fields |-> 11 :> N(1) @@ 41 :> N(1)]},
   acceptor |->
     {RawReject(T("99"), T("ok")), RawReject(T("7"), T("ok")),
      RawReject(T("6"), T(""))}]

=============================================================================
