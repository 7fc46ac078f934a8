----------------------------- MODULE FixRouting -----------------------------
(***************************************************************************)
(* Two ends of a FIX connection over the in-memory sessions of             *)
(* src/src/quickfix_fix: the initiator sends requests, the acceptor        *)
(* remembers them in its morfix::lifecycle_state and sends events.  Each   *)
(* end converts and encodes what it sends, and decodes and converts back   *)
(* what it receives, as in the loop of                                     *)
(* src/test/morfix_quickfix/src/codecs_test.cpp.                           *)
(***************************************************************************)
EXTENDS FixCodec, Sequences

CONSTANTS
  Outgoing,   \* for each end, the order_entry messages that it may send
  Foreign,    \* for each end, messages that another encoder has made
  MaxSends    \* bound on the messages sent

VARIABLES
  peer,        \* memory_session::peer_ of each end is set
  listening,   \* on_message of each end is set
  log,         \* history: what was sent, and whether anybody was there
  inbox,       \* history: what each end handed on, with its place in log
  requests_by_cl_ord_id   \* for each ClOrdID the request remembered, or None

vars == <<peer, listening, log, inbox, requests_by_cl_ord_id>>

Ends == {"initiator", "acceptor"}
Other(end) == IF end = "initiator" THEN "acceptor" ELSE "initiator"

\* The message types that each end decodes.
Inbound ==
  [acceptor |-> {"new_order_single", "order_cancel_replace_request",
                 "order_cancel_request"},
   initiator |-> {"execution_report", "order_cancel_reject"}]

None == [message_type |-> "none"]

ASSUME RoutingAssumption ==
  /\ \A m \in Outgoing["initiator"] : IsRequest(m)
  /\ \A m \in Outgoing["acceptor"] : IsEvent(m)
  /\ \A end \in Ends : \A message \in Foreign[end] :
       tag["text"] \in DOMAIN message.fields => message.fields[tag["text"]][2] \in Texts
  /\ MaxSends \in Nat

Init ==
  /\ peer = [end \in Ends |-> FALSE]
  /\ listening = [end \in Ends |-> FALSE]
  /\ log = << >>
  /\ inbox = [end \in Ends |-> << >>]
  /\ requests_by_cl_ord_id = [id \in 0 .. UintMod - 1 |-> None]

-----------------------------------------------------------------------------
(* quickfix_fix/session.cpp *)

Connect(end) ==
  /\ ~peer[end]
  /\ peer' = [peer EXCEPT ![end] = TRUE]
  /\ UNCHANGED <<listening, log, inbox, requests_by_cl_ord_id>>

\* session_pair
ConnectPair ==
  /\ \A end \in Ends : ~peer[end]
  /\ peer' = [end \in Ends |-> TRUE]
  /\ UNCHANGED <<listening, log, inbox, requests_by_cl_ord_id>>

\* The owner of an end assigns on_message.
Listen(end) ==
  /\ ~listening[end]
  /\ listening' = [listening EXCEPT ![end] = TRUE]
  /\ UNCHANGED <<peer, log, inbox, requests_by_cl_ord_id>>

Reaches(end) == peer[end] /\ listening[Other(end)]

-----------------------------------------------------------------------------
(* morfix/session.cpp *)

\* Faulty variant: a request does not replace an earlier one.
rememberFirst(request) ==
  [requests_by_cl_ord_id EXCEPT ![request["cl_ord_id"]] = IF @ = None THEN request ELSE @]

\* lifecycle_state::remember; a flush never gets here.
remember(request) ==
  [requests_by_cl_ord_id EXCEPT ![request["cl_ord_id"]] = request]

-----------------------------------------------------------------------------
(* The loop *)

\* memory_session::send to memory_session::receive: without a peer it is an
\* error, without a callback the message is gone, and otherwise the receiver
\* decodes it, remembers a request and hands it on unless that fails.  No code
\* wires lifecycle_state to an acceptor yet: that it sees each request that comes
\* in is the composition of this module.
Deliver(end, message) ==
  LET to == Other(end)
      decoded == decode_message(message, Inbound[to])
      routed == mor_of_fix(decoded)
  IN IF Reaches(end) /\ decoded \notin {Invalid, Unsupported}
     THEN /\ inbox' = [inbox EXCEPT ![to] =
                         Append(@, [seq |-> Len(log) + 1, message |-> to_order_entry(routed)])]
          /\ requests_by_cl_ord_id' =
               IF to = "acceptor" THEN remember(routed) ELSE requests_by_cl_ord_id
     ELSE UNCHANGED <<inbox, requests_by_cl_ord_id>>

\* Log entries: the message, unless it is foreign, and the end that sent it.
Logged(end, own, message) ==
  log' = Append(log, [from |-> end, own |-> own, message |-> message,
                      reached |-> Reaches(end)])

\* A message from order_entry goes down the layers; one without a FIX form is
\* not sent.
Send(end, m) ==
  /\ Len(log) < MaxSends
  /\ Logged(end, TRUE, m)
  /\ \/ /\ HasFixForm(to_mor(m))
        /\ Deliver(end, encode_message(to_fix(to_mor(m))))
     \/ /\ ~HasFixForm(to_mor(m))
        /\ UNCHANGED <<inbox, requests_by_cl_ord_id>>
  /\ UNCHANGED <<peer, listening>>

SendForeign(end, message) ==
  /\ Len(log) < MaxSends
  /\ Logged(end, FALSE, message)
  /\ Deliver(end, message)
  /\ UNCHANGED <<peer, listening>>

\* The bound is reached.
Done ==
  /\ Len(log) = MaxSends
  /\ UNCHANGED vars

Next ==
  \/ ConnectPair
  \/ \E end \in Ends :
       \/ Connect(end)
       \/ Listen(end)
       \/ \E m \in Outgoing[end] : Send(end, m)
       \/ \E message \in Foreign[end] : SendForeign(end, message)
  \/ Done

Spec == Init /\ [][Next]_vars

-----------------------------------------------------------------------------
(* Properties *)

\* Only well-formed messages leave the stack, in range of their types and with
\* all their members, whatever another encoder has sent.
TypeOK ==
  /\ peer \in [Ends -> BOOLEAN] /\ listening \in [Ends -> BOOLEAN]
  /\ Len(log) <= MaxSends
  /\ \A i \in DOMAIN inbox["acceptor"] : IsRequest(inbox["acceptor"][i].message)
  /\ \A i \in DOMAIN inbox["initiator"] : IsEvent(inbox["initiator"][i].message)
  /\ \A end \in Ends : \A i \in DOMAIN inbox[end] : inbox[end][i].seq \in DOMAIN log

\* A name that is empty is encoded, and refused by the decoder.
HasEmptyName(m) ==
  \E f \in {"symbol", "security_exchange"} \cap DOMAIN m : m[f] = ""

\* B3 has one code for an unknown order and an unknown symbol.
AsReported(m) ==
  [f \in DOMAIN m |->
     IF f = "reject_reason" /\ m[f] = "unknown_symbol" THEN "unknown_order" ELSE m[f]]

\* Six conversions are together the identity: what one end sends, the other
\* hands on unchanged and exactly once, if anybody was there to hear it, but
\* for a flush, which has no FIX form, a message with an empty name, which the
\* other end refuses after it was sent, and the reason unknown_symbol, which
\* arrives as unknown_order (conversions.cpp of mor and morfix, codecs.cpp, b3.cpp).
Carried ==
  \A n \in {k \in DOMAIN log : log[k].own} :
    LET m == log[n].message
        box == inbox[Other(log[n].from)]
        got == {i \in DOMAIN box : box[i].seq = n}
    IN IF log[n].reached /\ m["message_type"] # "flush" /\ ~HasEmptyName(m)
       THEN Cardinality(got) = 1 /\ \A i \in got : box[i].message = AsReported(m)
       ELSE got = {}

\* lifecycle_state::find gives the latest request that arrived with a ClOrdID,
\* of whichever client, in the form that mor gives it, and nothing for one that
\* never arrived or was refused (morfix/src/session.cpp:12-28).
Correlated ==
  LET box == inbox["acceptor"]
      With(id) == {i \in DOMAIN box : box[i].message["cl_ord_id"] = id}
  IN \A id \in DOMAIN requests_by_cl_ord_id :
       requests_by_cl_ord_id[id] =
         IF With(id) = {} THEN None
         ELSE to_mor(box[CHOOSE i \in With(id) : \A j \in With(id) : j <= i].message)

=============================================================================
