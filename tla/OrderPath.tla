----------------------------- MODULE OrderPath -----------------------------
(***************************************************************************)
(* The way of an order from a line of the client's input to the request    *)
(* that the server's session hands on: the client program                  *)
(* (src/src/client, src/src/order_client), the network, and                *)
(* order_entry::session (src/src/order_entry/src/session.cpp).             *)
(*                                                                         *)
(* The client decodes each line, which fills in the defaults, encodes the  *)
(* request again and sends it; it gives up at the first error.  Datagrams  *)
(* are lost, repeated and reordered, and other senders use the port too.   *)
(***************************************************************************)
EXTENDS JsonCodec, Sequences

CONSTANTS
  Lines,      \* lines that the client's input may contain
  MaxLines,   \* bound on the lines it reads
  Others,     \* payloads from other senders
  ClientMax,  \* max_datagram_size of the client's decoder (main.cpp:113)
  SenderMax,  \* max_datagram_size of its udp_sender
  ServerMax   \* max_datagram_size of the server's decoder

VARIABLES
  client,    \* "connecting", "reading", "ended" or "failed"
  script,    \* the lines read so far
  sent,      \* history: which of them went out, in order
  flying,    \* datagrams on the network, with the line they stem from or 0
  outcomes   \* history: what the session made of each datagram it was given

vars == <<client, script, sent, flying, outcomes>>

ASSUME PathAssumption ==
  /\ \A line \in Lines \cup Others :
       /\ line.kind \in {"empty", "blank", "text", "document"}
       /\ line.kind # "document" => line.members = << >>
       /\ \A f \in DOMAIN line.members :
            line.members[f][1] = "number" => line.members[f][2] \in Int
  /\ MaxLines \in Nat
  /\ ClientMax \in Nat /\ SenderMax \in Nat /\ ServerMax \in Nat

Init ==
  /\ client = "connecting"
  /\ script = << >>
  /\ sent = << >>
  /\ flying = {[line |-> 0, payload |-> p] : p \in Others}
  /\ outcomes = {}

-----------------------------------------------------------------------------
(* client/src/main.cpp and order_client/src *)

\* run_client: the address does not parse, the socket or the input file does
\* not open, or send_commands begins.
Connect ==
  /\ client = "connecting"
  /\ client' \in {"reading", "failed"}
  /\ UNCHANGED <<script, sent, flying, outcomes>>

\* client::send and udp_sender::send of the request on line n; the limit is
\* that of the encoded request, not of the line, and send_to may fail.
Transmit(n, request) ==
  \/ /\ Size(encode(request)) <= SenderMax
     /\ flying' = flying \cup {[line |-> n, payload |-> encode(request)]}
     /\ sent' = Append(sent, n)
     /\ UNCHANGED client
  \/ /\ client' = "failed"
     /\ UNCHANGED <<sent, flying>>

\* Faulty variant: a line that does not decode is passed over.
ReadLineTolerant(line) ==
  /\ client = "reading" /\ Len(script) < MaxLines
  /\ script' = Append(script, line)
  /\ \/ /\ line.kind = "empty" \/ decode(line, ClientMax) = Failure
        /\ UNCHANGED <<client, sent, flying>>
     \/ /\ line.kind # "empty" /\ decode(line, ClientMax) # Failure
        /\ Transmit(Len(script) + 1, decode(line, ClientMax))
  /\ UNCHANGED outcomes

\* One round of send_commands: an empty line is skipped, a line that does not
\* decode ends the client, and so does a request that cannot be sent.
ReadLine(line) ==
  /\ client = "reading" /\ Len(script) < MaxLines
  /\ script' = Append(script, line)
  /\ \/ /\ line.kind = "empty"
        /\ UNCHANGED <<client, sent, flying>>
     \/ /\ line.kind # "empty" /\ decode(line, ClientMax) = Failure
        /\ client' = "failed"
        /\ UNCHANGED <<sent, flying>>
     \/ /\ line.kind # "empty" /\ decode(line, ClientMax) # Failure
        /\ Transmit(Len(script) + 1, decode(line, ClientMax))
  /\ UNCHANGED outcomes

EndOfInput ==
  /\ client = "reading"
  /\ client' = "ended"
  /\ UNCHANGED <<script, sent, flying, outcomes>>

-----------------------------------------------------------------------------
(* The network *)

\* A datagram that is not removed when it is delivered comes again.
Lose ==
  /\ \E d \in flying : flying' = flying \ {d}
  /\ UNCHANGED <<client, script, sent, outcomes>>

-----------------------------------------------------------------------------
(* session.cpp *)

\* What session::send does: nothing, on_request or on_rejected; every kind of
\* failure is funnelled into a rejection.
Outcome(payload) ==
  IF payload.kind \in {"empty", "blank"} THEN "ignored"
  ELSE IF decode(payload, ServerMax) = Failure THEN "rejected"
  ELSE "request"

Deliver ==
  /\ \E d \in flying :
       outcomes' = outcomes \cup
         {[line |-> d.line, verdict |-> Outcome(d.payload),
           request |-> IF Outcome(d.payload) = "request"
                       THEN decode(d.payload, ServerMax) ELSE Failure]}
  /\ UNCHANGED <<client, script, sent, flying>>

\* The client is gone and nothing is left to deliver.
Quiet ==
  /\ client \in {"ended", "failed"} /\ flying = {}
  /\ UNCHANGED vars

Next ==
  \/ Connect
  \/ \E line \in Lines : ReadLine(line)
  \/ EndOfInput
  \/ Lose
  \/ Deliver
  \/ Quiet

Spec == Init /\ [][Next]_vars

-----------------------------------------------------------------------------
(* Properties *)

\* Types of the client, its history, the network and the outcomes.
TypeOK ==
  /\ client \in {"connecting", "reading", "ended", "failed"}
  /\ script \in Seq(Lines) /\ Len(script) <= MaxLines
  /\ sent \in Seq(1 .. MaxLines)
  /\ \A d \in flying :
       /\ d.line \in 0 .. Len(script)
       /\ d.line = 0 => d.payload \in Others
  /\ \A o \in outcomes :
       /\ o.line \in 0 .. Len(script)
       /\ o.verdict \in {"ignored", "rejected", "request"}
       /\ o.verdict = "request" <=> o.request # Failure
       /\ o.request = Failure \/ IsRequest(o.request)

\* The server acts on exactly what the client read: whatever was lost,
\* repeated or overtaken, a datagram of the client becomes the request on its
\* line, with the defaults that the client's own decoder filled in, and is
\* rejected only when the encoded request is larger than the server accepts.
\* Encoding and decoding again changes nothing, wrapped numbers and defaults
\* included (json_decoder.cpp:85-175, json_encoder.cpp:10-103).
RelayExact ==
  \A o \in outcomes :
    o.line # 0 =>
      LET request == decode(script[o.line], ClientMax)
      IN IF Size(encode(request)) <= ServerMax
         THEN o.verdict = "request" /\ o.request = request
         ELSE o.verdict = "rejected"

\* The commands that went out are an unbroken initial part of the input: the
\* client never sends a command after one that it could not read or send, and
\* a client that ended well has sent them all (main.cpp:108-126).
SentIsPrefix ==
  /\ \A i, j \in DOMAIN sent : i < j => sent[i] < sent[j]
  /\ {sent[i] : i \in DOMAIN sent} =
       {n \in DOMAIN script : /\ script[n].kind # "empty"
                              /\ client = "failed" => n # Len(script)}

\* The engine goes by the price alone and never reads ord_type and
\* time_in_force (engine.cpp:151-156); where the command left them out, what the
\* session hands on agrees with that, after two decodings: market and ioc
\* exactly when the price, wrapped or not, is 0 (json_decoder.cpp:40-48).
DefaultsAgreeWithEngine ==
  \A o \in outcomes :
    o.line # 0 /\ o.verdict = "request" /\ "price" \in DOMAIN o.request =>
      LET given == DOMAIN script[o.line].members
      IN /\ "ord_type" \notin given =>
              (o.request["ord_type"] = "market" <=> o.request["price"] = 0)
         /\ "time_in_force" \notin given =>
              (o.request["time_in_force"] = "ioc" <=> o.request["price"] = 0)

=============================================================================
