-------------------------- MODULE OrderPathProofs --------------------------
(***************************************************************************)
(* What the order-entry codec and the way from the client to the session   *)
(* guarantee for every input, every integer width, every size limit and    *)
(* every behaviour of the network.                                         *)
(***************************************************************************)
EXTENDS OrderPath, SequenceTheorems, TLAPS

-----------------------------------------------------------------------------
(* The codec *)

\* The message types and their members.
LEMMA MembersFacts ==
  /\ DOMAIN Members = {"new_order_single", "replace_order", "cancel_order", "flush"}
  /\ \A t \in DOMAIN Members :
       /\ "message_type" \in Members[t]
       /\ Members[t] \cap Optional # {} => "price" \in Members[t]
  /\ "message_type" \notin Uints /\ "message_type" \notin Optional
  /\ "price" \in Uints /\ "price" \notin Optional
  /\ Tokens["message_type"] = DOMAIN Members
PROOF
  BY DEF Members, Terms, Optional, Uints, Tokens

\* Every field of every message type is a number or has its accepted strings.
LEMMA FallbackType ==
  ASSUME NEW f \in Optional, NEW price
  PROVE  Fallback(f, price) \in Value(f)
PROOF
<1>1. CASE f = "security_id"
  BY <1>1, CodecAssumption DEF Fallback, Value, Uints
<1>2. CASE f = "security_exchange"
  BY <1>2, CodecAssumption DEF Fallback, Value, Uints, Tokens
<1>3. CASE f = "ord_type"
  BY <1>3 DEF Fallback, Value, Uints, Tokens
<1>4. CASE f = "time_in_force"
  BY <1>4 DEF Fallback, Value, Uints, Tokens
<1>5. QED
  BY <1>1, <1>2, <1>3, <1>4 DEF Optional

\* A value that can be read is read as a value of its field.
LEMMA ReadType ==
  ASSUME NEW f, NEW j, Readable(f, j), j[1] = "number" => j[2] \in Int
  PROVE  Read(f, j) \in Value(f)
PROOF
<1>1. CASE f \in Uints
  <2>1. j[2] \in Int
    BY <1>1 DEF Readable
  <2>2. j[2] % UintMod \in 0 .. UintMod - 1
    BY <2>1, CodecAssumption
  <2>3. QED
    BY <1>1, <2>2 DEF Read, Value
<1>2. CASE f \notin Uints
  BY <1>2 DEF Readable, Read, Value
<1>3. QED
  BY <1>1, <1>2

\* What decode returns is a request, or the one failure there is.
LEMMA DecodeType ==
  ASSUME NEW payload, NEW max,
         \A f \in DOMAIN payload.members :
           payload.members[f][1] = "number" => payload.members[f][2] \in Int
  PROVE  decode(payload, max) = Failure \/ IsRequest(decode(payload, max))
PROOF
<1> DEFINE doc == payload.members
           t == doc["message_type"][2]
           r == decode_members(doc)
<1>1. SUFFICES ASSUME Decodable(doc)
               PROVE  IsRequest(r)
  BY DEF decode
<1>2. "message_type" \in DOMAIN doc /\ Readable("message_type", doc["message_type"])
  BY <1>1 DEF Decodable
<1>3. t \in DOMAIN Members
  BY <1>2, MembersFacts DEF Readable
<1>4. Members[t] \ Optional \subseteq DOMAIN doc
  BY <1>1 DEF Decodable
<1>5. \A f \in Members[t] \cap DOMAIN doc : Readable(f, doc[f])
  BY <1>1 DEF Decodable
<1>6. r = [f \in Members[t] |-> IF f \in DOMAIN doc THEN Read(f, doc[f])
                                ELSE Fallback(f, Read("price", doc["price"]))]
  BY DEF decode_members
<1> HIDE DEF r
<1>7. ASSUME NEW f \in Members[t]
      PROVE  r[f] \in Value(f)
  <2>1. CASE f \in DOMAIN doc
    <3>1. Readable(f, doc[f])
      BY <1>5, <2>1
    <3>2. doc[f][1] = "number" => doc[f][2] \in Int
      BY <2>1
    <3>3. Read(f, doc[f]) \in Value(f)
      BY <3>1, <3>2, ReadType
    <3>4. QED
      BY <1>6, <2>1, <3>3
  <2>2. CASE f \notin DOMAIN doc
    <3>1. f \in Optional
      BY <1>4, <2>2
    <3>2. Fallback(f, Read("price", doc["price"])) \in Value(f)
      BY <3>1, FallbackType
    <3>3. QED
      BY <1>6, <2>2, <3>2
  <2>3. QED
    BY <2>1, <2>2
<1>8. r["message_type"] = t
  <2>1. "message_type" \in Members[t]
    BY <1>3, MembersFacts
  <2>2. r["message_type"] = Read("message_type", doc["message_type"])
    BY <1>2, <1>6, <2>1
  <2>3. QED
    BY <2>2, MembersFacts DEF Read
<1>9. DOMAIN r = Members[t] /\ r = [f \in Members[t] |-> r[f]]
  BY <1>6
<1>10. QED
  BY <1>3, <1>7, <1>8, <1>9 DEF IsRequest

\* No request looks like the failure.
LEMMA RequestIsNoFailure ==
  ASSUME NEW r, IsRequest(r)
  PROVE  r # Failure
PROOF
<1>1. "message_type" \in DOMAIN r
  BY MembersFacts DEF IsRequest
<1>2. "message_type" \notin DOMAIN Failure
  BY DEF Failure
<1>3. QED
  BY <1>1, <1>2

\* The decoder inverts the encoder (json_decoder.cpp:85-136 and
\* json_encoder.cpp:10-68): a request that is encoded and decoded again is the
\* same request, unless the encoding exceeds the decoder's size limit, and then
\* it is refused.
THEOREM RoundTrip ==
  ASSUME NEW r, IsRequest(r), NEW max
  PROVE  decode(encode(r), max) = IF Size(encode(r)) <= max THEN r ELSE Failure
PROOF
<1> DEFINE doc == encode(r).members
<1>1. PICK t \in DOMAIN Members :
        /\ DOMAIN r = Members[t]
        /\ r = [f \in Members[t] |-> r[f]]
        /\ r["message_type"] = t
        /\ \A f \in Members[t] : r[f] \in Value(f)
  BY DEF IsRequest
<1>2. /\ doc = [f \in Members[t] |->
                  <<IF f \in Uints THEN "number" ELSE "string", r[f]>>]
      /\ encode(r).kind = "document"
  BY <1>1 DEF encode, Payload
<1> HIDE DEF doc
<1>3. \A f \in Members[t] : doc[f][1] = (IF f \in Uints THEN "number" ELSE "string")
                              /\ doc[f][2] = r[f]
  BY <1>2
<1>4. "message_type" \in Members[t] /\ doc["message_type"][2] = t
  BY <1>1, <1>3, MembersFacts
<1>5. ASSUME NEW f \in Members[t]
      PROVE  Readable(f, doc[f]) /\ Read(f, doc[f]) = r[f]
  <2>1. CASE f \in Uints
    <3>1. r[f] \in 0 .. UintMod - 1
      BY <1>1, <2>1 DEF Value
    <3>2. r[f] % UintMod = r[f]
      BY <3>1, CodecAssumption
    <3>3. QED
      BY <1>3, <2>1, <3>2 DEF Readable, Read
  <2>2. CASE f \notin Uints
    <3>1. r[f] \in Tokens[f]
      BY <1>1, <2>2 DEF Value
    <3>2. QED
      BY <1>3, <2>2, <3>1 DEF Readable, Read
  <2>3. QED
    BY <2>1, <2>2
<1>6. Decodable(doc)
  BY <1>2, <1>4, <1>5 DEF Decodable
<1>7. decode_members(doc) = r
  <2>1. decode_members(doc) = [f \in Members[t] |-> Read(f, doc[f])]
    BY <1>2, <1>4 DEF decode_members
  <2>2. QED
    BY <1>1, <1>5, <2>1
<1>8. QED
  BY <1>2, <1>6, <1>7 DEF decode, doc

-----------------------------------------------------------------------------
(* The path *)

Command(n) == decode(script[n], ClientMax)

ClientOK ==
  /\ client \in {"connecting", "reading", "ended", "failed"}
  /\ client = "connecting" => script = << >>

ScriptOK == script \in Seq(Lines) /\ Len(script) <= MaxLines

\* A datagram of the client is the encoding of the command on its line.
FlyingOK ==
  \A d \in flying :
    /\ d.line = 0 => d.payload \in Others
    /\ d.line # 0 => /\ d.line \in 1 .. Len(script)
                     /\ IsRequest(Command(d.line))
                     /\ d.payload = encode(Command(d.line))

OutcomesOK ==
  \A o \in outcomes :
    /\ o.line \in 0 .. Len(script)
    /\ o.verdict \in {"ignored", "rejected", "request"}
    /\ o.verdict = "request" <=> o.request # Failure
    /\ o.request = Failure \/ IsRequest(o.request)

SentOK == sent \in Seq(1 .. Len(script)) /\ SentIsPrefix

IndInv == ClientOK /\ ScriptOK /\ FlyingOK /\ OutcomesOK /\ RelayExact /\ SentOK

\* Lines and foreign payloads decode to a request or to the failure.
LEMMA InputType ==
  ASSUME NEW p \in Lines \cup Others, NEW max
  PROVE  decode(p, max) = Failure \/ IsRequest(decode(p, max))
PROOF
  BY PathAssumption, DecodeType

\* Reading a line leaves the earlier ones as they were.
LEMMA LongerScript ==
  ASSUME ScriptOK, NEW line \in Lines, script' = Append(script, line),
         Len(script) < MaxLines
  PROVE  /\ ScriptOK'
         /\ Len(script) \in Nat
         /\ Len(script') = Len(script) + 1
         /\ DOMAIN script = 1 .. Len(script)
         /\ DOMAIN script' = 1 .. Len(script) + 1
         /\ \A n \in 1 .. Len(script) : script'[n] = script[n] /\ Command(n)' = Command(n)
         /\ script'[Len(script) + 1] = line
PROOF
<1>1. /\ Len(script) \in Nat
      /\ DOMAIN script = 1 .. Len(script)
      /\ script' \in Seq(Lines)
      /\ Len(script') = Len(script) + 1
      /\ DOMAIN script' = 1 .. Len(script) + 1
      /\ \A n \in 1 .. Len(script) : script'[n] = script[n]
      /\ script'[Len(script) + 1] = line
  BY DEF ScriptOK
<1>2. \A n \in 1 .. Len(script) : Command(n)' = Command(n)
  BY <1>1 DEF Command
<1>3. ScriptOK'
  BY <1>1, PathAssumption DEF ScriptOK
<1>4. QED
  BY <1>1, <1>2, <1>3

\* What the network and the session hold stays right when a line is read.
LEMMA OldDatagrams ==
  ASSUME IndInv, NEW line \in Lines, script' = Append(script, line),
         Len(script) < MaxLines, UNCHANGED outcomes
  PROVE  /\ OutcomesOK' /\ RelayExact'
         /\ \A d \in flying :
              /\ d.line = 0 => d.payload \in Others
              /\ d.line # 0 => /\ d.line \in 1 .. Len(script')
                               /\ IsRequest(Command(d.line)')
                               /\ d.payload = encode(Command(d.line)')
PROOF
<1>1. /\ Len(script) \in Nat /\ Len(script') = Len(script) + 1
      /\ \A n \in 1 .. Len(script) : script'[n] = script[n] /\ Command(n)' = Command(n)
  BY LongerScript DEF IndInv
<1>2. OutcomesOK'
  BY <1>1 DEF IndInv, OutcomesOK
<1>3. ASSUME NEW o \in outcomes, o.line # 0
      PROVE  o.line \in 1 .. Len(script)
  BY <1>1, <1>3 DEF IndInv, OutcomesOK
<1>4. RelayExact'
  <2>1. SUFFICES ASSUME NEW o \in outcomes, o.line # 0
                 PROVE  LET request == decode(script'[o.line], ClientMax)
                        IN IF Size(encode(request)) <= ServerMax
                           THEN o.verdict = "request" /\ o.request = request
                           ELSE o.verdict = "rejected"
    BY DEF RelayExact
  <2>2. script'[o.line] = script[o.line]
    BY <1>1, <1>3, <2>1
  <2>3. QED
    BY <2>1, <2>2 DEF IndInv, RelayExact
<1>5. ASSUME NEW d \in flying
      PROVE  /\ d.line = 0 => d.payload \in Others
             /\ d.line # 0 => /\ d.line \in 1 .. Len(script')
                              /\ IsRequest(Command(d.line)')
                              /\ d.payload = encode(Command(d.line)')
  <2>1. CASE d.line = 0
    BY <2>1 DEF IndInv, FlyingOK
  <2>2. CASE d.line # 0
    <3>1. /\ d.line \in 1 .. Len(script) /\ IsRequest(Command(d.line))
          /\ d.payload = encode(Command(d.line))
      BY <2>2 DEF IndInv, FlyingOK
    <3>2. Command(d.line)' = Command(d.line) /\ d.line \in 1 .. Len(script')
      BY <1>1, <3>1
    <3>3. QED
      BY <2>2, <3>1, <3>2
  <2>3. QED
    BY <2>1, <2>2
<1>6. QED
  BY <1>2, <1>4, <1>5


\* A skipped line, or one that ends the client, keeps what was sent a prefix.
LEMMA SentStays ==
  ASSUME IndInv, NEW line \in Lines, script' = Append(script, line),
         Len(script) < MaxLines, client = "reading", UNCHANGED sent,
         \/ line.kind = "empty" /\ client' = "reading"
         \/ client' = "failed"
  PROVE  SentOK'
PROOF
<1>1. /\ Len(script) \in Nat /\ Len(script') = Len(script) + 1
      /\ DOMAIN script = 1 .. Len(script) /\ DOMAIN script' = 1 .. Len(script) + 1
      /\ \A n \in 1 .. Len(script) : script'[n] = script[n]
      /\ script'[Len(script) + 1] = line
  BY LongerScript DEF IndInv
<1>2. sent \in Seq(1 .. Len(script)) /\ SentIsPrefix
  BY DEF IndInv, SentOK
<1>3. sent' \in Seq(1 .. Len(script'))
  <2>1. 1 .. Len(script) \subseteq 1 .. Len(script')
    BY <1>1
  <2>2. QED
    BY <1>2, <2>1, SeqMonotonic
<1>4. {n \in DOMAIN script' : /\ script'[n].kind # "empty"
                              /\ client' = "failed" => n # Len(script')}
        = {n \in DOMAIN script : /\ script[n].kind # "empty"
                                 /\ client = "failed" => n # Len(script)}
  <2>1. ASSUME NEW n \in 1 .. Len(script) + 1
        PROVE  (script'[n].kind # "empty" /\ (client' = "failed" => n # Len(script')))
                 <=> (n \in 1 .. Len(script) /\ script[n].kind # "empty")
    <3>1. CASE n = Len(script) + 1
      BY <1>1, <3>1
    <3>2. CASE n # Len(script) + 1
      BY <1>1, <3>2
    <3>3. QED
      BY <3>1, <3>2
  <2>2. QED
    BY <1>1, <2>1
<1>5. SentIsPrefix'
  BY <1>2, <1>4 DEF SentIsPrefix
<1>6. QED
  BY <1>3, <1>5 DEF SentOK

\* So does a command that is sent.
LEMMA SentGrows ==
  ASSUME IndInv, NEW line \in Lines, script' = Append(script, line),
         Len(script) < MaxLines, client = "reading", UNCHANGED client,
         line.kind # "empty", sent' = Append(sent, Len(script) + 1)
  PROVE  SentOK'
PROOF
<1> DEFINE m == Len(script) + 1
<1>1. /\ Len(script) \in Nat /\ Len(script') = m
      /\ DOMAIN script = 1 .. Len(script) /\ DOMAIN script' = 1 .. m
      /\ \A n \in 1 .. Len(script) : script'[n] = script[n]
      /\ script'[m] = line
  BY LongerScript DEF IndInv
<1>2. sent \in Seq(1 .. Len(script)) /\ SentIsPrefix
  BY DEF IndInv, SentOK
<1>3. /\ Len(sent) \in Nat /\ DOMAIN sent = 1 .. Len(sent)
      /\ \A i \in DOMAIN sent : sent[i] \in 1 .. Len(script)
  BY <1>2
<1>4. sent \in Seq(1 .. m) /\ m \in 1 .. m
  <2>1. 1 .. Len(script) \subseteq 1 .. m /\ m \in 1 .. m
    BY <1>1
  <2>2. QED
    BY <1>2, <2>1, SeqMonotonic
<1>5. /\ sent' \in Seq(1 .. m) /\ DOMAIN sent' = 1 .. Len(sent) + 1
      /\ \A i \in 1 .. Len(sent) : sent'[i] = sent[i]
      /\ sent'[Len(sent) + 1] = m
  BY <1>4
<1>6. ASSUME NEW i \in DOMAIN sent', NEW j \in DOMAIN sent', i < j
      PROVE  sent'[i] < sent'[j]
  <2>1. i \in 1 .. Len(sent) /\ sent'[i] = sent[i]
    BY <1>3, <1>5, <1>6
  <2>2. CASE j \in 1 .. Len(sent)
    BY <1>2, <1>3, <1>5, <1>6, <2>1, <2>2 DEF SentIsPrefix
  <2>3. CASE j = Len(sent) + 1
    BY <1>1, <1>3, <1>5, <2>1, <2>3
  <2>4. QED
    BY <1>3, <1>5, <2>2, <2>3
<1>7. {sent'[i] : i \in DOMAIN sent'} = {sent[i] : i \in DOMAIN sent} \cup {m}
  BY <1>3, <1>5
<1>8. {n \in DOMAIN script' : /\ script'[n].kind # "empty"
                              /\ client' = "failed" => n # Len(script')}
        = {n \in DOMAIN script : /\ script[n].kind # "empty"
                                 /\ client = "failed" => n # Len(script)} \cup {m}
  <2>1. ASSUME NEW n \in 1 .. m
        PROVE  script'[n].kind # "empty"
                 <=> ((n \in 1 .. Len(script) /\ script[n].kind # "empty") \/ n = m)
    <3>1. CASE n = m
      BY <1>1, <3>1
    <3>2. CASE n # m
      BY <1>1, <3>2
    <3>3. QED
      BY <3>1, <3>2
  <2>2. QED
    BY <1>1, <2>1
<1>9. {sent[i] : i \in DOMAIN sent}
        = {n \in DOMAIN script : /\ script[n].kind # "empty"
                                 /\ client = "failed" => n # Len(script)}
  BY <1>2 DEF SentIsPrefix
<1>10. SentIsPrefix'
  BY <1>6, <1>7, <1>8, <1>9 DEF SentIsPrefix
<1>11. QED
  BY <1>1, <1>5, <1>10 DEF SentOK

\* Nothing is under way and nothing has been read.
LEMMA InitInv == Init => IndInv
PROOF
<1>1. SUFFICES ASSUME Init
               PROVE  IndInv
  OBVIOUS
<1>2. ClientOK /\ ScriptOK /\ FlyingOK /\ OutcomesOK /\ RelayExact
  BY <1>1, PathAssumption DEF Init, ClientOK, ScriptOK, FlyingOK, OutcomesOK, RelayExact
<1>3. SentOK
  BY <1>1 DEF Init, SentOK, SentIsPrefix
<1>4. QED
  BY <1>2, <1>3 DEF IndInv

\* The session: a datagram of the client becomes its command, or is refused.
LEMMA DeliverInv == IndInv /\ Deliver => IndInv'
PROOF
<1>1. SUFFICES ASSUME IndInv, Deliver
               PROVE  IndInv'
  OBVIOUS
<1>2. PICK d \in flying :
        outcomes' = outcomes \cup
          {[line |-> d.line, verdict |-> Outcome(d.payload),
            request |-> IF Outcome(d.payload) = "request"
                        THEN decode(d.payload, ServerMax) ELSE Failure]}
  BY <1>1 DEF Deliver
<1> DEFINE o == [line |-> d.line, verdict |-> Outcome(d.payload),
                 request |-> IF Outcome(d.payload) = "request"
                             THEN decode(d.payload, ServerMax) ELSE Failure]
<1>3. UNCHANGED <<client, script, sent, flying>>
  BY <1>1 DEF Deliver
<1>4. Len(script) \in Nat
  BY <1>1 DEF IndInv, ScriptOK
<1>5. /\ o.line \in 0 .. Len(script)
      /\ decode(d.payload, ServerMax) = Failure \/ IsRequest(decode(d.payload, ServerMax))
      /\ o.line # 0 => LET request == Command(o.line)
                       IN IF Size(encode(request)) <= ServerMax
                          THEN o.verdict = "request" /\ o.request = request
                          ELSE o.verdict = "rejected"
  <2>1. CASE d.line = 0
    <3>1. d.payload \in Others
      BY <1>1, <2>1 DEF IndInv, FlyingOK
    <3>2. QED
      BY <1>4, <2>1, <3>1, InputType
  <2>2. CASE d.line # 0
    <3> DEFINE r == Command(d.line)
    <3>1. d.line \in 1 .. Len(script) /\ IsRequest(r) /\ d.payload = encode(r)
      BY <1>1, <2>2 DEF IndInv, FlyingOK
    <3> HIDE DEF r
    <3>2. /\ decode(d.payload, ServerMax) = IF Size(encode(r)) <= ServerMax THEN r ELSE Failure
          /\ r # Failure
      BY <3>1, RoundTrip, RequestIsNoFailure
    <3>3. d.payload.kind = "document"
      BY <3>1 DEF encode, Payload
    <3>4. Outcome(d.payload) = IF Size(encode(r)) <= ServerMax THEN "request" ELSE "rejected"
      BY <3>2, <3>3 DEF Outcome
    <3>5. QED
      BY <1>4, <2>2, <3>1, <3>2, <3>4 DEF r
  <2>3. QED
    BY <2>1, <2>2
<1>6. /\ o.verdict \in {"ignored", "rejected", "request"}
      /\ o.verdict = "request" <=> o.request # Failure
      /\ o.request = Failure \/ IsRequest(o.request)
  BY <1>5, RequestIsNoFailure DEF Outcome
<1>7. OutcomesOK'
  <2>1. \A x \in outcomes' : x \in outcomes \/ x = o
    BY <1>2
  <2> HIDE DEF o
  <2>2. QED
    BY <1>1, <1>3, <1>5, <1>6, <2>1 DEF IndInv, OutcomesOK
<1>8. RelayExact'
  <2>1. \A x \in outcomes' : x \in outcomes \/ x = o
    BY <1>2
  <2> HIDE DEF o
  <2>2. QED
    BY <1>1, <1>3, <1>5, <2>1 DEF IndInv, RelayExact, Command
<1>9. ClientOK' /\ ScriptOK' /\ FlyingOK' /\ SentOK'
  BY <1>1, <1>3 DEF IndInv, ClientOK, ScriptOK, FlyingOK, Command, SentOK, SentIsPrefix
<1>10. QED
  BY <1>7, <1>8, <1>9 DEF IndInv


\* The client: skip, give up, or send.
LEMMA ReadLineInv ==
  ASSUME IndInv, NEW line \in Lines, ReadLine(line)
  PROVE  IndInv'
PROOF
<1> DEFINE n == Len(script) + 1
           r == decode(line, ClientMax)
<1>1. /\ client = "reading" /\ Len(script) < MaxLines
      /\ script' = Append(script, line) /\ UNCHANGED outcomes
  BY DEF ReadLine
<1>2. OutcomesOK' /\ RelayExact'
  BY <1>1, OldDatagrams
<1>3. ScriptOK'
  BY <1>1, LongerScript DEF IndInv
<1>4. ASSUME UNCHANGED flying
      PROVE  FlyingOK'
  BY <1>1, <1>4, OldDatagrams DEF FlyingOK
<1>5. CASE line.kind = "empty" /\ UNCHANGED <<client, sent, flying>>
  <2>1. SentOK' /\ ClientOK'
    BY <1>1, <1>5, SentStays DEF ClientOK
  <2>2. QED
    BY <1>2, <1>3, <1>4, <1>5, <2>1 DEF IndInv
<1>6. CASE client' = "failed" /\ UNCHANGED <<sent, flying>>
  <2>1. SentOK' /\ ClientOK'
    BY <1>1, <1>6, SentStays DEF ClientOK
  <2>2. QED
    BY <1>2, <1>3, <1>4, <1>6, <2>1 DEF IndInv
<1>7. CASE /\ line.kind # "empty" /\ r # Failure
           /\ flying' = flying \cup {[line |-> n, payload |-> encode(r)]}
           /\ sent' = Append(sent, n)
           /\ UNCHANGED client
  <2>1. SentOK' /\ ClientOK'
    BY <1>1, <1>7, SentGrows DEF ClientOK
  <2>2. IsRequest(r)
    BY <1>7, InputType
  <2>3. script'[n] = line /\ n \in 1 .. Len(script') /\ n # 0
    <3>1. /\ Len(script) \in Nat /\ Len(script') = Len(script) + 1
          /\ script'[Len(script) + 1] = line
      BY <1>1, LongerScript DEF IndInv
    <3>2. QED
      BY <3>1
  <2>4. FlyingOK'
    <3>1. SUFFICES ASSUME NEW d \in flying'
                   PROVE  /\ d.line = 0 => d.payload \in Others
                          /\ d.line # 0 => /\ d.line \in 1 .. Len(script')
                                           /\ IsRequest(Command(d.line)')
                                           /\ d.payload = encode(Command(d.line)')
      BY DEF FlyingOK
    <3>2. CASE d \in flying
      BY <1>1, <3>2, OldDatagrams
    <3>3. CASE d = [line |-> n, payload |-> encode(r)]
      <4>1. d.line = n /\ d.payload = encode(r)
        BY <3>3
      <4>2. Command(d.line)' = r
        BY <2>3, <4>1 DEF Command
      <4>3. QED
        BY <2>2, <2>3, <4>1, <4>2
    <3>4. QED
      BY <1>7, <3>2, <3>3
  <2>5. QED
    BY <1>2, <1>3, <2>1, <2>4 DEF IndInv
<1>8. QED
  BY <1>5, <1>6, <1>7 DEF ReadLine, Transmit

\* Every step of the client, the network and the session keeps the invariant.
LEMMA NextInv == IndInv /\ [Next]_vars => IndInv'
PROOF
<1> SUFFICES ASSUME IndInv, [Next]_vars
             PROVE  IndInv'
  OBVIOUS
<1>1. CASE Connect
  <2>1. script = << >>
    BY <1>1 DEF Connect, IndInv, ClientOK
  <2>2. SentOK'
    BY <1>1, <2>1 DEF Connect, IndInv, SentOK, SentIsPrefix
  <2>3. ClientOK' /\ ScriptOK' /\ FlyingOK' /\ OutcomesOK' /\ RelayExact'
    BY <1>1 DEF Connect, IndInv, ClientOK, ScriptOK, FlyingOK, OutcomesOK, RelayExact,
                Command
  <2>4. QED
    BY <2>2, <2>3 DEF IndInv
<1>2. ASSUME NEW line \in Lines, ReadLine(line)
      PROVE  IndInv'
  BY <1>2, ReadLineInv
<1>3. CASE EndOfInput
  <2>1. SentOK'
    BY <1>3 DEF EndOfInput, IndInv, SentOK, SentIsPrefix
  <2>2. ClientOK' /\ ScriptOK' /\ FlyingOK' /\ OutcomesOK' /\ RelayExact'
    BY <1>3 DEF EndOfInput, IndInv, ClientOK, ScriptOK, FlyingOK, OutcomesOK, RelayExact,
                Command
  <2>3. QED
    BY <2>1, <2>2 DEF IndInv
<1>4. CASE Lose
  BY <1>4 DEF Lose, IndInv, ClientOK, ScriptOK, FlyingOK, OutcomesOK, RelayExact,
              Command, SentOK, SentIsPrefix
<1>5. CASE Deliver
  BY <1>5, DeliverInv
<1>6. CASE UNCHANGED vars
  BY <1>6 DEF vars, IndInv, ClientOK, ScriptOK, FlyingOK, OutcomesOK, RelayExact,
              Command, SentOK, SentIsPrefix
<1>7. QED
  BY <1>1, <1>2, <1>3, <1>4, <1>5, <1>6 DEF Next, Quiet

\* The inductive invariant of the path.
THEOREM PathInvariance == Spec => []IndInv
PROOF
<1>1. Init => IndInv
  BY InitInv
<1>2. IndInv /\ [Next]_vars => IndInv'
  BY NextInv
<1>3. QED
  BY <1>1, <1>2, PTL DEF Spec

\* The server acts on exactly what the client read, for any network.
THEOREM RelayHolds == Spec => []RelayExact
PROOF
<1>1. IndInv => RelayExact
  BY DEF IndInv
<1>2. QED
  BY <1>1, PathInvariance, PTL

\* The client sends an unbroken initial part of its input.
THEOREM PrefixHolds == Spec => []SentIsPrefix
PROOF
<1>1. IndInv => SentIsPrefix
  BY DEF IndInv, SentOK
<1>2. QED
  BY <1>1, PathInvariance, PTL

\* Types of the client, the network and the outcomes.
THEOREM PathTypeCorrect == Spec => []TypeOK
PROOF
<1>1. IndInv => TypeOK
  <2>1. SUFFICES ASSUME IndInv
                 PROVE  TypeOK
    OBVIOUS
  <2>2. /\ client \in {"connecting", "reading", "ended", "failed"}
        /\ script \in Seq(Lines) /\ Len(script) <= MaxLines /\ Len(script) \in Nat
    BY <2>1 DEF IndInv, ClientOK, ScriptOK
  <2>3. sent \in Seq(1 .. MaxLines)
    <3>1. 1 .. Len(script) \subseteq 1 .. MaxLines
      BY <2>2, PathAssumption
    <3>2. sent \in Seq(1 .. Len(script))
      BY <2>1 DEF IndInv, SentOK
    <3>3. QED
      BY <3>1, <3>2, SeqMonotonic
  <2>4. \A d \in flying : /\ d.line \in 0 .. Len(script)
                          /\ d.line = 0 => d.payload \in Others
    BY <2>1, <2>2 DEF IndInv, FlyingOK
  <2>5. QED
    BY <2>1, <2>2, <2>3, <2>4 DEF TypeOK, IndInv, OutcomesOK
<1>2. QED
  BY <1>1, PathInvariance, PTL

\* A member that an order leaves out is decoded to its default for the price
\* that is decoded.
LEMMA MissingIsDefault ==
  ASSUME NEW payload, NEW max, NEW f \in Optional,
         decode(payload, max) # Failure,
         "price" \in DOMAIN decode(payload, max),
         f \notin DOMAIN payload.members
  PROVE  /\ f \in DOMAIN decode(payload, max)
         /\ decode(payload, max)[f] = Fallback(f, decode(payload, max)["price"])
PROOF
<1> DEFINE doc == payload.members
           type == doc["message_type"][2]
<1>1. Decodable(doc) /\ decode(payload, max) = decode_members(doc)
  BY DEF decode
<1>2. type \in DOMAIN Members
  <2>1. Readable("message_type", doc["message_type"])
    BY <1>1 DEF Decodable
  <2>2. QED
    BY <2>1, MembersFacts DEF Readable
<1>3. DOMAIN decode(payload, max) = Members[type]
  BY <1>1 DEF decode_members
<1>4. f \in Members[type]
  BY <1>2, <1>3 DEF Members, Terms, Optional
<1>5. "price" \in DOMAIN doc
  <2>1. Members[type] \ Optional \subseteq DOMAIN doc
    BY <1>1 DEF Decodable
  <2>2. QED
    BY <2>1, <1>3, MembersFacts
<1>6. decode_members(doc)["price"] = Read("price", doc["price"])
  BY <1>1, <1>3, <1>5 DEF decode_members
<1>7. decode_members(doc)[f] = Fallback(f, Read("price", doc["price"]))
  BY <1>4 DEF decode_members
<1>8. QED
  BY <1>1, <1>3, <1>4, <1>6, <1>7

\* The defaults of the session's requests agree with the price that the engine
\* goes by, for any network and any width of the integers.
THEOREM DefaultsHold == Spec => []DefaultsAgreeWithEngine
PROOF
<1>1. IndInv => DefaultsAgreeWithEngine
  <2>1. SUFFICES ASSUME IndInv, NEW o \in outcomes, o.line # 0,
                        o.verdict = "request", "price" \in DOMAIN o.request
                 PROVE  LET given == DOMAIN script[o.line].members
                        IN /\ "ord_type" \notin given =>
                                (o.request["ord_type"] = "market" <=> o.request["price"] = 0)
                           /\ "time_in_force" \notin given =>
                                (o.request["time_in_force"] = "ioc" <=> o.request["price"] = 0)
    BY DEF DefaultsAgreeWithEngine
  <2> DEFINE request == decode(script[o.line], ClientMax)
  <2>2. o.request = request /\ o.request # Failure
    BY <2>1 DEF IndInv, RelayExact, OutcomesOK
  <2>3. ASSUME NEW f \in Optional, f \notin DOMAIN script[o.line].members
        PROVE  o.request[f] = Fallback(f, o.request["price"])
    BY <2>1, <2>2, <2>3, MissingIsDefault
  <2>4. ASSUME "ord_type" \notin DOMAIN script[o.line].members
        PROVE  o.request["ord_type"] = "market" <=> o.request["price"] = 0
    <3>1. o.request["ord_type"] = Fallback("ord_type", o.request["price"])
      BY <2>3, <2>4 DEF Optional
    <3>2. QED
      BY <3>1 DEF Fallback
  <2>5. ASSUME "time_in_force" \notin DOMAIN script[o.line].members
        PROVE  o.request["time_in_force"] = "ioc" <=> o.request["price"] = 0
    <3>1. o.request["time_in_force"] = Fallback("time_in_force", o.request["price"])
      BY <2>3, <2>5 DEF Optional
    <3>2. QED
      BY <3>1 DEF Fallback
  <2>6. QED
    BY <2>4, <2>5
<1>2. QED
  BY <1>1, PathInvariance, PTL

=============================================================================
