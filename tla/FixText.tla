------------------------------- MODULE FixText -------------------------------
(***************************************************************************)
(* The tag-value text of src/src/quickfix_fix: messages with their ordered *)
(* fields, the encoder and the decoder of src/src/quickfix_fix/src.        *)
(*                                                                         *)
(* A payload is the sequence of what stands between its delimiters.  A     *)
(* piece <<"field", n, s>> is the text n=s, where n is a tag; the others   *)
(* are empty, have no separator (no '=', or one in front), or have no      *)
(* number (what stands before '=' is no tag).  A value of a message is the *)
(* text up to its first delimiter, and the pieces after it: values without *)
(* a delimiter have none.                                                  *)
(***************************************************************************)
EXTENDS Integers, Sequences

CONSTANTS
  Tags,        \* tags in use, 35 not among them
  Types,       \* texts that name a message type
  Plain,       \* texts of field values, without delimiters
  Rests,       \* what may follow the first delimiter within a value
  MaxPieces    \* bound on the fields that are set, and on the pieces that arrive

VARIABLES
  message,    \* the message of the sender: msg_type_ and fields_
  wire,       \* the payload
  sent,       \* the payload is the encoding of message
  received    \* the result of decode

vars == <<message, wire, sent, received>>

msg_type_tag == 35
Empty == ""
Nothing == [error |-> "nothing"]   \* decode has not been called

Piece == {<<"empty">>, <<"no_separator">>, <<"no_number">>}
         \cup {<<"field", n, s>> : n \in Tags, s \in Plain}
         \cup {<<"field", msg_type_tag, s>> : s \in Types \cup {Empty}}

Value == [text : Plain, rest : Rests]
AsValue(s) == [text |-> s, rest |-> << >>]

ASSUME FixTextAssumption ==
  /\ msg_type_tag \notin Tags
  /\ Empty \in Plain /\ Empty \notin Types
  /\ << >> \in Rests /\ Rests \subseteq Seq(Piece)
  /\ MaxPieces \in Nat

-----------------------------------------------------------------------------
(* quickfix_fix/src/session.cpp: message *)

Untyped(s) == [msg_type |-> s, fields |-> << >>]

\* Faulty variant: the field is appended although it is there.
setAppends(fields, n, v) == Append(fields, [number |-> n, value |-> v])

\* message::set replaces the value of a field in its place, or appends one.
set(fields, n, v) ==
  IF \E i \in DOMAIN fields : fields[i].number = n
  THEN [i \in DOMAIN fields |->
          IF fields[i].number = n THEN [fields[i] EXCEPT !.value = v] ELSE fields[i]]
  ELSE Append(fields, [number |-> n, value |-> v])

-----------------------------------------------------------------------------
(* quickfix_fix/src/codec.cpp *)

\* number=value and the delimiter; the value may hold more of them.
Written(n, v) == <<<<"field", n, v.text>>>> \o v.rest

\* Faulty variant: fields without a value are left out.
AddedNonEmpty(text, field) ==
  IF field.value.text = Empty THEN text ELSE text \o Written(field.number, field.value)

\* One more field of the message.
Added(text, field) == text \o Written(field.number, field.value)

encode(m) ==
  LET output[i \in 0 .. Len(m.fields)] ==
        IF i = 0 THEN Written(msg_type_tag, m.msg_type)
        ELSE Added(output[i - 1], m.fields[i])
  IN output[Len(m.fields)]

Failed(output) == "error" \in DOMAIN output

\* What is wrong with a piece that is no field.
Fault == [no_separator |-> "malformed_message", no_number |-> "invalid_argument"]

\* Faulty variant: the first MsgType counts.
StoredFirst(output, n, s) ==
  IF n = msg_type_tag
  THEN [output EXCEPT !.msg_type = IF @.text = Empty THEN AsValue(s) ELSE @]
  ELSE [output EXCEPT !.fields = set(@, n, AsValue(s))]

\* A field goes where it belongs; the last MsgType counts.
Stored(output, n, s) ==
  IF n = msg_type_tag THEN [output EXCEPT !.msg_type = AsValue(s)]
  ELSE [output EXCEPT !.fields = set(@, n, AsValue(s))]

\* decode_field, unless an earlier field has failed.
decode_field(output, piece) ==
  IF Failed(output) \/ piece[1] = "empty" THEN output
  ELSE IF piece[1] \in DOMAIN Fault THEN [error |-> Fault[piece[1]]]
  ELSE Stored(output, piece[2], piece[3])

\* All pieces in turn.  The copy into typed_output at the end sets every field
\* once more, in its order, and changes nothing as no tag is there twice.
decode(payload) ==
  LET output[i \in 0 .. Len(payload)] ==
        IF i = 0 THEN Untyped(AsValue(Empty))
        ELSE decode_field(output[i - 1], payload[i])
      result == output[Len(payload)]
  IN IF ~Failed(result) /\ result.msg_type.text = Empty
     THEN [error |-> "missing_msg_type"]
     ELSE result

-----------------------------------------------------------------------------
(* One message on its way *)

Init ==
  /\ \E s \in Types \cup {Empty}, rest \in Rests :
       message = Untyped([text |-> s, rest |-> rest])
  /\ wire = << >> /\ sent = FALSE /\ received = Nothing

\* The owner of a message sets fields, MsgType by its tag too.
Set ==
  /\ wire = << >> /\ Len(message.fields) < MaxPieces
  /\ \E n \in Tags \cup {msg_type_tag}, v \in Value :
       message' = [message EXCEPT !.fields = set(@, n, v)]
  /\ UNCHANGED <<wire, sent, received>>

Send ==
  /\ wire = << >>
  /\ wire' = encode(message)
  /\ sent' = TRUE
  /\ UNCHANGED <<message, received>>

\* Text that another encoder has made.
Write ==
  /\ message.fields = << >> /\ ~sent /\ received = Nothing
  /\ Len(wire) < MaxPieces
  /\ \E piece \in Piece : wire' = Append(wire, piece)
  /\ UNCHANGED <<message, sent, received>>

Receive ==
  /\ wire # << >> /\ received = Nothing
  /\ received' = decode(wire)
  /\ UNCHANGED <<message, wire, sent>>

Next == Set \/ Send \/ Write \/ Receive

Spec == Init /\ [][Next]_vars

-----------------------------------------------------------------------------
(* Properties *)

\* No tag twice, whoever made the message and whatever the payload repeats:
\* get() finds the one value that counts (session.cpp:21-31).
OneValuePerTag ==
  \A m \in {message, received} :
    ~Failed(m) =>
      \A i, j \in DOMAIN m.fields : m.fields[i].number = m.fields[j].number => i = j

\* What the decoder can give back: neither MsgType nor a value holds a delimiter,
\* for encode escapes none, MsgType is not empty, and no field has its tag.
Clean(m) ==
  /\ m.msg_type.text # Empty /\ m.msg_type.rest = << >>
  /\ \A i \in DOMAIN m.fields :
       m.fields[i].number # msg_type_tag /\ m.fields[i].value.rest = << >>

\* A message that was sent arrives with all its fields in their order, if and
\* only if it is clean: the text codec is exact on clean messages, empty values
\* and fields set twice included, and on no others (codec.cpp:36-76).
ExactWhenClean ==
  sent /\ received # Nothing => (received = message <=> Clean(message))

\* The places of a tag in the payload.
PlacesOf(n) == {i \in DOMAIN wire : wire[i][1] = "field" /\ wire[i][2] = n}
First(n) == CHOOSE i \in PlacesOf(n) : \A j \in PlacesOf(n) : i <= j
LastText(n) == wire[CHOOSE i \in PlacesOf(n) : \A j \in PlacesOf(n) : j <= i][3]

\* What decode makes of any text, its own or another encoder's, with empty pieces,
\* a MsgType in any place or several of them, and fields that are repeated: it
\* refuses a text with a piece that is no field, or whose last MsgType is missing
\* or empty; in any other each tag has the value that was last given for it, in
\* the place where it was first given (codec.cpp:15-76).
DecodeTakesLast ==
  received # Nothing =>
    IF \/ \E i \in DOMAIN wire : wire[i][1] \in {"no_separator", "no_number"}
       \/ PlacesOf(msg_type_tag) = {}
       \/ LastText(msg_type_tag) = Empty
    THEN Failed(received)
    ELSE /\ ~Failed(received)
         /\ received.msg_type = AsValue(LastText(msg_type_tag))
         /\ {received.fields[i].number : i \in DOMAIN received.fields}
              = {n \in Tags : PlacesOf(n) # {}}
         /\ \A i \in DOMAIN received.fields :
              received.fields[i].value = AsValue(LastText(received.fields[i].number))
         /\ \A i, j \in DOMAIN received.fields :
              i < j => First(received.fields[i].number) < First(received.fields[j].number)

=============================================================================
