---------------------------- MODULE FixTextProofs ----------------------------
(***************************************************************************)
(* Proofs about FixText, for any set of tags, types, texts and values and  *)
(* payloads of any length.  The encoder and the decoder are recursive      *)
(* functions over positions: that they exist, and what they have computed  *)
(* after i steps, is proved by the least i for which it would not hold.    *)
(***************************************************************************)
EXTENDS FixText, SequenceTheorems, WellFoundedInduction, TLAPS

-----------------------------------------------------------------------------
(* Numbers *)

\* A nonempty set of natural numbers has a least element.
LEMMA HasLeast ==
  ASSUME NEW S, S \subseteq Nat, S # {}
  PROVE  \E x \in S : \A y \in S : x <= y
<1>1. PICK x \in S : \A y \in S : ~(<<y, x>> \in OpToRel(<, Nat))
  BY WFMin, NatLessThanWellFounded
<1>2. \A y \in S : y < x => <<y, x>> \in {ss \in Nat \X Nat : ss[1] < ss[2]}
  OBVIOUS
<1>3. \A y \in S : ~(y < x)
  BY <1>1, <1>2 DEF OpToRel
<1>4. QED
  BY <1>3

\* A nonempty set of positions has a greatest element.
LEMMA HasGreatest ==
  ASSUME NEW n \in Nat, NEW S, S \subseteq 1 .. n, S # {}
  PROVE  \E x \in S : \A y \in S : y <= x
<1> DEFINE T == {n - s : s \in S}
<1>1. T \subseteq Nat /\ T # {}
  <2>1. PICK s \in S : TRUE
    OBVIOUS
  <2>2. n - s \in T
    BY <2>1
  <2>3. \A r \in S : n - r \in Nat
    OBVIOUS
  <2>4. QED
    BY <2>2, <2>3
<1>2. PICK t \in T : \A u \in T : t <= u
  <2> HIDE DEF T
  <2>1. QED
    BY <1>1, HasLeast
<1>3. PICK x \in S : t = n - x
  BY <1>2
<1>4. ASSUME NEW y \in S PROVE y <= x
  <2>1. n - y \in T
    OBVIOUS
  <2>2. t <= n - y
    BY <1>2, <2>1
  <2>3. QED
    BY <1>3, <2>2
<1>5. QED
  BY <1>4

\* What holds at 0 and is passed on holds everywhere: B is where it fails.
LEMMA NoneBad ==
  ASSUME NEW n \in Nat, NEW B, B \subseteq 0 .. n, 0 \notin B,
         \A i \in 1 .. n : i \in B => i - 1 \in B
  PROVE  B = {}
<1>1. SUFFICES ASSUME B # {} PROVE FALSE
  OBVIOUS
<1>2. B \subseteq Nat
  OBVIOUS
<1>3. PICK m \in B : \A y \in B : m <= y
  BY <1>1, <1>2, HasLeast
<1>4. m \in 1 .. n /\ ~(m <= m - 1)
  BY <1>3
<1>5. QED
  BY <1>3, <1>4

-----------------------------------------------------------------------------
(* Pieces, fields and messages *)

Number == Tags \cup {msg_type_tag}
Text == Plain \cup Types \cup {Empty}

\* Any piece that is written, also in a field with MsgType's tag.
AnyPiece ==
  {<<"empty">>, <<"no_separator">>, <<"no_number">>}
  \cup {<<"field", n, s>> : n \in Number, s \in Text}

AnyValue == [text : Text, rest : Seq(AnyPiece)]
Field == [number : Number, value : AnyValue]
Message == [msg_type : AnyValue, fields : Seq(Field)]

IsField(p) == p[1] = "field"
IsFault(p) == p[1] \in {"no_separator", "no_number"}

\* The four kinds of piece.
LEMMA PieceFacts ==
  /\ Piece \subseteq AnyPiece
  /\ \A p \in AnyPiece : /\ p[1] = "empty" \/ IsFault(p) \/ IsField(p)
                         /\ IsField(p) => p[2] \in Number /\ p[3] \in Text
  /\ \A n \in Number, s \in Text :
       /\ <<"field", n, s>> \in AnyPiece /\ IsField(<<"field", n, s>>)
       /\ <<"field", n, s>>[2] = n /\ <<"field", n, s>>[3] = s
<1>1. Piece \subseteq AnyPiece
  <2>1. SUFFICES ASSUME NEW p \in Piece PROVE p \in AnyPiece
    OBVIOUS
  <2>2. CASE p \in {<<"empty">>, <<"no_separator">>, <<"no_number">>}
    BY <2>2 DEF AnyPiece
  <2>3. ASSUME NEW n \in Tags, NEW s \in Plain, p = <<"field", n, s>> PROVE p \in AnyPiece
    BY <2>3 DEF AnyPiece, Number, Text
  <2>4. ASSUME NEW s \in Types \cup {Empty}, p = <<"field", msg_type_tag, s>>
        PROVE  p \in AnyPiece
    BY <2>4 DEF AnyPiece, Number, Text
  <2>5. QED
    BY <2>2, <2>3, <2>4 DEF Piece
<1>2. ASSUME NEW p \in AnyPiece
      PROVE  /\ p[1] = "empty" \/ IsFault(p) \/ IsField(p)
             /\ IsField(p) => p[2] \in Number /\ p[3] \in Text
  BY DEF AnyPiece, IsFault, IsField
<1>3. ASSUME NEW n \in Number, NEW s \in Text
      PROVE  /\ <<"field", n, s>> \in AnyPiece /\ IsField(<<"field", n, s>>)
             /\ <<"field", n, s>>[2] = n /\ <<"field", n, s>>[3] = s
  BY DEF AnyPiece, IsField
<1>4. QED
  BY <1>1, <1>2, <1>3

\* The values of the decoder.
LEMMA ValueFacts ==
  /\ \A s \in Text : AsValue(s) \in AnyValue /\ AsValue(s).text = s /\ AsValue(s).rest = << >>
  /\ Empty \in Text
BY DEF AsValue, AnyValue, Text

\* A function on 1 .. n is a sequence.
LEMMA FunctionIsSeq ==
  ASSUME NEW S, NEW n \in Nat, NEW q, q \in [1 .. n -> S]
  PROVE  q \in Seq(S)
<1>1. \E k \in Nat : q \in [1 .. k -> S]
  OBVIOUS
<1>2. q \in UNION {[1 .. k -> S] : k \in Nat}
  BY <1>1
<1>3. QED
  BY <1>2, SeqDef, Zenon

-----------------------------------------------------------------------------
(* message::set *)

\* No tag twice.
Distinct(fs) == \A i, j \in DOMAIN fs : fs[i].number = fs[j].number => i = j

HasTag(fs, n) == \E i \in DOMAIN fs : fs[i].number = n

\* A tag that is there keeps its place.
LEMMA SetThere ==
  ASSUME NEW fs \in Seq(Field), NEW n \in Number, NEW v \in AnyValue, HasTag(fs, n)
  PROVE  /\ set(fs, n, v) \in Seq(Field) /\ DOMAIN set(fs, n, v) = DOMAIN fs
         /\ \A i \in DOMAIN fs :
              /\ set(fs, n, v)[i].number = fs[i].number
              /\ set(fs, n, v)[i].value = IF fs[i].number = n THEN v ELSE fs[i].value
<1> DEFINE g == [i \in DOMAIN fs |->
                   IF fs[i].number = n THEN [fs[i] EXCEPT !.value = v] ELSE fs[i]]
<1>1. set(fs, n, v) = g
  BY DEF set, HasTag
<1>2. \A i \in DOMAIN fs : fs[i] \in Field
  OBVIOUS
<1>3. \A i \in DOMAIN fs : /\ g[i] \in Field /\ g[i].number = fs[i].number
                           /\ g[i].value = IF fs[i].number = n THEN v ELSE fs[i].value
  BY <1>2 DEF Field
<1>4. DOMAIN g = DOMAIN fs /\ DOMAIN fs = 1 .. Len(fs) /\ Len(fs) \in Nat
  OBVIOUS
<1>5. g \in Seq(Field)
  <2>1. g \in [1 .. Len(fs) -> Field]
    BY <1>3, <1>4
  <2> HIDE DEF g
  <2>2. QED
    BY <1>4, <2>1, FunctionIsSeq
<1> HIDE DEF g
<1>6. QED
  BY <1>1, <1>3, <1>4, <1>5

\* A new one goes to the end.
LEMMA SetNew ==
  ASSUME NEW fs \in Seq(Field), NEW n \in Number, NEW v \in AnyValue, ~HasTag(fs, n)
  PROVE  /\ set(fs, n, v) \in Seq(Field) /\ Len(fs) \in Nat
         /\ DOMAIN fs = 1 .. Len(fs) /\ DOMAIN set(fs, n, v) = 1 .. Len(fs) + 1
         /\ \A i \in DOMAIN fs : set(fs, n, v)[i] = fs[i]
         /\ set(fs, n, v)[Len(fs) + 1].number = n
         /\ set(fs, n, v)[Len(fs) + 1].value = v
<1>1. set(fs, n, v) = Append(fs, [number |-> n, value |-> v])
  BY DEF set, HasTag
<1>2. [number |-> n, value |-> v] \in Field
  BY DEF Field
<1> HIDE DEF Field
<1>3. QED
  BY <1>1, <1>2

\* No tag comes twice.
LEMMA SetDistinct ==
  ASSUME NEW fs \in Seq(Field), NEW n \in Number, NEW v \in AnyValue, Distinct(fs)
  PROVE  set(fs, n, v) \in Seq(Field) /\ Distinct(set(fs, n, v))
<1> DEFINE g == set(fs, n, v)
<1>1. CASE HasTag(fs, n)
  <2>1. /\ g \in Seq(Field) /\ DOMAIN g = DOMAIN fs
        /\ \A i \in DOMAIN fs : g[i].number = fs[i].number
    BY <1>1, SetThere
  <2> HIDE DEF g
  <2>2. Distinct(g)
    BY <2>1 DEF Distinct
  <2>3. QED
    BY <2>1, <2>2 DEF g
<1>2. CASE ~HasTag(fs, n)
  <2>1. /\ g \in Seq(Field) /\ Len(fs) \in Nat /\ DOMAIN fs = 1 .. Len(fs)
        /\ DOMAIN g = 1 .. Len(fs) + 1 /\ \A i \in DOMAIN fs : g[i] = fs[i]
        /\ g[Len(fs) + 1].number = n
    BY <1>2, SetNew
  <2> HIDE DEF g
  <2>2. ASSUME NEW i \in DOMAIN g PROVE i \in DOMAIN fs \/ i = Len(fs) + 1
    BY <2>1
  <2>3. \A i \in DOMAIN fs : g[i].number # n
    BY <1>2, <2>1 DEF HasTag
  <2>4. Distinct(g)
    BY <2>1, <2>2, <2>3 DEF Distinct
  <2>5. QED
    BY <2>1, <2>4 DEF g
<1>3. QED
  BY <1>1, <1>2

-----------------------------------------------------------------------------
(* The decoder as a sequence of steps *)

Start == Untyped(AsValue(Empty))

\* f holds the output of the decoder after each of the first n pieces of w.
Decodes(w, n, f) ==
  f = [i \in 0 .. n |-> IF i = 0 THEN Start ELSE decode_field(f[i - 1], w[i])]

\* What decode returns when the loop is over.
Final(result) ==
  IF ~Failed(result) /\ result.msg_type.text = Empty
  THEN [error |-> "missing_msg_type"]
  ELSE result

\* One more piece.
LEMMA DecodesMore ==
  ASSUME NEW w, NEW n \in Nat, NEW f, Decodes(w, n, f)
  PROVE  \E g : Decodes(w, n + 1, g)
<1> DEFINE g == [i \in 0 .. n + 1 |-> IF i = n + 1 THEN decode_field(f[n], w[n + 1]) ELSE f[i]]
<1>1. \A i \in 0 .. n : f[i] = IF i = 0 THEN Start ELSE decode_field(f[i - 1], w[i])
  BY DEF Decodes
<1>2. \A i \in 0 .. n + 1 : g[i] = IF i = 0 THEN Start ELSE decode_field(g[i - 1], w[i])
  <2>1. SUFFICES ASSUME NEW i \in 0 .. n + 1
                 PROVE  g[i] = IF i = 0 THEN Start ELSE decode_field(g[i - 1], w[i])
    OBVIOUS
  <2>2. CASE i = 0
    BY <1>1, <2>2
  <2>3. CASE i # 0 /\ i # n + 1
    <3>1. i \in 0 .. n /\ i - 1 \in 0 .. n + 1 /\ i - 1 # n + 1
      BY <2>3
    <3>2. g[i] = f[i] /\ g[i - 1] = f[i - 1]
      BY <2>3, <3>1
    <3>3. QED
      BY <1>1, <2>3, <3>1, <3>2
  <2>4. CASE i = n + 1
    <3>1. g[n + 1] = decode_field(f[n], w[n + 1]) /\ g[n] = f[n]
      OBVIOUS
    <3>2. i - 1 = n /\ i # 0
      BY <2>4
    <3>3. QED
      BY <2>4, <3>1, <3>2
  <2>5. QED
    BY <2>2, <2>3, <2>4
<1>3. g = [i \in 0 .. n + 1 |-> g[i]]
  OBVIOUS
<1> HIDE DEF g
<1>4. Decodes(w, n + 1, g)
  BY <1>2, <1>3 DEF Decodes
<1>5. QED
  BY <1>4

\* The recursive function of decode exists.
LEMMA DecodesExists ==
  ASSUME NEW w, NEW n \in Nat
  PROVE  \E f : Decodes(w, n, f)
<1> DEFINE B == {i \in 0 .. n : ~\E f : Decodes(w, i, f)}
<1>1. \E f : Decodes(w, 0, f)
  <2> DEFINE f == [i \in 0 .. 0 |-> Start]
  <2>1. f = [i \in 0 .. 0 |-> IF i = 0 THEN Start ELSE decode_field(f[i - 1], w[i])]
    OBVIOUS
  <2> HIDE DEF f
  <2>2. QED
    BY <2>1 DEF Decodes
<1>2. \A i \in 1 .. n : i \in B => i - 1 \in B
  <2>1. SUFFICES ASSUME NEW i \in 1 .. n, i - 1 \notin B PROVE i \notin B
    OBVIOUS
  <2>2. i - 1 \in 0 .. n /\ i - 1 \in Nat /\ (i - 1) + 1 = i
    OBVIOUS
  <2>3. PICK f : Decodes(w, i - 1, f)
    BY <2>1, <2>2
  <2>4. \E g : Decodes(w, (i - 1) + 1, g)
    BY <2>2, <2>3, DecodesMore
  <2>5. QED
    BY <2>2, <2>4
<1>3. 0 \notin B /\ B \subseteq 0 .. n
  BY <1>1
<1>4. n \in 0 .. n
  OBVIOUS
<1> HIDE DEF B
<1>5. B = {}
  BY <1>2, <1>3, NoneBad
<1>6. QED
  BY <1>4, <1>5 DEF B

\* decode returns what its steps lead to.
LEMMA DecodeIs ==
  ASSUME NEW w, Len(w) \in Nat
  PROVE  \E f : Decodes(w, Len(w), f) /\ decode(w) = Final(f[Len(w)])
<1> DEFINE f == CHOOSE f : f = [i \in 0 .. Len(w) |->
                                 IF i = 0 THEN Untyped(AsValue(Empty))
                                 ELSE decode_field(f[i - 1], w[i])]
<1>1. \E g : g = [i \in 0 .. Len(w) |->
                    IF i = 0 THEN Untyped(AsValue(Empty)) ELSE decode_field(g[i - 1], w[i])]
  BY DecodesExists DEF Decodes, Start
<1>2. f = [i \in 0 .. Len(w) |->
             IF i = 0 THEN Untyped(AsValue(Empty)) ELSE decode_field(f[i - 1], w[i])]
  BY <1>1, Zenon
<1>3. decode(w) = Final(f[Len(w)])
  BY Zenon DEF decode, Final
<1> HIDE DEF f
<1>4. Decodes(w, Len(w), f)
  BY <1>2 DEF Decodes, Start
<1>5. QED
  BY <1>3, <1>4

-----------------------------------------------------------------------------
(* What the decoder has after k pieces *)

Places(w, k, n) == {i \in 1 .. k : IsField(w[i]) /\ w[i][2] = n}
Faulty(w, k) == \E i \in 1 .. k : IsFault(w[i])
IsLast(i, P) == i \in P /\ \A j \in P : j <= i

\* MsgType is the last one given, and empty as long as there is none.
TypeGood(w, k, v) ==
  /\ v \in AnyValue /\ v.rest = << >>
  /\ Places(w, k, msg_type_tag) = {} => v.text = Empty
  /\ \A i : IsLast(i, Places(w, k, msg_type_tag)) => v = AsValue(w[i][3])

\* The tags are those that were given, each with its last value, and each before
\* the tags that were given later.
FieldsGood(w, k, fs) ==
  /\ fs \in Seq(Field) /\ Distinct(fs)
  /\ \A x \in DOMAIN fs : fs[x].number \in Tags /\ Places(w, k, fs[x].number) # {}
  /\ \A n \in Tags : Places(w, k, n) # {} => HasTag(fs, n)
  /\ \A x \in DOMAIN fs : fs[x].value.rest = << >>
  /\ \A x \in DOMAIN fs : \A i : IsLast(i, Places(w, k, fs[x].number)) =>
                                   fs[x].value = AsValue(w[i][3])
  /\ \A x, y \in DOMAIN fs : x < y =>
       \A j \in Places(w, k, fs[y].number) : \E i \in Places(w, k, fs[x].number) : i < j

IsOutput(o) == o = [msg_type |-> o.msg_type, fields |-> o.fields]

Good(w, k, o) ==
  IF Faulty(w, k) THEN Failed(o)
  ELSE /\ IsOutput(o) /\ ~Failed(o)
       /\ TypeGood(w, k, o.msg_type) /\ FieldsGood(w, k, o.fields)

\* A further piece adds a place to its own tag only, and it is the last.
LEMMA PlacesStep ==
  ASSUME NEW w, NEW k \in Nat, NEW n
  PROVE  /\ IsField(w[k + 1]) /\ w[k + 1][2] = n =>
              /\ Places(w, k + 1, n) = Places(w, k, n) \cup {k + 1}
              /\ \A i : IsLast(i, Places(w, k + 1, n)) => i = k + 1
         /\ ~(IsField(w[k + 1]) /\ w[k + 1][2] = n) => Places(w, k + 1, n) = Places(w, k, n)
         /\ \A i \in Places(w, k, n) : i \in Nat /\ i < k + 1
<1>1. \A i : i \in 1 .. k + 1 <=> i \in 1 .. k \/ i = k + 1
  OBVIOUS
<1>2. \A i \in 1 .. k : i \in Nat /\ i < k + 1 /\ ~(k + 1 <= i)
  OBVIOUS
<1>3. \A i \in Places(w, k, n) : i \in Nat /\ i < k + 1 /\ ~(k + 1 <= i)
  BY <1>2 DEF Places
<1>4. ASSUME IsField(w[k + 1]), w[k + 1][2] = n
      PROVE  Places(w, k + 1, n) = Places(w, k, n) \cup {k + 1}
  BY <1>1, <1>4 DEF Places
<1>5. ASSUME ~(IsField(w[k + 1]) /\ w[k + 1][2] = n)
      PROVE  Places(w, k + 1, n) = Places(w, k, n)
  BY <1>1, <1>5 DEF Places
<1>6. ASSUME IsField(w[k + 1]), w[k + 1][2] = n, NEW i, IsLast(i, Places(w, k + 1, n))
      PROVE  i = k + 1
  BY <1>3, <1>4, <1>6 DEF IsLast
<1>7. QED
  BY <1>3, <1>4, <1>5, <1>6

\* A piece of another tag says nothing about MsgType.
LEMMA TypeKept ==
  ASSUME NEW w, NEW k \in Nat, NEW v, TypeGood(w, k, v),
         ~(IsField(w[k + 1]) /\ w[k + 1][2] = msg_type_tag)
  PROVE  TypeGood(w, k + 1, v)
<1>1. Places(w, k + 1, msg_type_tag) = Places(w, k, msg_type_tag)
  BY PlacesStep
<1>2. QED
  BY <1>1 DEF TypeGood

\* A further MsgType replaces the one before.
LEMMA TypeStep ==
  ASSUME NEW w, NEW k \in Nat, w[k + 1] \in AnyPiece, IsField(w[k + 1]),
         w[k + 1][2] = msg_type_tag
  PROVE  TypeGood(w, k + 1, AsValue(w[k + 1][3]))
<1>1. w[k + 1][3] \in Text
  BY PieceFacts
<1>2. /\ AsValue(w[k + 1][3]) \in AnyValue /\ AsValue(w[k + 1][3]).rest = << >>
  BY <1>1, ValueFacts
<1>3. Places(w, k + 1, msg_type_tag) # {}
  <2>1. Places(w, k + 1, msg_type_tag) = Places(w, k, msg_type_tag) \cup {k + 1}
    BY PlacesStep
  <2>2. QED
    BY <2>1
<1>4. \A i : IsLast(i, Places(w, k + 1, msg_type_tag)) => i = k + 1
  BY PlacesStep
<1>5. QED
  BY <1>2, <1>3, <1>4 DEF TypeGood

\* A piece that is no field, or MsgType, says nothing about the fields.
LEMMA FieldsKept ==
  ASSUME NEW w, NEW k \in Nat, NEW fs, FieldsGood(w, k, fs),
         ~(IsField(w[k + 1]) /\ w[k + 1][2] \in Tags)
  PROVE  FieldsGood(w, k + 1, fs)
<1>1. \A n \in Tags : Places(w, k + 1, n) = Places(w, k, n)
  BY PlacesStep
<1>2. \A x \in DOMAIN fs : fs[x].number \in Tags
  BY DEF FieldsGood
<1>3. \A x \in DOMAIN fs : Places(w, k + 1, fs[x].number) = Places(w, k, fs[x].number)
  BY <1>1, <1>2
<1>4. QED
  BY <1>1, <1>3 DEF FieldsGood

\* A tag that was there gets another value.
LEMMA FieldsStepThere ==
  ASSUME NEW w, NEW k \in Nat, NEW fs, FieldsGood(w, k, fs), NEW t \in Tags, NEW s \in Text,
         IsField(w[k + 1]), w[k + 1][2] = t, w[k + 1][3] = s, HasTag(fs, t)
  PROVE  FieldsGood(w, k + 1, set(fs, t, AsValue(s)))
<1> DEFINE v == AsValue(s)
           g == set(fs, t, v)
<1>1. fs \in Seq(Field) /\ Distinct(fs) /\ t \in Number /\ v \in AnyValue /\ v.rest = << >>
  BY ValueFacts DEF FieldsGood, Number
<1>2. /\ DOMAIN g = DOMAIN fs
      /\ \A x \in DOMAIN fs : /\ g[x].number = fs[x].number
                              /\ g[x].value = IF fs[x].number = t THEN v ELSE fs[x].value
  BY <1>1, SetThere
<1>3. g \in Seq(Field) /\ Distinct(g)
  BY <1>1, SetDistinct
<1>4. /\ Places(w, k + 1, t) = Places(w, k, t) \cup {k + 1}
      /\ \A i : IsLast(i, Places(w, k + 1, t)) => i = k + 1
  BY PlacesStep
<1>5. \A n : n # t => Places(w, k + 1, n) = Places(w, k, n)
  BY PlacesStep
<1>6. \A n : \A j \in Places(w, k, n) : j \in Nat /\ j < k + 1
  BY PlacesStep
<1> HIDE DEF v, g
<1>7. \A x \in DOMAIN g : g[x].number \in Tags /\ Places(w, k + 1, g[x].number) # {}
  <2>1. \A x \in DOMAIN fs : fs[x].number \in Tags /\ Places(w, k, fs[x].number) # {}
    BY DEF FieldsGood
  <2>2. \A n : Places(w, k, n) \subseteq Places(w, k + 1, n)
    BY <1>4, <1>5
  <2>3. QED
    BY <1>2, <2>1, <2>2
<1>8. \A n \in Tags : Places(w, k + 1, n) # {} => HasTag(g, n)
  <2>1. \A n \in Tags : Places(w, k, n) # {} => HasTag(fs, n)
    BY DEF FieldsGood
  <2>2. \A n : HasTag(fs, n) => HasTag(g, n)
    BY <1>2 DEF HasTag
  <2>3. QED
    BY <1>5, <2>1, <2>2
<1>9. \A x \in DOMAIN g : g[x].value.rest = << >>
  BY <1>1, <1>2 DEF FieldsGood
<1>10. ASSUME NEW x \in DOMAIN g, NEW i, IsLast(i, Places(w, k + 1, g[x].number))
       PROVE  g[x].value = AsValue(w[i][3])
  <2>1. CASE fs[x].number = t
    <3>1. i = k + 1
      BY <1>2, <1>4, <1>10, <2>1
    <3>2. QED
      BY <1>2, <2>1, <3>1 DEF v
  <2>2. CASE fs[x].number # t
    <3>1. IsLast(i, Places(w, k, fs[x].number))
      BY <1>2, <1>5, <1>10, <2>2
    <3>2. QED
      BY <1>2, <2>2, <3>1 DEF FieldsGood
  <2>3. QED
    BY <2>1, <2>2
<1>11. ASSUME NEW x \in DOMAIN g, NEW y \in DOMAIN g, x < y,
              NEW j \in Places(w, k + 1, g[y].number)
       PROVE  \E i \in Places(w, k + 1, g[x].number) : i < j
  <2>1. \A n : Places(w, k, n) \subseteq Places(w, k + 1, n)
    BY <1>4, <1>5
  <2>2. CASE j \in Places(w, k, g[y].number)
    <3>1. \E i \in Places(w, k, fs[x].number) : i < j
      BY <1>2, <1>11, <2>2 DEF FieldsGood
    <3>2. QED
      BY <1>2, <2>1, <3>1
  <2>3. CASE j = k + 1
    <3>1. PICK i \in Places(w, k, fs[x].number) : TRUE
      BY <1>2 DEF FieldsGood
    <3>2. i < j
      BY <1>6, <2>3
    <3>3. QED
      BY <1>2, <2>1, <3>2
  <2>4. QED
    BY <1>4, <1>5, <2>2, <2>3
<1>12. QED
  BY <1>3, <1>7, <1>8, <1>9, <1>10, <1>11 DEF FieldsGood, g, v

\* A new tag comes after all that are there.
LEMMA FieldsStepNew ==
  ASSUME NEW w, NEW k \in Nat, NEW fs, FieldsGood(w, k, fs), NEW t \in Tags, NEW s \in Text,
         IsField(w[k + 1]), w[k + 1][2] = t, w[k + 1][3] = s, ~HasTag(fs, t)
  PROVE  FieldsGood(w, k + 1, set(fs, t, AsValue(s)))
<1> DEFINE v == AsValue(s)
           g == set(fs, t, v)
           last == Len(fs) + 1
<1>1. fs \in Seq(Field) /\ Distinct(fs) /\ t \in Number /\ v \in AnyValue /\ v.rest = << >>
  BY ValueFacts DEF FieldsGood, Number
<1>2. /\ Len(fs) \in Nat /\ DOMAIN fs = 1 .. Len(fs) /\ DOMAIN g = 1 .. last
      /\ \A x \in DOMAIN fs : g[x] = fs[x]
      /\ g[last].number = t /\ g[last].value = v
  BY <1>1, SetNew
<1>3. g \in Seq(Field) /\ Distinct(g)
  BY <1>1, SetDistinct
<1>4. /\ Places(w, k + 1, t) = Places(w, k, t) \cup {k + 1}
      /\ \A i : IsLast(i, Places(w, k + 1, t)) => i = k + 1
  BY PlacesStep
<1>5. \A n : n # t => Places(w, k + 1, n) = Places(w, k, n)
  BY PlacesStep
<1>6. \A n : \A j \in Places(w, k, n) : j \in Nat /\ j < k + 1
  BY PlacesStep
<1>7. Places(w, k, t) = {}
  BY DEF FieldsGood
<1>8. \A x \in DOMAIN g : x \in DOMAIN fs \/ x = last
  BY <1>2
<1>9. last \in DOMAIN g /\ DOMAIN fs \subseteq DOMAIN g
  BY <1>2
<1>10. \A x, y \in DOMAIN g : x < y => x \in DOMAIN fs
  BY <1>2
<1>11. \A x \in DOMAIN fs : fs[x].number # t
  BY DEF HasTag
<1> HIDE DEF v, g, last
<1>12. \A x \in DOMAIN g : g[x].number \in Tags /\ Places(w, k + 1, g[x].number) # {}
  <2>1. \A x \in DOMAIN fs : fs[x].number \in Tags /\ Places(w, k, fs[x].number) # {}
    BY DEF FieldsGood
  <2>2. \A n : Places(w, k, n) \subseteq Places(w, k + 1, n)
    BY <1>4, <1>5
  <2>3. Places(w, k + 1, t) # {}
    BY <1>4
  <2>4. QED
    BY <1>2, <1>8, <2>1, <2>2, <2>3
<1>13. \A n \in Tags : Places(w, k + 1, n) # {} => HasTag(g, n)
  <2>1. \A n \in Tags : Places(w, k, n) # {} => HasTag(fs, n)
    BY DEF FieldsGood
  <2>2. \A n : HasTag(fs, n) => HasTag(g, n)
    BY <1>2, <1>9 DEF HasTag
  <2>3. HasTag(g, t)
    BY <1>2, <1>9 DEF HasTag
  <2>4. QED
    BY <1>5, <2>1, <2>2, <2>3
<1>14. \A x \in DOMAIN g : g[x].value.rest = << >>
  BY <1>1, <1>2, <1>8 DEF FieldsGood
<1>15. ASSUME NEW x \in DOMAIN g, NEW i, IsLast(i, Places(w, k + 1, g[x].number))
       PROVE  g[x].value = AsValue(w[i][3])
  <2>1. CASE x = last
    <3>1. i = k + 1
      BY <1>2, <1>4, <1>15, <2>1
    <3>2. QED
      BY <1>2, <2>1, <3>1 DEF v
  <2>2. CASE x \in DOMAIN fs
    <3>1. IsLast(i, Places(w, k, fs[x].number))
      BY <1>2, <1>5, <1>11, <1>15, <2>2
    <3>2. QED
      BY <1>2, <2>2, <3>1 DEF FieldsGood
  <2>3. QED
    BY <1>8, <2>1, <2>2
<1>16. ASSUME NEW x \in DOMAIN g, NEW y \in DOMAIN g, x < y,
              NEW j \in Places(w, k + 1, g[y].number)
       PROVE  \E i \in Places(w, k + 1, g[x].number) : i < j
  <2>1. x \in DOMAIN fs /\ g[x] = fs[x] /\ Places(w, k + 1, g[x].number) = Places(w, k, fs[x].number)
    BY <1>2, <1>5, <1>10, <1>11, <1>16
  <2>2. CASE y \in DOMAIN fs
    <3>1. j \in Places(w, k, fs[y].number)
      BY <1>2, <1>5, <1>11, <1>16, <2>2
    <3>2. \E i \in Places(w, k, fs[x].number) : i < j
      BY <1>16, <2>1, <2>2, <3>1 DEF FieldsGood
    <3>3. QED
      BY <2>1, <3>2
  <2>3. CASE y = last
    <3>1. j = k + 1
      BY <1>2, <1>4, <1>7, <1>16, <2>3
    <3>2. PICK i \in Places(w, k, fs[x].number) : TRUE
      BY <2>1 DEF FieldsGood
    <3>3. i < j
      BY <1>6, <3>1
    <3>4. QED
      BY <2>1, <3>3
  <2>4. QED
    BY <1>8, <2>2, <2>3
<1>17. QED
  BY <1>3, <1>12, <1>13, <1>14, <1>15, <1>16 DEF FieldsGood, g, v

\* What decode_field does with each kind of piece.
LEMMA FieldCases ==
  ASSUME NEW o, NEW p \in AnyPiece
  PROVE  /\ Failed(o) \/ p[1] = "empty" => decode_field(o, p) = o
         /\ IsFault(p) => Failed(decode_field(o, p))
         /\ ~Failed(o) /\ IsField(p) => decode_field(o, p) = Stored(o, p[2], p[3])
<1>1. DOMAIN Fault = {"no_separator", "no_number"}
  BY DEF Fault
<1>2. ASSUME NEW e PROVE Failed([error |-> e])
  BY DEF Failed
<1>3. IsFault(p) => Failed(decode_field(o, p))
  BY <1>1, <1>2 DEF decode_field, IsFault
<1>4. ~Failed(o) /\ IsField(p) => decode_field(o, p) = Stored(o, p[2], p[3])
  BY <1>1 DEF decode_field, IsField
<1>5. QED
  BY <1>3, <1>4 DEF decode_field

\* A field is stored without disturbing the others.
LEMMA StoredIs ==
  ASSUME NEW o, IsOutput(o), NEW n, NEW s
  PROVE  /\ IsOutput(Stored(o, n, s)) /\ ~Failed(Stored(o, n, s))
         /\ n = msg_type_tag => /\ Stored(o, n, s).msg_type = AsValue(s)
                                /\ Stored(o, n, s).fields = o.fields
         /\ n # msg_type_tag => /\ Stored(o, n, s).msg_type = o.msg_type
                                /\ Stored(o, n, s).fields = set(o.fields, n, AsValue(s))
<1> DEFINE a == AsValue(s)
           b == set(o.fields, n, AsValue(s))
           c == o.msg_type
           d == o.fields
<1>1. o = [msg_type |-> c, fields |-> d]
  BY DEF IsOutput
<1>2. n = msg_type_tag => Stored(o, n, s) = [o EXCEPT !.msg_type = a]
  BY DEF Stored
<1>3. n # msg_type_tag => Stored(o, n, s) = [o EXCEPT !.fields = b]
  BY DEF Stored
<1> HIDE DEF a, b, c, d
<1>4. n = msg_type_tag => Stored(o, n, s) = [msg_type |-> a, fields |-> d]
  BY <1>1, <1>2
<1>5. n # msg_type_tag => Stored(o, n, s) = [msg_type |-> c, fields |-> b]
  BY <1>1, <1>3
<1>6. CASE n = msg_type_tag
  <2>1. IsOutput(Stored(o, n, s)) /\ ~Failed(Stored(o, n, s))
    BY <1>4, <1>6 DEF IsOutput, Failed
  <2>2. Stored(o, n, s).msg_type = a /\ Stored(o, n, s).fields = d
    BY <1>4, <1>6
  <2>3. QED
    BY <1>6, <2>1, <2>2 DEF a, d
<1>7. CASE n # msg_type_tag
  <2>1. IsOutput(Stored(o, n, s)) /\ ~Failed(Stored(o, n, s))
    BY <1>5, <1>7 DEF IsOutput, Failed
  <2>2. Stored(o, n, s).msg_type = c /\ Stored(o, n, s).fields = b
    BY <1>5, <1>7
  <2>3. QED
    BY <1>7, <2>1, <2>2 DEF b, c
<1>8. QED
  BY <1>6, <1>7

\* The decoder begins well.
LEMMA GoodStart ==
  ASSUME NEW w
  PROVE  Good(w, 0, Start)
<1>1. ~Faulty(w, 0) /\ \A n : Places(w, 0, n) = {}
  BY DEF Faulty, Places
<1> DEFINE v == AsValue(Empty)
           none == << >>
<1>2. v \in AnyValue /\ v.rest = << >> /\ v.text = Empty
  BY ValueFacts
<1>3. none \in Seq(Field) /\ DOMAIN none = {}
  OBVIOUS
<1>4. Start = [msg_type |-> v, fields |-> none]
  BY DEF Start, Untyped
<1> HIDE DEF v, none
<1>5. Start.msg_type = v /\ Start.fields = none /\ IsOutput(Start) /\ ~Failed(Start)
  BY <1>4 DEF IsOutput, Failed
<1>6. TypeGood(w, 0, v)
  BY <1>1, <1>2 DEF TypeGood, IsLast
<1>7. FieldsGood(w, 0, none)
  BY <1>1, <1>3 DEF FieldsGood, Distinct
<1>8. QED
  BY <1>1, <1>5, <1>6, <1>7 DEF Good

\* One piece more.
LEMMA GoodStep ==
  ASSUME NEW w, NEW k \in Nat, w[k + 1] \in AnyPiece, NEW o, Good(w, k, o)
  PROVE  Good(w, k + 1, decode_field(o, w[k + 1]))
<1> DEFINE p == w[k + 1]
           r == decode_field(o, p)
<1>1. Faulty(w, k + 1) <=> Faulty(w, k) \/ IsFault(p)
  <2>1. \A i : i \in 1 .. k + 1 <=> i \in 1 .. k \/ i = k + 1
    OBVIOUS
  <2>2. QED
    BY <2>1 DEF Faulty
<1>2. /\ p[1] = "empty" \/ IsFault(p) \/ IsField(p)
      /\ IsField(p) => p[2] \in Number /\ p[3] \in Text
  BY PieceFacts
<1>3. ~(p[1] = "empty" /\ IsFault(p)) /\ ~(IsField(p) /\ (p[1] = "empty" \/ IsFault(p)))
  BY DEF IsFault, IsField
<1>4. CASE Faulty(w, k)
  <2>1. Failed(o)
    BY <1>4 DEF Good
  <2>2. r = o
    BY <2>1, FieldCases
  <2>3. QED
    BY <1>1, <1>4, <2>1, <2>2 DEF Good
<1>5. CASE ~Faulty(w, k) /\ IsFault(p)
  <2>1. Failed(r)
    BY <1>5, FieldCases
  <2>2. QED
    BY <1>1, <1>5, <2>1 DEF Good
<1>6. CASE ~Faulty(w, k) /\ p[1] = "empty"
  <2>1. r = o
    BY <1>6, FieldCases
  <2>2. /\ IsOutput(o) /\ ~Failed(o) /\ TypeGood(w, k, o.msg_type)
        /\ FieldsGood(w, k, o.fields)
    BY <1>6 DEF Good
  <2>3. TypeGood(w, k + 1, o.msg_type) /\ FieldsGood(w, k + 1, o.fields)
    BY <1>3, <1>6, <2>2, TypeKept, FieldsKept
  <2>4. QED
    BY <1>1, <1>3, <1>6, <2>1, <2>2, <2>3 DEF Good
<1>7. CASE ~Faulty(w, k) /\ IsField(p)
  <2>1. /\ IsOutput(o) /\ ~Failed(o) /\ TypeGood(w, k, o.msg_type)
        /\ FieldsGood(w, k, o.fields)
    BY <1>7 DEF Good
  <2>2. r = Stored(o, p[2], p[3])
    BY <1>7, <2>1, FieldCases
  <2>3. IsOutput(r) /\ ~Failed(r) /\ ~Faulty(w, k + 1)
    BY <1>1, <1>3, <1>7, <2>1, <2>2, StoredIs
  <2>4. CASE p[2] = msg_type_tag
    <3>1. r.msg_type = AsValue(p[3]) /\ r.fields = o.fields
      BY <2>1, <2>2, <2>4, StoredIs
    <3>2. TypeGood(w, k + 1, AsValue(p[3]))
      BY <1>7, <2>4, TypeStep
    <3>3. FieldsGood(w, k + 1, o.fields)
      BY <2>1, <2>4, FieldsKept, FixTextAssumption
    <3>4. QED
      BY <2>3, <3>1, <3>2, <3>3 DEF Good
  <2>5. CASE p[2] # msg_type_tag
    <3>1. r.msg_type = o.msg_type /\ r.fields = set(o.fields, p[2], AsValue(p[3]))
      BY <2>1, <2>2, <2>5, StoredIs
    <3>2. TypeGood(w, k + 1, o.msg_type)
      BY <2>1, <2>5, TypeKept
    <3>3. p[2] \in Tags /\ p[3] \in Text
      BY <1>2, <1>7, <2>5 DEF Number
    <3>4. FieldsGood(w, k + 1, set(o.fields, p[2], AsValue(p[3])))
      BY <1>7, <2>1, <3>3, FieldsStepThere, FieldsStepNew
    <3>5. QED
      BY <2>3, <3>1, <3>2, <3>4 DEF Good
  <2>6. QED
    BY <2>4, <2>5
<1>8. QED
  BY <1>2, <1>4, <1>5, <1>6, <1>7

\* The decoder's output after any number of pieces.
LEMMA GoodAll ==
  ASSUME NEW w, NEW n \in Nat, \A i \in 1 .. n : w[i] \in AnyPiece, NEW f, Decodes(w, n, f)
  PROVE  Good(w, n, f[n])
<1> DEFINE B == {i \in 0 .. n : ~Good(w, i, f[i])}
<1>1. \A i \in 0 .. n : f[i] = IF i = 0 THEN Start ELSE decode_field(f[i - 1], w[i])
  BY DEF Decodes
<1>2. 0 \notin B /\ B \subseteq 0 .. n
  <2>1. f[0] = Start
    BY <1>1
  <2>2. QED
    BY <2>1, GoodStart
<1>3. \A i \in 1 .. n : i \in B => i - 1 \in B
  <2>1. SUFFICES ASSUME NEW i \in 1 .. n, i - 1 \notin B PROVE i \notin B
    OBVIOUS
  <2>2. i - 1 \in 0 .. n /\ i \in 0 .. n /\ i # 0 /\ i - 1 \in Nat /\ (i - 1) + 1 = i
    OBVIOUS
  <2>3. Good(w, i - 1, f[i - 1])
    BY <2>1, <2>2
  <2>4. w[(i - 1) + 1] \in AnyPiece
    BY <2>2
  <2>5. Good(w, (i - 1) + 1, decode_field(f[i - 1], w[(i - 1) + 1]))
    BY <2>2, <2>3, <2>4, GoodStep
  <2>6. f[i] = decode_field(f[i - 1], w[i])
    BY <1>1, <2>2
  <2>7. QED
    BY <2>2, <2>5, <2>6
<1>4. n \in 0 .. n
  OBVIOUS
<1> HIDE DEF B
<1>5. B = {}
  BY <1>2, <1>3, NoneBad
<1>6. QED
  BY <1>4, <1>5 DEF B

\* What decode returns, for a payload of any length.
LEMMA GoodDecode ==
  ASSUME NEW w \in Seq(AnyPiece)
  PROVE  \E o : Good(w, Len(w), o) /\ decode(w) = Final(o)
<1>1. Len(w) \in Nat /\ \A i \in 1 .. Len(w) : w[i] \in AnyPiece
  OBVIOUS
<1>2. PICK f : Decodes(w, Len(w), f) /\ decode(w) = Final(f[Len(w)])
  BY <1>1, DecodeIs
<1>3. QED
  BY <1>1, <1>2, GoodAll

-----------------------------------------------------------------------------
(* The encoder as a sequence of steps *)

\* e holds the text after the type and each of the first n fields of m.
Encodes(m, n, e) ==
  e = [i \in 0 .. n |-> IF i = 0 THEN Written(msg_type_tag, m.msg_type)
                        ELSE Added(e[i - 1], m.fields[i])]

\* One more field.
LEMMA EncodesMore ==
  ASSUME NEW m, NEW n \in Nat, NEW e, Encodes(m, n, e)
  PROVE  \E g : Encodes(m, n + 1, g)
<1> DEFINE first == Written(msg_type_tag, m.msg_type)
           g == [i \in 0 .. n + 1 |-> IF i = n + 1 THEN Added(e[n], m.fields[n + 1]) ELSE e[i]]
<1>1. \A i \in 0 .. n : e[i] = IF i = 0 THEN first ELSE Added(e[i - 1], m.fields[i])
  BY DEF Encodes
<1> HIDE DEF first
<1>2. \A i \in 0 .. n + 1 : g[i] = IF i = 0 THEN first ELSE Added(g[i - 1], m.fields[i])
  <2>1. SUFFICES ASSUME NEW i \in 0 .. n + 1
                 PROVE  g[i] = IF i = 0 THEN first ELSE Added(g[i - 1], m.fields[i])
    OBVIOUS
  <2>2. CASE i = 0
    BY <1>1, <2>2
  <2>3. CASE i # 0 /\ i # n + 1
    <3>1. i \in 0 .. n /\ i - 1 \in 0 .. n + 1 /\ i - 1 # n + 1
      BY <2>3
    <3>2. g[i] = e[i] /\ g[i - 1] = e[i - 1]
      BY <2>3, <3>1
    <3>3. QED
      BY <1>1, <2>3, <3>1, <3>2
  <2>4. CASE i = n + 1
    <3>1. g[n + 1] = Added(e[n], m.fields[n + 1]) /\ g[n] = e[n]
      OBVIOUS
    <3>2. i - 1 = n /\ i # 0
      BY <2>4
    <3>3. QED
      BY <2>4, <3>1, <3>2
  <2>5. QED
    BY <2>2, <2>3, <2>4
<1>3. g = [i \in 0 .. n + 1 |-> g[i]]
  OBVIOUS
<1> HIDE DEF g
<1>4. Encodes(m, n + 1, g)
  BY <1>2, <1>3 DEF Encodes, first
<1>5. QED
  BY <1>4

\* The recursive function of encode exists.
LEMMA EncodesExists ==
  ASSUME NEW m, NEW n \in Nat
  PROVE  \E e : Encodes(m, n, e)
<1> DEFINE B == {i \in 0 .. n : ~\E e : Encodes(m, i, e)}
<1>1. \E e : Encodes(m, 0, e)
  <2> DEFINE first == Written(msg_type_tag, m.msg_type)
             e == [i \in 0 .. 0 |-> first]
  <2>1. e = [i \in 0 .. 0 |-> IF i = 0 THEN first ELSE Added(e[i - 1], m.fields[i])]
    OBVIOUS
  <2> HIDE DEF e
  <2>2. QED
    BY <2>1 DEF Encodes
<1>2. \A i \in 1 .. n : i \in B => i - 1 \in B
  <2>1. SUFFICES ASSUME NEW i \in 1 .. n, i - 1 \notin B PROVE i \notin B
    OBVIOUS
  <2>2. i - 1 \in 0 .. n /\ i - 1 \in Nat /\ (i - 1) + 1 = i
    OBVIOUS
  <2>3. PICK e : Encodes(m, i - 1, e)
    BY <2>1, <2>2
  <2>4. \E g : Encodes(m, (i - 1) + 1, g)
    BY <2>2, <2>3, EncodesMore
  <2>5. QED
    BY <2>2, <2>4
<1>3. 0 \notin B /\ B \subseteq 0 .. n
  BY <1>1
<1>4. n \in 0 .. n
  OBVIOUS
<1> HIDE DEF B
<1>5. B = {}
  BY <1>2, <1>3, NoneBad
<1>6. QED
  BY <1>4, <1>5 DEF B

\* encode returns what its steps lead to.
LEMMA EncodeIs ==
  ASSUME NEW m, Len(m.fields) \in Nat
  PROVE  \E e : Encodes(m, Len(m.fields), e) /\ encode(m) = e[Len(m.fields)]
<1> DEFINE e == CHOOSE e : e = [i \in 0 .. Len(m.fields) |->
                                 IF i = 0 THEN Written(msg_type_tag, m.msg_type)
                                 ELSE Added(e[i - 1], m.fields[i])]
<1>1. \E g : g = [i \in 0 .. Len(m.fields) |->
                    IF i = 0 THEN Written(msg_type_tag, m.msg_type)
                    ELSE Added(g[i - 1], m.fields[i])]
  BY EncodesExists DEF Encodes
<1>2. e = [i \in 0 .. Len(m.fields) |->
             IF i = 0 THEN Written(msg_type_tag, m.msg_type)
             ELSE Added(e[i - 1], m.fields[i])]
  BY <1>1, Zenon
<1>3. encode(m) = e[Len(m.fields)]
  BY Zenon DEF encode
<1> HIDE DEF e
<1>4. Encodes(m, Len(m.fields), e)
  BY <1>2 DEF Encodes
<1>5. QED
  BY <1>3, <1>4

\* A field is text that begins with its own tag and value.
LEMMA WrittenIs ==
  ASSUME NEW n \in Number, NEW v \in AnyValue
  PROVE  /\ Written(n, v) \in Seq(AnyPiece) /\ Written(n, v) # << >>
         /\ v.rest = << >> => Written(n, v) = <<<<"field", n, v.text>>>>
<1> DEFINE p == <<"field", n, v.text>>
<1>1. p \in AnyPiece /\ v.rest \in Seq(AnyPiece)
  BY PieceFacts DEF AnyValue
<1>2. Written(n, v) = <<p>> \o v.rest
  BY DEF Written
<1> HIDE DEF p
<1>3. <<p>> \in Seq(AnyPiece) /\ Len(<<p>>) = 1
  BY <1>1
<1>4. <<p>> \o v.rest \in Seq(AnyPiece) /\ Len(<<p>> \o v.rest) = 1 + Len(v.rest)
  BY <1>1, <1>3, ConcatProperties
<1>5. Written(n, v) # << >>
  BY <1>1, <1>2, <1>4
<1>6. v.rest = << >> => <<p>> \o v.rest = <<p>>
  BY <1>3, ConcatEmptySeq
<1>7. QED
  BY <1>2, <1>4, <1>5, <1>6 DEF p

\* The encoder makes pieces, and at least one.
LEMMA EncodeSeq ==
  ASSUME NEW m \in Message
  PROVE  encode(m) \in Seq(AnyPiece) /\ encode(m) # << >>
<1> DEFINE n == Len(m.fields)
<1>1. m.msg_type \in AnyValue /\ m.fields \in Seq(Field)
  BY DEF Message
<1>2. n \in Nat /\ \A i \in 1 .. n : m.fields[i].number \in Number /\ m.fields[i].value \in AnyValue
  <2> HIDE DEF Field
  <2>1. n \in Nat /\ \A i \in 1 .. n : m.fields[i] \in Field
    BY <1>1
  <2>2. QED
    BY <2>1 DEF Field
<1>3. PICK e : Encodes(m, n, e) /\ encode(m) = e[n]
  BY <1>2, EncodeIs
<1> HIDE DEF n
<1> DEFINE B == {i \in 0 .. n : ~(e[i] \in Seq(AnyPiece) /\ e[i] # << >>)}
<1>4. \A i \in 0 .. n : e[i] = IF i = 0 THEN Written(msg_type_tag, m.msg_type)
                              ELSE Added(e[i - 1], m.fields[i])
  BY <1>3 DEF Encodes
<1>5. 0 \notin B /\ B \subseteq 0 .. n
  <2>1. e[0] = Written(msg_type_tag, m.msg_type)
    BY <1>2, <1>4
  <2>2. msg_type_tag \in Number
    BY DEF Number
  <2>3. QED
    BY <1>1, <2>1, <2>2, WrittenIs
<1>6. \A i \in 1 .. n : i \in B => i - 1 \in B
  <2>1. SUFFICES ASSUME NEW i \in 1 .. n, i - 1 \notin B PROVE i \notin B
    OBVIOUS
  <2>2. i - 1 \in 0 .. n /\ i \in 0 .. n /\ i # 0
    BY <1>2
  <2> DEFINE t == Written(m.fields[i].number, m.fields[i].value)
             a == e[i - 1]
  <2>3. a \in Seq(AnyPiece) /\ a # << >>
    BY <2>1, <2>2
  <2>4. t \in Seq(AnyPiece)
    BY <1>2, WrittenIs
  <2>5. e[i] = a \o t
    BY <1>4, <2>2 DEF Added
  <2> HIDE DEF t, a, B
  <2>6. a \o t \in Seq(AnyPiece) /\ Len(a \o t) = Len(a) + Len(t)
    BY <2>3, <2>4, ConcatProperties
  <2>7. Len(a) \in Nat /\ Len(t) \in Nat /\ Len(a) # 0
    BY <2>3, <2>4, EmptySeq
  <2>8. a \o t # << >>
    BY <2>6, <2>7
  <2>9. QED
    BY <2>5, <2>6, <2>8 DEF B
<1>7. n \in 0 .. n
  BY <1>2
<1> HIDE DEF B
<1>8. B = {}
  BY <1>2, <1>5, <1>6, NoneBad
<1>9. QED
  BY <1>3, <1>7, <1>8 DEF B

-----------------------------------------------------------------------------
(* Clean messages come back *)

TypePiece(m) == <<"field", msg_type_tag, m.msg_type.text>>
PieceOf(m, x) == <<"field", m.fields[x].number, m.fields[x].value.text>>

\* The text of a clean message up to its field i: a piece for each field.
CleanText(m, i, t) ==
  /\ t \in Seq(AnyPiece) /\ Len(t) = i + 1 /\ t[1] = TypePiece(m)
  /\ \A x \in 1 .. i : t[x + 1] = PieceOf(m, x)

\* What the decoder has of m after its field k.
PrefixOf(m, k) == [msg_type |-> m.msg_type, fields |-> SubSeq(m.fields, 1, k)]

\* The fields of a clean message.
LEMMA CleanFacts ==
  ASSUME NEW m \in Message, Clean(m)
  PROVE  /\ m.msg_type \in AnyValue /\ m.msg_type = AsValue(m.msg_type.text)
         /\ m.msg_type.text \in Text /\ m.msg_type.text # Empty /\ m.msg_type.rest = << >>
         /\ m.fields \in Seq(Field) /\ Len(m.fields) \in Nat
         /\ \A x \in 1 .. Len(m.fields) :
              /\ m.fields[x] \in Field /\ m.fields[x].number \in Tags
              /\ m.fields[x].value \in AnyValue /\ m.fields[x].value.text \in Text
              /\ m.fields[x].value.rest = << >>
              /\ m.fields[x] = [number |-> m.fields[x].number,
                                value |-> AsValue(m.fields[x].value.text)]
<1>1. m.msg_type \in AnyValue /\ m.fields \in Seq(Field)
  BY DEF Message
<1>2. ASSUME NEW v \in AnyValue, v.rest = << >>
      PROVE  v = AsValue(v.text) /\ v.text \in Text
  BY <1>2 DEF AnyValue, AsValue
<1>3. m.msg_type.text # Empty /\ m.msg_type.rest = << >>
  BY DEF Clean
<1>4. /\ Len(m.fields) \in Nat /\ DOMAIN m.fields = 1 .. Len(m.fields)
      /\ \A x \in 1 .. Len(m.fields) : m.fields[x] \in Field
  <2> HIDE DEF Field
  <2>1. QED
    BY <1>1
<1>5. ASSUME NEW x \in 1 .. Len(m.fields)
      PROVE  /\ m.fields[x] \in Field /\ m.fields[x].number \in Tags
             /\ m.fields[x].value \in AnyValue /\ m.fields[x].value.text \in Text
             /\ m.fields[x].value.rest = << >>
             /\ m.fields[x] = [number |-> m.fields[x].number,
                               value |-> AsValue(m.fields[x].value.text)]
  <2>1. m.fields[x] \in Field
    BY <1>4
  <2>2. m.fields[x].number # msg_type_tag /\ m.fields[x].value.rest = << >>
    BY <1>4 DEF Clean
  <2>3. /\ m.fields[x].number \in Number /\ m.fields[x].value \in AnyValue
        /\ m.fields[x] = [number |-> m.fields[x].number, value |-> m.fields[x].value]
    BY <2>1 DEF Field
  <2>4. m.fields[x].value = AsValue(m.fields[x].value.text) /\ m.fields[x].value.text \in Text
    BY <1>2, <2>2, <2>3
  <2>5. m.fields[x].number \in Tags
    BY <2>2, <2>3 DEF Number
  <2>6. QED
    BY <2>1, <2>2, <2>3, <2>4, <2>5
<1>6. QED
  BY <1>1, <1>2, <1>3, <1>4, <1>5

\* The type is the first piece.
LEMMA CleanTextStart ==
  ASSUME NEW m \in Message, Clean(m)
  PROVE  CleanText(m, 0, Written(msg_type_tag, m.msg_type))
<1>1. m.msg_type \in AnyValue /\ m.msg_type.text \in Text /\ m.msg_type.rest = << >>
  BY CleanFacts
<1>2. msg_type_tag \in Number
  BY DEF Number
<1>3. /\ Written(msg_type_tag, m.msg_type) \in Seq(AnyPiece)
      /\ Written(msg_type_tag, m.msg_type) = <<TypePiece(m)>>
  BY <1>1, <1>2, WrittenIs DEF TypePiece
<1>4. Len(<<TypePiece(m)>>) = 0 + 1 /\ <<TypePiece(m)>>[1] = TypePiece(m)
  OBVIOUS
<1>5. 1 .. 0 = {}
  OBVIOUS
<1>6. QED
  BY <1>3, <1>4, <1>5 DEF CleanText

\* Each field is one piece more.
LEMMA CleanTextStep ==
  ASSUME NEW m \in Message, Clean(m), NEW i \in Nat, i + 1 \in 1 .. Len(m.fields),
         NEW t, CleanText(m, i, t)
  PROVE  CleanText(m, i + 1, Added(t, m.fields[i + 1]))
<1> DEFINE p == PieceOf(m, i + 1)
           r == Added(t, m.fields[i + 1])
<1>1. /\ m.fields[i + 1].number \in Number /\ m.fields[i + 1].value \in AnyValue
      /\ m.fields[i + 1].value.rest = << >>
  BY CleanFacts DEF Number
<1>2. r = t \o <<p>> /\ <<p>> \in Seq(AnyPiece)
  BY <1>1, WrittenIs DEF Added, PieceOf
<1>3. t \in Seq(AnyPiece) /\ Len(t) = i + 1 /\ Len(<<p>>) = 1
  BY DEF CleanText
<1> HIDE DEF p, r
<1>4. /\ r \in Seq(AnyPiece) /\ Len(r) = Len(t) + Len(<<p>>)
      /\ \A x \in 1 .. Len(t) + Len(<<p>>) : r[x] = IF x <= Len(t) THEN t[x]
                                                     ELSE <<p>>[x - Len(t)]
  BY <1>2, <1>3, ConcatProperties
<1>5. Len(r) = (i + 1) + 1 /\ \A x \in 1 .. i + 1 : r[x] = t[x]
  BY <1>3, <1>4
<1>6. r[(i + 1) + 1] = p
  <2>1. (i + 1) + 1 \in 1 .. Len(t) + Len(<<p>>) /\ ~((i + 1) + 1 <= Len(t))
        /\ ((i + 1) + 1) - Len(t) = 1
    BY <1>3
  <2>2. r[(i + 1) + 1] = <<p>>[1]
    BY <1>4, <2>1
  <2>3. QED
    BY <2>2
<1>7. r[1] = TypePiece(m)
  BY <1>5 DEF CleanText
<1>8. ASSUME NEW x \in 1 .. i + 1 PROVE r[x + 1] = PieceOf(m, x)
  <2>1. CASE x = i + 1
    BY <1>6, <2>1 DEF p
  <2>2. CASE x # i + 1
    <3>1. x \in 1 .. i /\ x + 1 \in 1 .. i + 1
      BY <2>2
    <3>2. QED
      BY <1>5, <3>1 DEF CleanText
  <2>3. QED
    BY <2>1, <2>2
<1>9. QED
  BY <1>4, <1>5, <1>7, <1>8 DEF CleanText, r

\* The text of a clean message.
LEMMA CleanEncode ==
  ASSUME NEW m \in Message, Clean(m)
  PROVE  CleanText(m, Len(m.fields), encode(m))
<1> DEFINE n == Len(m.fields)
<1>1. n \in Nat
  BY CleanFacts
<1>2. PICK e : Encodes(m, n, e) /\ encode(m) = e[n]
  BY <1>1, EncodeIs
<1> DEFINE B == {i \in 0 .. n : ~CleanText(m, i, e[i])}
<1>3. \A i \in 0 .. n : e[i] = IF i = 0 THEN Written(msg_type_tag, m.msg_type)
                              ELSE Added(e[i - 1], m.fields[i])
  BY <1>2 DEF Encodes
<1>4. 0 \notin B /\ B \subseteq 0 .. n
  <2>1. e[0] = Written(msg_type_tag, m.msg_type)
    BY <1>1, <1>3
  <2>2. QED
    BY <2>1, CleanTextStart
<1>5. \A i \in 1 .. n : i \in B => i - 1 \in B
  <2>1. SUFFICES ASSUME NEW i \in 1 .. n, i - 1 \notin B PROVE i \notin B
    OBVIOUS
  <2>2. /\ i - 1 \in 0 .. n /\ i \in 0 .. n /\ i # 0 /\ i - 1 \in Nat
        /\ (i - 1) + 1 = i /\ (i - 1) + 1 \in 1 .. Len(m.fields)
    BY <1>1
  <2>3. CleanText(m, i - 1, e[i - 1])
    BY <2>1, <2>2
  <2>4. CleanText(m, (i - 1) + 1, Added(e[i - 1], m.fields[(i - 1) + 1]))
    BY <2>2, <2>3, CleanTextStep
  <2>5. e[i] = Added(e[i - 1], m.fields[i])
    BY <1>3, <2>2
  <2>6. QED
    BY <2>2, <2>4, <2>5
<1>6. n \in 0 .. n
  BY <1>1
<1> HIDE DEF B
<1>7. B = {}
  BY <1>1, <1>4, <1>5, NoneBad
<1>8. QED
  BY <1>2, <1>6, <1>7 DEF B

\* The decoder takes the type.
LEMMA CleanDecodeStart ==
  ASSUME NEW m \in Message, Clean(m)
  PROVE  decode_field(Start, TypePiece(m)) = PrefixOf(m, 0)
<1>1. /\ m.msg_type.text \in Text /\ m.msg_type = AsValue(m.msg_type.text)
      /\ m.fields \in Seq(Field)
  BY CleanFacts
<1>2. /\ TypePiece(m) \in AnyPiece /\ IsField(TypePiece(m))
      /\ TypePiece(m)[2] = msg_type_tag /\ TypePiece(m)[3] = m.msg_type.text
  BY <1>1, PieceFacts DEF TypePiece, Number
<1>3. IsOutput(Start) /\ ~Failed(Start) /\ Start.fields = << >>
  BY DEF Start, Untyped, IsOutput, Failed
<1> DEFINE r == decode_field(Start, TypePiece(m))
<1>4. r = Stored(Start, msg_type_tag, m.msg_type.text)
  BY <1>2, <1>3, FieldCases
<1>5. IsOutput(r) /\ r.msg_type = m.msg_type /\ r.fields = << >>
  BY <1>1, <1>3, <1>4, StoredIs
<1>6. SubSeq(m.fields, 1, 0) = << >>
  BY SubSeqEmpty
<1> HIDE DEF r
<1>7. QED
  BY <1>5, <1>6 DEF PrefixOf, IsOutput, r

\* The decoder takes one field more, as it was and behind the others.
LEMMA CleanDecodeStep ==
  ASSUME NEW m \in Message, Clean(m), Distinct(m.fields),
         NEW k \in Nat, k + 1 \in 1 .. Len(m.fields)
  PROVE  decode_field(PrefixOf(m, k), PieceOf(m, k + 1)) = PrefixOf(m, k + 1)
<1> DEFINE q == m.fields[k + 1]
           p == PieceOf(m, k + 1)
           o == PrefixOf(m, k)
           h == SubSeq(m.fields, 1, k)
<1>1. /\ m.fields \in Seq(Field) /\ Len(m.fields) \in Nat /\ q \in Field /\ q.number \in Tags
      /\ q.value.text \in Text /\ q = [number |-> q.number, value |-> AsValue(q.value.text)]
  BY CleanFacts
<1>2. /\ p \in AnyPiece /\ IsField(p) /\ p[2] = q.number /\ p[3] = q.value.text
  BY <1>1, PieceFacts DEF PieceOf, Number
<1>3. IsOutput(o) /\ ~Failed(o) /\ o.fields = h /\ o.msg_type = m.msg_type
  BY DEF PrefixOf, IsOutput, Failed
<1>4. decode_field(o, p) = Stored(o, q.number, q.value.text)
  BY <1>2, <1>3, FieldCases
<1>5. q.number # msg_type_tag
  BY <1>1, FixTextAssumption
<1>6. ~\E i \in DOMAIN h : h[i].number = q.number
  <2>1. k \in 0 .. Len(m.fields) /\ DOMAIN m.fields = 1 .. Len(m.fields)
    BY <1>1
  <2>2. /\ h \in Seq(Field) /\ Len(h) = k /\ \A i \in 1 .. k : h[i] = m.fields[i]
    <3> HIDE DEF Field
    <3>1. QED
      BY <1>1, <2>1
  <2>3. DOMAIN h = 1 .. k
    BY <2>2
  <2>4. \A i \in 1 .. k : i \in DOMAIN m.fields /\ k + 1 \in DOMAIN m.fields /\ i # k + 1
    BY <1>1, <2>1
  <2>5. \A i \in 1 .. k : m.fields[i].number # q.number
    BY <2>4 DEF Distinct
  <2> HIDE DEF q, h
  <2>6. QED
    BY <2>2, <2>3, <2>5
<1>7. set(h, q.number, AsValue(q.value.text)) = Append(h, q)
  <2> HIDE DEF h, q
  <2>1. set(h, q.number, AsValue(q.value.text))
          = Append(h, [number |-> q.number, value |-> AsValue(q.value.text)])
    BY <1>6 DEF set
  <2>2. QED
    BY <1>1, <2>1
<1>8. Append(h, q) = SubSeq(m.fields, 1, k + 1)
  <2>1. k + 1 \in 1 .. Len(m.fields) /\ (k + 1) - 1 = k /\ k + 1 \in Nat
    OBVIOUS
  <2>2. k \in 0 .. Len(m.fields)
    BY <1>1
  <2>3. h \in Seq(Field) /\ Len(h) = k /\ \A i \in 1 .. k : h[i] = m.fields[i]
    <3> HIDE DEF Field
    <3>1. QED
      BY <1>1, <2>2
  <2> DEFINE g == SubSeq(m.fields, 1, k + 1)
             a == Append(h, q)
  <2>4. g \in Seq(Field) /\ Len(g) = k + 1 /\ \A i \in 1 .. k + 1 : g[i] = m.fields[i]
    <3> HIDE DEF Field
    <3>1. QED
      BY <1>1, <2>1
  <2>5. a \in Seq(Field) /\ Len(a) = k + 1 /\ a[k + 1] = q /\ \A i \in 1 .. k : a[i] = h[i]
    <3> HIDE DEF Field, h, q
    <3>1. QED
      BY <1>1, <2>3
  <2>6. \A i \in 1 .. k + 1 : i \in 1 .. k \/ i = k + 1
    OBVIOUS
  <2>7. \A i \in 1 .. k + 1 : a[i] = g[i]
    <3> HIDE DEF a, g, h
    <3>1. QED
      BY <2>3, <2>4, <2>5, <2>6
  <2> HIDE DEF a, g
  <2>8. a = g
    BY <2>4, <2>5, <2>7, SeqEqual
  <2>9. QED
    BY <2>8 DEF a, g
<1> DEFINE r == Stored(o, q.number, q.value.text)
<1>9. IsOutput(r) /\ r.msg_type = m.msg_type /\ r.fields = SubSeq(m.fields, 1, k + 1)
  <2> HIDE DEF o, q, h
  <2>1. QED
    BY <1>3, <1>5, <1>7, <1>8, StoredIs
<1> HIDE DEF r
<1>10. r = PrefixOf(m, k + 1)
  BY <1>9 DEF PrefixOf, IsOutput
<1>11. QED
  BY <1>4, <1>10 DEF r

\* Decoding what was encoded gives the clean message again.
LEMMA CleanDecode ==
  ASSUME NEW m \in Message, Clean(m), Distinct(m.fields)
  PROVE  decode(encode(m)) = m
<1> DEFINE n == Len(m.fields)
           w == encode(m)
<1>1. /\ n \in Nat /\ m.fields \in Seq(Field) /\ m.msg_type.text # Empty
  BY CleanFacts
<1>2. /\ w \in Seq(AnyPiece) /\ Len(w) = n + 1 /\ w[1] = TypePiece(m)
      /\ \A x \in 1 .. n : w[x + 1] = PieceOf(m, x)
  BY CleanEncode DEF CleanText
<1> HIDE DEF n, w
<1>3. PICK f : Decodes(w, n + 1, f) /\ decode(w) = Final(f[n + 1])
  <2>1. Len(w) \in Nat
    BY <1>1, <1>2
  <2>2. QED
    BY <1>2, <2>1, DecodeIs
<1>4. \A i \in 0 .. n + 1 : f[i] = IF i = 0 THEN Start ELSE decode_field(f[i - 1], w[i])
  BY <1>3 DEF Decodes
<1> DEFINE B == {i \in 0 .. n : f[i + 1] # PrefixOf(m, i)}
<1>5. 0 \notin B /\ B \subseteq 0 .. n
  <2>1. 0 \in 0 .. n + 1 /\ 1 \in 0 .. n + 1 /\ 1 - 1 = 0 /\ 0 + 1 = 1
    BY <1>1
  <2>2. f[0] = Start
    BY <1>4, <2>1
  <2>3. f[1] = decode_field(f[1 - 1], w[1])
    BY <1>4, <2>1
  <2>4. f[0 + 1] = PrefixOf(m, 0)
    BY <1>2, <2>1, <2>2, <2>3, CleanDecodeStart
  <2>5. QED
    BY <2>4
<1>6. \A i \in 1 .. n : i \in B => i - 1 \in B
  <2>1. SUFFICES ASSUME NEW i \in 1 .. n, i - 1 \notin B PROVE i \notin B
    OBVIOUS
  <2>2. /\ i - 1 \in 0 .. n /\ i - 1 \in Nat /\ (i - 1) + 1 = i
        /\ i + 1 \in 0 .. n + 1 /\ i + 1 # 0 /\ (i + 1) - 1 = i
    BY <1>1
  <2>3. f[i] = PrefixOf(m, i - 1)
    BY <2>1, <2>2
  <2>4. f[i + 1] = decode_field(f[i], PieceOf(m, i))
    BY <1>2, <1>4, <2>2
  <2>5. (i - 1) + 1 \in 1 .. Len(m.fields)
    BY <2>2 DEF n
  <2>6. decode_field(PrefixOf(m, i - 1), PieceOf(m, (i - 1) + 1)) = PrefixOf(m, (i - 1) + 1)
    BY <2>2, <2>5, CleanDecodeStep
  <2>7. QED
    BY <2>2, <2>3, <2>4, <2>6
<1>7. n \in 0 .. n
  BY <1>1
<1> HIDE DEF B
<1>8. B = {}
  BY <1>1, <1>5, <1>6, NoneBad
<1>9. f[n + 1] = PrefixOf(m, n)
  BY <1>7, <1>8 DEF B
<1>10. PrefixOf(m, n) = m
  <2>1. SubSeq(m.fields, 1, n) = m.fields
    BY <1>1, SubSeqFull DEF n
  <2>2. m = [msg_type |-> m.msg_type, fields |-> m.fields]
    BY DEF Message
  <2>3. QED
    BY <2>1, <2>2 DEF PrefixOf
<1>11. Final(m) = m
  BY <1>1 DEF Final
<1>12. QED
  BY <1>3, <1>9, <1>10, <1>11 DEF w

-----------------------------------------------------------------------------
(* The properties of a payload and what decode makes of it *)

\* The last place of a tag is the one LastText takes, the first the one of First.
LEMMA PlacesOfIs ==
  ASSUME wire \in Seq(AnyPiece), NEW n
  PROVE  /\ PlacesOf(n) = Places(wire, Len(wire), n)
         /\ PlacesOf(n) # {} =>
              /\ \E i : IsLast(i, PlacesOf(n)) /\ LastText(n) = wire[i][3]
              /\ First(n) \in PlacesOf(n) /\ \A j \in PlacesOf(n) : First(n) <= j
<1>1. DOMAIN wire = 1 .. Len(wire) /\ Len(wire) \in Nat
  OBVIOUS
<1>2. PlacesOf(n) = Places(wire, Len(wire), n)
  BY <1>1 DEF PlacesOf, Places, IsField
<1>3. PlacesOf(n) \subseteq 1 .. Len(wire) /\ PlacesOf(n) \subseteq Nat
  BY <1>1 DEF PlacesOf
<1>4. ASSUME PlacesOf(n) # {}
      PROVE  \E i : IsLast(i, PlacesOf(n)) /\ LastText(n) = wire[i][3]
  <2> DEFINE i == CHOOSE i \in PlacesOf(n) : \A j \in PlacesOf(n) : j <= i
  <2>1. \E x \in PlacesOf(n) : \A j \in PlacesOf(n) : j <= x
    BY <1>1, <1>3, <1>4, HasGreatest
  <2>2. i \in PlacesOf(n) /\ \A j \in PlacesOf(n) : j <= i
    BY <2>1, Zenon
  <2>3. LastText(n) = wire[i][3]
    BY DEF LastText
  <2> HIDE DEF i
  <2>4. QED
    BY <2>2, <2>3 DEF IsLast
<1>5. ASSUME PlacesOf(n) # {}
      PROVE  First(n) \in PlacesOf(n) /\ \A j \in PlacesOf(n) : First(n) <= j
  <2>1. \E x \in PlacesOf(n) : \A j \in PlacesOf(n) : x <= j
    BY <1>3, <1>5, HasLeast
  <2>2. QED
    BY <2>1, Zenon DEF First
<1>6. QED
  BY <1>2, <1>4, <1>5

\* DecodeTakesLast says what decode has computed.
LEMMA TakesLast ==
  ASSUME wire \in Seq(AnyPiece), received = decode(wire)
  PROVE  DecodeTakesLast
<1> DEFINE len == Len(wire)
           last == LastText(msg_type_tag)
           bad == \E i \in DOMAIN wire : wire[i][1] \in {"no_separator", "no_number"}
<1>1. DOMAIN wire = 1 .. len /\ len \in Nat
  OBVIOUS
<1>2. PICK o : Good(wire, len, o) /\ received = Final(o)
  BY GoodDecode
<1>3. bad <=> Faulty(wire, len)
  BY <1>1 DEF Faulty, IsFault
<1>4. \A n : PlacesOf(n) = Places(wire, len, n)
  BY PlacesOfIs
<1> HIDE DEF len, last, bad
<1>5. Failed([error |-> "missing_msg_type"])
  BY DEF Failed
<1>6. CASE bad
  <2>1. Failed(o)
    BY <1>2, <1>3, <1>6 DEF Good
  <2>2. Failed(received)
    BY <1>2, <2>1 DEF Final
  <2>3. QED
    BY <1>6, <2>2 DEF DecodeTakesLast, bad
<1>7. CASE ~bad
  <2>1. /\ ~Failed(o) /\ TypeGood(wire, len, o.msg_type) /\ FieldsGood(wire, len, o.fields)
    BY <1>2, <1>3, <1>7 DEF Good
  <2>2. CASE PlacesOf(msg_type_tag) = {}
    <3>1. o.msg_type.text = Empty
      BY <1>4, <2>1, <2>2 DEF TypeGood
    <3>2. Failed(received)
      BY <1>2, <1>5, <2>1, <3>1 DEF Final
    <3>3. QED
      BY <2>2, <3>2 DEF DecodeTakesLast
  <2>3. CASE PlacesOf(msg_type_tag) # {}
    <3>1. PICK i : IsLast(i, PlacesOf(msg_type_tag)) /\ last = wire[i][3]
      BY <2>3, PlacesOfIs DEF last
    <3>2. o.msg_type = AsValue(last)
      BY <1>4, <2>1, <3>1 DEF TypeGood
    <3>3. o.msg_type.text = last
      BY <3>2 DEF AsValue
    <3>4. CASE last = Empty
      <4>1. Failed(received)
        BY <1>2, <1>5, <2>1, <3>3, <3>4 DEF Final
      <4>2. QED
        BY <3>4, <4>1 DEF DecodeTakesLast, last
    <3>5. CASE last # Empty
      <4>1. received = o
        BY <1>2, <3>3, <3>5 DEF Final
      <4>2. /\ o.fields \in Seq(Field)
            /\ \A x \in DOMAIN o.fields : /\ o.fields[x].number \in Tags
                                          /\ PlacesOf(o.fields[x].number) # {}
            /\ \A n \in Tags : PlacesOf(n) # {} => HasTag(o.fields, n)
            /\ \A x \in DOMAIN o.fields : \A k : IsLast(k, PlacesOf(o.fields[x].number)) =>
                                                   o.fields[x].value = AsValue(wire[k][3])
            /\ \A x, y \in DOMAIN o.fields : x < y =>
                 \A j \in PlacesOf(o.fields[y].number) :
                   \E k \in PlacesOf(o.fields[x].number) : k < j
        BY <1>4, <2>1 DEF FieldsGood
      <4>3. {o.fields[x].number : x \in DOMAIN o.fields} = {n \in Tags : PlacesOf(n) # {}}
        BY <4>2 DEF HasTag
      <4>4. ASSUME NEW x \in DOMAIN o.fields
            PROVE  o.fields[x].value = AsValue(LastText(o.fields[x].number))
        <5>1. PICK k : /\ IsLast(k, PlacesOf(o.fields[x].number))
                       /\ LastText(o.fields[x].number) = wire[k][3]
          BY <4>2, PlacesOfIs
        <5>2. QED
          BY <4>2, <5>1
      <4>5. ASSUME NEW x \in DOMAIN o.fields, NEW y \in DOMAIN o.fields, x < y
            PROVE  First(o.fields[x].number) < First(o.fields[y].number)
        <5> DEFINE a == o.fields[x].number
                   b == o.fields[y].number
        <5>1. /\ First(b) \in PlacesOf(b)
              /\ First(a) \in PlacesOf(a) /\ \A j \in PlacesOf(a) : First(a) <= j
          BY <4>2, PlacesOfIs
        <5>2. PICK k \in PlacesOf(a) : k < First(b)
          BY <4>2, <4>5, <5>1
        <5>3. PlacesOf(a) \subseteq Nat /\ PlacesOf(b) \subseteq Nat
          BY <1>1 DEF PlacesOf
        <5>4. First(a) <= k /\ First(a) \in Nat /\ First(b) \in Nat /\ k \in Nat
          BY <5>1, <5>2, <5>3
        <5> HIDE DEF a, b
        <5>5. First(a) < First(b)
          BY <5>2, <5>4
        <5>6. QED
          BY <5>5 DEF a, b
      <4>6. ~Failed(received) /\ received.msg_type = AsValue(LastText(msg_type_tag))
        BY <2>1, <3>2, <4>1 DEF last
      <4>7. QED
        BY <1>7, <2>3, <3>5, <4>1, <4>3, <4>4, <4>5, <4>6 DEF DecodeTakesLast, bad, last
    <3>6. QED
      BY <3>4, <3>5
  <2>4. QED
    BY <2>2, <2>3
<1>8. QED
  BY <1>6, <1>7

\* What decode accepts is clean, and has no tag twice.
LEMMA DecodedIsClean ==
  ASSUME NEW w \in Seq(AnyPiece), ~Failed(decode(w))
  PROVE  Clean(decode(w)) /\ Distinct(decode(w).fields)
<1>1. PICK o : Good(w, Len(w), o) /\ decode(w) = Final(o)
  BY GoodDecode
<1>2. Failed([error |-> "missing_msg_type"])
  BY DEF Failed
<1>3. decode(w) = o /\ ~Failed(o) /\ o.msg_type.text # Empty
  BY <1>1, <1>2 DEF Final
<1>4. TypeGood(w, Len(w), o.msg_type) /\ FieldsGood(w, Len(w), o.fields)
  BY <1>1, <1>3 DEF Good
<1>5. o.msg_type.rest = << >> /\ Distinct(o.fields)
  BY <1>4 DEF TypeGood, FieldsGood
<1>6. \A x \in DOMAIN o.fields : /\ o.fields[x].number # msg_type_tag
                                 /\ o.fields[x].value.rest = << >>
  BY <1>4, FixTextAssumption DEF FieldsGood
<1>7. QED
  BY <1>3, <1>5, <1>6 DEF Clean

-----------------------------------------------------------------------------
(* The invariant *)

\* The message has no tag twice; the payload is its encoding when it was sent,
\* and what was received is what decode makes of the payload, which is not empty.
TextInv ==
  /\ message \in Message /\ Distinct(message.fields)
  /\ wire \in Seq(AnyPiece)
  /\ sent => wire = encode(message)
  /\ received # Nothing => wire # << >> /\ received = decode(wire)

\* The values that are set.
LEMMA ValueIsAny ==
  /\ Rests \subseteq Seq(AnyPiece)
  /\ Value \subseteq AnyValue
  /\ \A s \in Types \cup {Empty}, rest \in Rests : [text |-> s, rest |-> rest] \in AnyValue
<1>1. Seq(Piece) \subseteq Seq(AnyPiece)
  <2>1. Piece \subseteq AnyPiece
    BY PieceFacts
  <2> HIDE DEF Piece, AnyPiece
  <2>2. QED
    BY <2>1
<1>2. Rests \subseteq Seq(AnyPiece)
  BY <1>1, FixTextAssumption
<1>3. QED
  BY <1>2 DEF Value, AnyValue, Text

\* Messages start without fields.
LEMMA TextInit == Init => TextInv
<1>1. SUFFICES ASSUME Init PROVE TextInv
  OBVIOUS
<1>2. PICK s \in Types \cup {Empty}, rest \in Rests :
        message = Untyped([text |-> s, rest |-> rest])
  BY <1>1 DEF Init
<1> DEFINE v == [text |-> s, rest |-> rest]
<1>3. v \in AnyValue
  BY ValueIsAny
<1> HIDE DEF v
<1>4. message = [msg_type |-> v, fields |-> << >>]
  BY <1>2 DEF v, Untyped
<1>5. message \in Message /\ message.fields = << >>
  BY <1>3, <1>4 DEF Message
<1>6. Distinct(message.fields)
  BY <1>5 DEF Distinct
<1>7. wire = << >> /\ sent = FALSE /\ received = Nothing
  BY <1>1 DEF Init
<1>8. wire \in Seq(AnyPiece)
  BY <1>7
<1>9. QED
  BY <1>5, <1>6, <1>7, <1>8 DEF TextInv

\* Every action keeps the invariant.
LEMMA TextStep == TextInv /\ [Next]_vars => TextInv'
<1>1. SUFFICES ASSUME TextInv, [Next]_vars PROVE TextInv'
  OBVIOUS
<1>2. /\ message \in Message /\ Distinct(message.fields) /\ wire \in Seq(AnyPiece)
      /\ sent => wire = encode(message)
      /\ received # Nothing => wire # << >> /\ received = decode(wire)
  BY <1>1 DEF TextInv
<1>3. sent => wire # << >>
  BY <1>2, EncodeSeq
<1>4. CASE Set
  <2>1. PICK n \in Tags \cup {msg_type_tag}, v \in Value :
          message' = [message EXCEPT !.fields = set(@, n, v)]
    BY <1>4 DEF Set
  <2>2. n \in Number /\ v \in AnyValue
    BY ValueIsAny DEF Number
  <2> DEFINE g == set(message.fields, n, v)
  <2>3. message.fields \in Seq(Field) /\ message.msg_type \in AnyValue
    BY <1>2 DEF Message
  <2>4. g \in Seq(Field) /\ Distinct(g)
    BY <1>2, <2>2, <2>3, SetDistinct
  <2>5. message' = [message EXCEPT !.fields = g]
    BY <2>1
  <2> HIDE DEF g
  <2>6. message' \in Message /\ message'.fields = g
    BY <1>2, <2>4, <2>5 DEF Message
  <2>7. ~sent' /\ wire' = wire /\ received' = received
    BY <1>3, <1>4 DEF Set
  <2>8. QED
    BY <1>2, <2>4, <2>6, <2>7 DEF TextInv
<1>5. CASE Send
  <2>1. wire = << >> /\ wire' = encode(message) /\ message' = message /\ received' = received
    BY <1>5 DEF Send
  <2>2. wire' \in Seq(AnyPiece)
    BY <1>2, <2>1, EncodeSeq
  <2>3. received = Nothing
    BY <1>2, <2>1
  <2>4. QED
    BY <1>2, <2>1, <2>2, <2>3 DEF TextInv
<1>6. CASE Write
  <2>1. PICK piece \in Piece : wire' = Append(wire, piece)
    BY <1>6 DEF Write
  <2>2. piece \in AnyPiece
    BY PieceFacts
  <2>3. wire' \in Seq(AnyPiece)
    BY <1>2, <2>1, <2>2
  <2>4. ~sent' /\ received' = Nothing /\ message' = message
    BY <1>6 DEF Write
  <2>5. QED
    BY <1>2, <2>3, <2>4 DEF TextInv, Nothing
<1>7. CASE Receive
  BY <1>2, <1>7 DEF Receive, TextInv
<1>8. CASE UNCHANGED vars
  BY <1>2, <1>8 DEF vars, TextInv
<1>9. QED
  BY <1>1, <1>4, <1>5, <1>6, <1>7, <1>8 DEF Next

\* For any tags, types and texts and payloads of any length: the message has no
\* tag twice, a payload that was sent is its encoding until it is received, and
\* what was received is the decoding of the whole payload (session.cpp, codec.cpp).
THEOREM TextInvariance == Spec => []TextInv
BY TextInit, TextStep, PTL DEF Spec

\* The properties follow from the invariant.
LEMMA TextInvImplies == TextInv => OneValuePerTag /\ ExactWhenClean /\ DecodeTakesLast
<1>1. SUFFICES ASSUME TextInv PROVE OneValuePerTag /\ ExactWhenClean /\ DecodeTakesLast
  OBVIOUS
<1>2. /\ message \in Message /\ Distinct(message.fields) /\ wire \in Seq(AnyPiece)
      /\ sent => wire = encode(message)
      /\ received # Nothing => received = decode(wire)
  BY <1>1 DEF TextInv
<1>3. Failed(Nothing) /\ ~Failed(message)
  BY <1>2 DEF Failed, Nothing, Message
<1>4. ~Failed(received) => Clean(received) /\ Distinct(received.fields)
  BY <1>2, <1>3, DecodedIsClean
<1>5. OneValuePerTag
  <2>1. \A m \in {message, received} : ~Failed(m) => Distinct(m.fields)
    BY <1>2, <1>4
  <2>2. QED
    BY <2>1 DEF OneValuePerTag, Distinct
<1>6. ExactWhenClean
  <2>1. ASSUME sent, received # Nothing PROVE received = message <=> Clean(message)
    <3>1. Clean(message) => received = message
      BY <1>2, <2>1, CleanDecode
    <3>2. received = message => Clean(message)
      BY <1>3, <1>4
    <3>3. QED
      BY <3>1, <3>2
  <2>2. QED
    BY <2>1 DEF ExactWhenClean
<1>7. DecodeTakesLast
  <2>1. CASE received = Nothing
    BY <2>1 DEF DecodeTakesLast
  <2>2. CASE received # Nothing
    BY <1>2, <2>2, TakesLast
  <2>3. QED
    BY <2>1, <2>2
<1>8. QED
  BY <1>5, <1>6, <1>7

\* No message that is built or decoded has a tag twice, whatever is set and
\* whatever the payload repeats (session.cpp:21-31).
THEOREM OneValuePerTagHolds == Spec => []OneValuePerTag
BY TextInvariance, TextInvImplies, PTL

\* decode undoes encode exactly for the messages whose values hold no delimiter,
\* whose type is not empty and which have no field with MsgType's tag, for any
\* number of fields (codec.cpp:36-76).
THEOREM ExactWhenCleanHolds == Spec => []ExactWhenClean
BY TextInvariance, TextInvImplies, PTL

\* A payload of any length is refused or decoded as DecodeTakesLast says: each
\* tag's last value in its first place (codec.cpp:15-76).
THEOREM DecodeTakesLastHolds == Spec => []DecodeTakesLast
BY TextInvariance, TextInvImplies, PTL

=============================================================================
