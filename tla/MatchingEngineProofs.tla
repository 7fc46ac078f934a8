------------------------ MODULE MatchingEngineProofs ------------------------
(***************************************************************************)
(* Type correctness and ownership of MatchingEngine, for every set of      *)
(* requests, every width of the integers and every number of books and     *)
(* pool slots.                                                             *)
(***************************************************************************)
EXTENDS MatchingEngine, SequenceTheorems, WellFoundedInduction, TLAPS

-----------------------------------------------------------------------------
(* Arithmetic and extrema *)

\* Unsigned addition stays below the modulus (order_entry::types::quantity).
LEMMA PlusType ==
  ASSUME NEW mod \in Nat \ {0}, NEW a \in 0 .. mod - 1, NEW b \in 0 .. mod - 1
  PROVE  Plus(a, b, mod) \in 0 .. mod - 1
BY DEF Plus

\* So does incrementing a counter, also when the modulus is 1.
LEMMA IncType ==
  ASSUME NEW mod \in Nat \ {0}, NEW a \in 0 .. mod - 1
  PROVE  Plus(a, 1, mod) \in 0 .. mod - 1
BY DEF Plus

\* Unsigned subtraction stays below the modulus.
LEMMA MinusType ==
  ASSUME NEW mod \in Nat \ {0}, NEW a \in 0 .. mod - 1, NEW b \in 0 .. mod - 1
  PROVE  Minus(a, b, mod) \in 0 .. mod - 1
BY DEF Minus

\* A nonempty set of naturals has a least element (front() of the asks).
LEMMA MinProperties ==
  ASSUME NEW S, S \subseteq Nat, S # {}
  PROVE  Min(S) \in S /\ \A y \in S : Min(S) <= y
<1>1. PICK x \in S : \A y \in S : ~(<<y, x>> \in OpToRel(<, Nat))
  BY WFMin, NatLessThanWellFounded
<1>2. \A y \in S : y < x => <<y, x>> \in {ss \in Nat \X Nat : ss[1] < ss[2]}
  OBVIOUS
<1>3. \A y \in S : ~(y < x)
  BY <1>1, <1>2 DEF OpToRel
<1>4. \A y \in S : x <= y
  BY <1>3
<1>5. QED
  BY <1>4 DEF Min

\* A bounded nonempty set of naturals has a greatest element (the bids).
LEMMA MaxProperties ==
  ASSUME NEW n \in Nat, NEW S, S \subseteq 0 .. n, S # {}
  PROVE  Max(S) \in S /\ \A y \in S : Max(S) >= y
<1> DEFINE T == {n - s : s \in S}
<1>1. T \subseteq Nat /\ T # {}
  <2>1. PICK s \in S : TRUE
    OBVIOUS
  <2>2. n - s \in T
    BY <2>1
  <2>3. \A r \in S : n - r \in Nat
    OBVIOUS
  <2>4. QED
    BY <2>2, <2>3
<1>2. PICK t \in T : \A u \in T : t <= u
  BY <1>1, MinProperties
<1>3. PICK x \in S : t = n - x
  BY <1>2
<1>4. \A y \in S : x >= y
  BY <1>2, <1>3
<1>5. QED
  BY <1>4 DEF Max

\* begin() of a nonempty side map is one of its prices.
LEMMA FrontInSet ==
  ASSUME NEW side, NEW S, S \subseteq Price, S # {}
  PROVE  Front(side, S) \in S
<1>1. MaxPrice \in Nat
  BY WidthAssumption
<1>2. S \subseteq 0 .. MaxPrice /\ S \subseteq Nat
  BY <1>1 DEF Price
<1>3. QED
  BY <1>1, <1>2, MinProperties, MaxProperties DEF Front

-----------------------------------------------------------------------------
(* Sequences of nodes *)

Distinct(s) == \A i, j \in DOMAIN s : s[i] = s[j] => i = j
Holds(s, n) == \E i \in DOMAIN s : s[i] = n

\* push_back of a node that is not in the FIFO.
LEMMA AppendHolds ==
  ASSUME NEW S, NEW s \in Seq(S), NEW n \in S, Distinct(s), ~Holds(s, n)
  PROVE  /\ Append(s, n) \in Seq(S)
         /\ Append(s, n) # << >>
         /\ Distinct(Append(s, n))
         /\ \A m : Holds(Append(s, n), m) <=> m = n \/ Holds(s, m)
<1>1. /\ Append(s, n) \in Seq(S) /\ Append(s, n) # << >>
      /\ Len(Append(s, n)) = Len(s) + 1 /\ Append(s, n)[Len(s) + 1] = n
      /\ \A i \in 1 .. Len(s) : Append(s, n)[i] = s[i]
  OBVIOUS
<1>2. DOMAIN Append(s, n) = 1 .. Len(s) + 1 /\ DOMAIN s = 1 .. Len(s) /\ Len(s) \in Nat
  BY <1>1
<1>3. Distinct(Append(s, n))
  BY <1>1, <1>2 DEF Distinct, Holds
<1>4. \A m : Holds(Append(s, n), m) <=> m = n \/ Holds(s, m)
  BY <1>1, <1>2 DEF Holds
<1>5. QED
  BY <1>1, <1>3, <1>4

\* pop_front of a FIFO without repetitions.
LEMMA TailHolds ==
  ASSUME NEW S, NEW s \in Seq(S), s # << >>, Distinct(s)
  PROVE  /\ Tail(s) \in Seq(S)
         /\ Head(s) \in S
         /\ Holds(s, Head(s))
         /\ Distinct(Tail(s))
         /\ \A m : Holds(Tail(s), m) <=> m # Head(s) /\ Holds(s, m)
<1>1. /\ Tail(s) \in Seq(S) /\ Head(s) = s[1] /\ Len(s) \in Nat \ {0}
      /\ Len(Tail(s)) = Len(s) - 1 /\ DOMAIN s = 1 .. Len(s)
      /\ DOMAIN Tail(s) = 1 .. Len(s) - 1
      /\ \A i \in 1 .. Len(s) - 1 : Tail(s)[i] = s[i + 1]
  OBVIOUS
<1>2. Head(s) \in S /\ Holds(s, Head(s))
  BY <1>1 DEF Holds
<1>3. Distinct(Tail(s))
  BY <1>1 DEF Distinct
<1>4. \A m : Holds(Tail(s), m) => m # Head(s) /\ Holds(s, m)
  BY <1>1 DEF Holds, Distinct
<1>5. ASSUME NEW m, m # Head(s), Holds(s, m)
      PROVE  Holds(Tail(s), m)
  <2>1. PICK i \in 1 .. Len(s) : s[i] = m
    BY <1>1, <1>5 DEF Holds
  <2>2. i # 1 /\ i - 1 \in 1 .. Len(s) - 1 /\ Tail(s)[i - 1] = m
    BY <1>1, <1>5, <2>1
  <2>3. QED
    BY <1>1, <2>2 DEF Holds
<1>6. QED
  BY <1>1, <1>2, <1>3, <1>4, <1>5

\* u is s without its element in position i.
Dropped(s, i, u) ==
  /\ DOMAIN u = 1 .. Len(s) - 1
  /\ \A j \in 1 .. i - 1 : u[j] = s[j]
  /\ \A j \in i .. Len(s) - 1 : u[j] = s[j + 1]

\* erase(iterator_to(node)) closes the gap.
LEMMA UnlinkDrops ==
  ASSUME NEW S, NEW s \in Seq(S), NEW n, Holds(s, n)
  PROVE  /\ Unlink(s, n) \in Seq(S)
         /\ \E i \in 1 .. Len(s) : s[i] = n /\ Dropped(s, i, Unlink(s, n))
<1> DEFINE i == CHOOSE j \in DOMAIN s : s[j] = n
           a == SubSeq(s, 1, i - 1)
           b == SubSeq(s, i + 1, Len(s))
           u == Unlink(s, n)
<1>1. i \in 1 .. Len(s) /\ s[i] = n /\ DOMAIN s = 1 .. Len(s) /\ Len(s) \in Nat
  BY DEF Holds
<1> HIDE DEF i
<1>2. a \in Seq(S) /\ Len(a) = i - 1 /\ \A j \in 1 .. i - 1 : a[j] = s[j]
  BY <1>1
<1>3. b \in Seq(S) /\ Len(b) = Len(s) - i /\ \A j \in 1 .. Len(s) - i : b[j] = s[i + j]
  <2>1. \A j \in i + 1 .. Len(s) : s[j] \in S
    BY <1>1
  <2>2. /\ b \in Seq(S)
        /\ Len(b) = IF i + 1 <= Len(s) THEN Len(s) - (i + 1) + 1 ELSE 0
        /\ \A j \in 1 .. Len(s) - (i + 1) + 1 : b[j] = s[(i + 1) + j - 1]
    BY <1>1, <2>1, SubSeqProperties
  <2> HIDE DEF b
  <2>3. Len(b) = Len(s) - i
    <3>1. CASE i + 1 <= Len(s)
      BY <1>1, <2>2, <3>1
    <3>2. CASE ~(i + 1 <= Len(s))
      <4>1. Len(b) = 0
        BY <2>2, <3>2
      <4>2. \A x, y \in Nat : x <= y /\ ~(x + 1 <= y) => y - x = 0
        OBVIOUS
      <4>3. i \in Nat /\ i <= Len(s) /\ Len(s) \in Nat
        BY <1>1
      <4>4. QED
        BY <3>2, <4>1, <4>2, <4>3
    <3>3. QED
      BY <3>1, <3>2
  <2>4. ASSUME NEW j \in 1 .. Len(s) - i
        PROVE  b[j] = s[i + j]
    <3>1. j \in 1 .. Len(s) - (i + 1) + 1 /\ (i + 1) + j - 1 = i + j
      BY <1>1
    <3>2. QED
      BY <2>2, <3>1
  <2>5. QED
    BY <2>2, <2>3, <2>4
<1>4. u = a \o b
  BY DEF Unlink, i
<1> HIDE DEF a, b, u
<1>5. /\ u \in Seq(S) /\ DOMAIN u = 1 .. Len(s) - 1
      /\ \A j \in 1 .. i - 1 : u[j] = s[j]
      /\ \A j \in i .. Len(s) - 1 : u[j] = s[j + 1]
  <2>1. /\ u \in Seq(S) /\ Len(u) = Len(a) + Len(b)
        /\ \A j \in 1 .. Len(a) + Len(b) :
             u[j] = IF j <= Len(a) THEN a[j] ELSE b[j - Len(a)]
    BY <1>2, <1>3, <1>4, ConcatProperties
  <2>2. DOMAIN u = 1 .. Len(s) - 1
    <3>1. Len(u) = Len(s) - 1
      BY <1>1, <1>2, <1>3, <2>1
    <3>2. QED
      BY <2>1, <3>1, LenProperties
  <2>3. ASSUME NEW j \in 1 .. i - 1
        PROVE  u[j] = s[j]
    <3>1. j \in 1 .. Len(a) + Len(b) /\ j <= Len(a)
      BY <1>1, <1>2, <1>3
    <3>2. u[j] = a[j]
      BY <2>1, <3>1
    <3>3. QED
      BY <1>2, <3>2
  <2>4. ASSUME NEW j \in i .. Len(s) - 1
        PROVE  u[j] = s[j + 1]
    <3>0. /\ j \in 1 .. Len(a) + Len(b) /\ ~(j <= Len(a))
          /\ j - (i - 1) = j - Len(a) /\ j - (i - 1) \in 1 .. Len(s) - i
      BY <1>1, <1>2, <1>3
    <3>1. u[j] = b[j - (i - 1)] /\ j - (i - 1) \in 1 .. Len(s) - i
      BY <2>1, <3>0
    <3>2. b[j - (i - 1)] = s[i + (j - (i - 1))] /\ i + (j - (i - 1)) = j + 1
      BY <1>1, <1>3, <3>1
    <3>3. QED
      BY <3>1, <3>2
  <2>5. QED
    BY <2>1, <2>2, <2>3, <2>4
<1>6. QED
  BY <1>1, <1>5 DEF Dropped, u

\* pop_front closes it too.
LEMMA TailDrops ==
  ASSUME NEW S, NEW s \in Seq(S), s # << >>
  PROVE  1 \in 1 .. Len(s) /\ s[1] = Head(s) /\ Dropped(s, 1, Tail(s))
<1>1. /\ Head(s) = s[1] /\ Len(s) \in Nat \ {0} /\ Tail(s) \in Seq(S)
      /\ Len(Tail(s)) = Len(s) - 1 /\ DOMAIN Tail(s) = 1 .. Len(s) - 1
      /\ \A i \in 1 .. Len(s) - 1 : Tail(s)[i] = s[i + 1]
  OBVIOUS
<1>2. QED
  BY <1>1 DEF Dropped

\* erase(iterator_to(node)) of a FIFO without repetitions.
LEMMA UnlinkHolds ==
  ASSUME NEW S, NEW s \in Seq(S), Distinct(s), NEW n, Holds(s, n)
  PROVE  /\ Unlink(s, n) \in Seq(S)
         /\ Distinct(Unlink(s, n))
         /\ \A m : Holds(Unlink(s, n), m) <=> m # n /\ Holds(s, m)
<1> DEFINE u == Unlink(s, n)
<1>1. PICK i \in 1 .. Len(s) : s[i] = n /\ Dropped(s, i, u)
  BY UnlinkDrops
<1>2. i \in 1 .. Len(s) /\ s[i] = n /\ DOMAIN s = 1 .. Len(s) /\ Len(s) \in Nat
  BY <1>1
<1>3. /\ u \in Seq(S) /\ DOMAIN u = 1 .. Len(s) - 1
      /\ \A j \in 1 .. i - 1 : u[j] = s[j]
      /\ \A j \in i .. Len(s) - 1 : u[j] = s[j + 1]
  BY <1>1, UnlinkDrops DEF Dropped
<1> HIDE DEF u
<1>4. Distinct(u)
  <2>1. SUFFICES ASSUME NEW j \in 1 .. Len(s) - 1, NEW k \in 1 .. Len(s) - 1,
                        u[j] = u[k]
                 PROVE  j = k
    BY <1>3 DEF Distinct
  <2> DEFINE g(x) == IF x < i THEN x ELSE x + 1
  <2>2. \A x \in 1 .. Len(s) - 1 : g(x) \in 1 .. Len(s) /\ u[x] = s[g(x)]
    <3>1. ASSUME NEW x \in 1 .. Len(s) - 1
          PROVE  g(x) \in 1 .. Len(s) /\ u[x] = s[g(x)]
      <4>1. CASE x < i
        BY <1>2, <1>3, <4>1
      <4>2. CASE x >= i
        BY <1>2, <1>3, <4>2
      <4>3. QED
        BY <1>2, <4>1, <4>2
    <3>2. QED
      BY <3>1
  <2>3. g(j) = g(k)
    BY <1>2, <2>1, <2>2 DEF Distinct
  <2>4. QED
    BY <1>2, <2>3
<1>5. ASSUME NEW m, Holds(u, m)
      PROVE  m # n /\ Holds(s, m)
  <2>1. PICK j \in 1 .. Len(s) - 1 : u[j] = m
    BY <1>3, <1>5 DEF Holds
  <2>2. PICK k \in 1 .. Len(s) : k # i /\ s[k] = m
    <3>1. CASE j < i
      BY <1>2, <1>3, <2>1, <3>1
    <3>2. CASE j >= i
      BY <1>2, <1>3, <2>1, <3>2
    <3>3. QED
      BY <1>2, <3>1, <3>2
  <2>3. QED
    BY <1>2, <2>2 DEF Holds, Distinct
<1>6. ASSUME NEW m, m # n, Holds(s, m)
      PROVE  Holds(u, m)
  <2>1. PICK j \in 1 .. Len(s) : s[j] = m
    BY <1>2, <1>6 DEF Holds
  <2>2. CASE j < i
    <3>1. j \in 1 .. i - 1 /\ j \in 1 .. Len(s) - 1
      BY <1>2, <2>2
    <3>2. u[j] = m /\ j \in DOMAIN u
      BY <1>3, <2>1, <3>1
    <3>3. QED
      BY <3>2 DEF Holds
  <2>3. CASE j > i
    <3>1. j - 1 \in i .. Len(s) - 1 /\ u[j - 1] = m
      BY <1>2, <1>3, <2>1, <2>3
    <3>2. QED
      BY <1>2, <1>3, <3>1 DEF Holds
  <2>4. QED
    BY <1>2, <1>6, <2>1, <2>2, <2>3
<1>7. QED
  BY <1>3, <1>4, <1>5, <1>6 DEF u

-----------------------------------------------------------------------------
(* The books as constants: what Ownership says of one nodes, index, levels *)

NodeMap(nd) == DOMAIN nd \subseteq NodeIds /\ nd \in [DOMAIN nd -> OrderState]
IndexMap(ix) == DOMAIN ix \subseteq Key /\ ix \in [DOMAIN ix -> NodeIds]
LevelMap(lv) == DOMAIN lv \subseteq LevelKey /\ lv \in [DOMAIN lv -> PriceLevel]

\* Index and pool describe the same orders.
Indexed(nd, ix) ==
  /\ \A k \in DOMAIN ix : ix[k] \in DOMAIN nd /\ KeyOf(nd[ix[k]]) = k
  /\ \A n \in DOMAIN nd : KeyOf(nd[n]) \in DOMAIN ix /\ ix[KeyOf(nd[n])] = n

\* Books and pool describe the same orders.
Linked(nd, lv) ==
  /\ \A k \in DOMAIN lv : \A n :
       Holds(lv[k].orders, n) => n \in DOMAIN nd /\ LevelOf(nd[n]) = k
  /\ \A n \in DOMAIN nd :
       LevelOf(nd[n]) \in DOMAIN lv /\ Holds(lv[LevelOf(nd[n])].orders, n)
  /\ \A k \in DOMAIN lv : Distinct(lv[k].orders)

\* Ownership is Indexed and Linked.
LEMMA OwnershipParts ==
  Ownership <=> Indexed(nodes, index) /\ Linked(nodes, levels)
<1>1. Indexed(nodes, index) <=> IndexNamesNode /\ NodeIsIndexed
  BY DEF Indexed, IndexNamesNode, NodeIsIndexed
<1>2. Linked(nodes, levels) <=> LinkedNodeIsLive /\ NodeIsLinked /\ LinkedOnce
  BY DEF Linked, LinkedNodeIsLive, NodeIsLinked, LinkedOnce, Holds, Distinct
<1>3. QED
  BY <1>1, <1>2 DEF Ownership

\* Erasing an order from the pool and its key from the index.
LEMMA IndexedErase ==
  ASSUME NEW nd, NEW ix, NodeMap(nd), IndexMap(ix), Indexed(nd, ix),
         NEW n \in DOMAIN nd
  PROVE  /\ NodeMap(Without(nd, {n}))
         /\ IndexMap(Without(ix, {KeyOf(nd[n])}))
         /\ Indexed(Without(nd, {n}), Without(ix, {KeyOf(nd[n])}))
<1> DEFINE nd2 == Without(nd, {n})
           ix2 == Without(ix, {KeyOf(nd[n])})
<1>1. /\ DOMAIN nd2 = DOMAIN nd \ {n} /\ nd2 \in [DOMAIN nd2 -> OrderState]
      /\ \A x \in DOMAIN nd2 : nd2[x] = nd[x]
  BY DEF NodeMap, Without, Restrict
<1>2. /\ DOMAIN ix2 = DOMAIN ix \ {KeyOf(nd[n])} /\ ix2 \in [DOMAIN ix2 -> NodeIds]
      /\ \A x \in DOMAIN ix2 : ix2[x] = ix[x]
  BY DEF IndexMap, Without, Restrict
<1> HIDE DEF nd2, ix2
<1>3. NodeMap(nd2) /\ IndexMap(ix2)
  BY <1>1, <1>2 DEF NodeMap, IndexMap
<1>4. \A k \in DOMAIN ix2 : ix2[k] \in DOMAIN nd2 /\ KeyOf(nd2[ix2[k]]) = k
  BY <1>1, <1>2 DEF Indexed
<1>5. \A m \in DOMAIN nd2 : KeyOf(nd2[m]) \in DOMAIN ix2 /\ ix2[KeyOf(nd2[m])] = m
  BY <1>1, <1>2 DEF Indexed
<1>6. QED
  BY <1>3, <1>4, <1>5 DEF Indexed, nd2, ix2

\* A map of levels from which exactly one order has been unlinked.
Unlinked(lv, n, lv2) ==
  /\ DOMAIN lv2 \subseteq DOMAIN lv
  /\ \A k \in DOMAIN lv2 : Distinct(lv2[k].orders)
  /\ \A k \in DOMAIN lv2 : \A m :
       Holds(lv2[k].orders, m) => m # n /\ Holds(lv[k].orders, m)
  /\ \A k \in DOMAIN lv : \A m :
       Holds(lv[k].orders, m) /\ m # n => k \in DOMAIN lv2 /\ Holds(lv2[k].orders, m)

\* Unlinking an order and erasing it from the pool.
LEMMA LinkedErase ==
  ASSUME NEW nd, NodeMap(nd), NEW lv, NEW lv2, Linked(nd, lv),
         NEW n \in DOMAIN nd, Unlinked(lv, n, lv2)
  PROVE  Linked(Without(nd, {n}), lv2)
<1> DEFINE nd2 == Without(nd, {n})
<1>1. DOMAIN nd2 = DOMAIN nd \ {n} /\ \A x \in DOMAIN nd2 : nd2[x] = nd[x]
  BY DEF NodeMap, Without, Restrict
<1> HIDE DEF nd2
<1>2. \A k \in DOMAIN lv2 : \A m :
        Holds(lv2[k].orders, m) => m \in DOMAIN nd2 /\ LevelOf(nd2[m]) = k
  BY <1>1 DEF Linked, Unlinked
<1>3. \A m \in DOMAIN nd2 :
        LevelOf(nd2[m]) \in DOMAIN lv2 /\ Holds(lv2[LevelOf(nd2[m])].orders, m)
  BY <1>1 DEF Linked, Unlinked
<1>4. QED
  BY <1>2, <1>3 DEF Linked, Unlinked, nd2

\* Every order at rest has the level it is linked in, and is in its FIFO.
LEMMA LevelOfNode ==
  ASSUME NEW nd, NEW lv, LevelMap(lv), Linked(nd, lv), NEW n \in DOMAIN nd
  PROVE  LET k == LevelOf(nd[n])
         IN /\ k \in DOMAIN lv
            /\ lv[k].orders \in Seq(NodeIds)
            /\ lv[k].total_remaining \in Quantity
            /\ Distinct(lv[k].orders)
            /\ Holds(lv[k].orders, n)
<1>1. LevelOf(nd[n]) \in DOMAIN lv /\ Holds(lv[LevelOf(nd[n])].orders, n)
  BY DEF Linked
<1>2. lv[LevelOf(nd[n])] \in PriceLevel
  BY <1>1 DEF LevelMap
<1>3. QED
  BY <1>1, <1>2 DEF Linked, PriceLevel

\* Replacing one level by another one of the right type.
LEMMA AssignLevel ==
  ASSUME NEW lv, LevelMap(lv), NEW k \in LevelKey, NEW level \in PriceLevel
  PROVE  LET lv2 == Assign(lv, k, level)
         IN /\ LevelMap(lv2)
            /\ DOMAIN lv2 = DOMAIN lv \cup {k}
            /\ lv2[k] = level
            /\ \A x \in DOMAIN lv : x # k => lv2[x] = lv[x]
BY DEF LevelMap, Assign

\* A level whose FIFO loses one order, emptied or not, is left in place.
LEMMA ShorterLevel ==
  ASSUME NEW nd, NEW lv, LevelMap(lv), Linked(nd, lv), NEW n \in DOMAIN nd,
         NEW rest \in Seq(NodeIds), NEW q \in Quantity, Distinct(rest),
         \A m : Holds(rest, m) <=> m # n /\ Holds(lv[LevelOf(nd[n])].orders, m)
  PROVE  LET lv2 == Assign(lv, LevelOf(nd[n]), [orders |-> rest, total_remaining |-> q])
         IN LevelMap(lv2) /\ Unlinked(lv, n, lv2)
<1> DEFINE k == LevelOf(nd[n])
           level == [orders |-> rest, total_remaining |-> q]
           lv2 == Assign(lv, k, level)
<1>1. k \in DOMAIN lv /\ k \in LevelKey
  BY LevelOfNode DEF LevelMap
<1>2. level \in PriceLevel /\ level.orders = rest
  BY DEF PriceLevel
<1> HIDE DEF k, level
<1>3. /\ LevelMap(lv2) /\ DOMAIN lv2 = DOMAIN lv \cup {k} /\ lv2[k] = level
      /\ \A x \in DOMAIN lv : x # k => lv2[x] = lv[x]
  BY <1>1, <1>2, AssignLevel, Zenon
<1> HIDE DEF lv2
<1>4. \A x \in DOMAIN lv2 : Distinct(lv2[x].orders)
  BY <1>1, <1>2, <1>3 DEF Linked
<1>5. \A x \in DOMAIN lv : x # k => ~Holds(lv[x].orders, n)
  BY DEF Linked, k
<1>6. \A x \in DOMAIN lv : \A m :
        Holds(lv2[x].orders, m) <=> m # n /\ Holds(lv[x].orders, m)
  BY <1>2, <1>3, <1>5 DEF k
<1>7. QED
  BY <1>1, <1>3, <1>4, <1>6 DEF Unlinked, lv2, k, level

\* book::cancel unlinks exactly one order and leaves no empty level behind.
LEMMA CancelUnlinks ==
  ASSUME NEW nd, NodeMap(nd), NEW lv, LevelMap(lv), Linked(nd, lv),
         NEW n \in DOMAIN nd
  PROVE  LET lv2 == cancel(lv, n, nd[n])
         IN /\ LevelMap(lv2)
            /\ Unlinked(lv, n, lv2)
            /\ (\A k \in DOMAIN lv : lv[k].orders # << >>)
                 => \A k \in DOMAIN lv2 : lv2[k].orders # << >>
<1> DEFINE k == LevelOf(nd[n])
           fifo == Unlink(lv[k].orders, n)
           total == Minus(lv[k].total_remaining, nd[n].leaves_qty, QtyMod)
           rest == [orders |-> fifo, total_remaining |-> total]
           lv2 == Assign(lv, k, rest)
           lv3 == Without(lv, {k})
<1>1. /\ k \in DOMAIN lv /\ k \in LevelKey /\ lv[k].orders \in Seq(NodeIds)
      /\ Distinct(lv[k].orders) /\ Holds(lv[k].orders, n)
  BY LevelOfNode DEF LevelMap
<1>2. /\ fifo \in Seq(NodeIds) /\ Distinct(fifo)
      /\ \A m : Holds(fifo, m) <=> m # n /\ Holds(lv[k].orders, m)
  BY <1>1, UnlinkHolds
<1>3. total \in Quantity
  <2>1. lv[k].total_remaining \in Quantity
    BY LevelOfNode
  <2>2. nd[n] \in OrderState
    BY DEF NodeMap
  <2>3. nd[n].leaves_qty \in Quantity
    BY <2>2 DEF OrderState
  <2>4. QED
    BY <2>1, <2>3, MinusType, WidthAssumption DEF Quantity
<1>4. cancel(lv, n, nd[n]) = IF fifo = << >> THEN lv3 ELSE lv2
  BY DEF cancel
<1> HIDE DEF fifo, total
<1>5. LevelMap(lv2) /\ Unlinked(lv, n, lv2)
  BY <1>2, <1>3, ShorterLevel
<1>6. rest \in PriceLevel /\ rest.orders = fifo
  BY <1>2, <1>3 DEF PriceLevel
<1> HIDE DEF rest, k
<1>7. /\ DOMAIN lv2 = DOMAIN lv \cup {k} /\ lv2[k] = rest
      /\ \A x \in DOMAIN lv : x # k => lv2[x] = lv[x]
  BY <1>1, <1>6, AssignLevel, Zenon
<1>8. CASE fifo # << >>
  BY <1>1, <1>4, <1>5, <1>6, <1>7, <1>8
<1>9. CASE fifo = << >>
  <2>1. /\ LevelMap(lv3) /\ DOMAIN lv3 = DOMAIN lv \ {k}
        /\ \A x \in DOMAIN lv3 : lv3[x] = lv[x]
    BY DEF LevelMap, Without, Restrict
  <2>2. \A m : ~Holds(fifo, m)
    BY <1>9 DEF Holds
  <2> HIDE DEF lv2, lv3
  <2>3. Unlinked(lv, n, lv3)
    BY <1>1, <1>5, <1>6, <1>7, <2>1, <2>2 DEF Unlinked
  <2>4. QED
    BY <1>4, <1>9, <2>1, <2>3
<1>10. QED
  BY <1>8, <1>9


\* A partial fill: an order keeps its key, its level and its place.
LEMMA ShrinkOrder ==
  ASSUME NEW nd, NodeMap(nd), NEW ix, Indexed(nd, ix),
         NEW lv, LevelMap(lv), Linked(nd, lv), NEW n \in DOMAIN nd,
         NEW order \in OrderState, KeyOf(order) = KeyOf(nd[n]),
         LevelOf(order) = LevelOf(nd[n]), NEW q \in Quantity
  PROVE  LET nd2 == Assign(nd, n, order)
             k == LevelOf(nd[n])
             lv2 == Assign(lv, k, [orders |-> lv[k].orders, total_remaining |-> q])
         IN /\ NodeMap(nd2) /\ Indexed(nd2, ix)
            /\ LevelMap(lv2) /\ Linked(nd2, lv2)
            /\ DOMAIN lv2 = DOMAIN lv
            /\ \A x \in DOMAIN lv : lv2[x].orders = lv[x].orders
<1> DEFINE k == LevelOf(nd[n])
           level == [orders |-> lv[k].orders, total_remaining |-> q]
           nd2 == Assign(nd, n, order)
           lv2 == Assign(lv, k, level)
<1>1. /\ DOMAIN nd2 = DOMAIN nd /\ nd2[n] = order /\ NodeMap(nd2)
      /\ \A x \in DOMAIN nd : x # n => nd2[x] = nd[x]
  BY DEF NodeMap, Assign
<1>2. k \in DOMAIN lv /\ k \in LevelKey /\ lv[k].orders \in Seq(NodeIds)
  BY LevelOfNode DEF LevelMap
<1>3. level \in PriceLevel /\ level.orders = lv[k].orders
  BY <1>2 DEF PriceLevel
<1> HIDE DEF nd2, level, k
<1>4. /\ LevelMap(lv2) /\ DOMAIN lv2 = DOMAIN lv \cup {k} /\ lv2[k] = level
      /\ \A x \in DOMAIN lv : x # k => lv2[x] = lv[x]
  BY <1>2, <1>3, AssignLevel, Zenon
<1> HIDE DEF lv2
<1>5. DOMAIN lv2 = DOMAIN lv /\ \A x \in DOMAIN lv : lv2[x].orders = lv[x].orders
  BY <1>2, <1>3, <1>4
<1>6. \A m \in DOMAIN nd : KeyOf(nd2[m]) = KeyOf(nd[m]) /\ LevelOf(nd2[m]) = LevelOf(nd[m])
  BY <1>1
<1>7. Indexed(nd2, ix)
  BY <1>1, <1>6 DEF Indexed
<1>8. Linked(nd2, lv2)
  BY <1>1, <1>5, <1>6 DEF Linked
<1>9. QED
  BY <1>1, <1>4, <1>5, <1>7, <1>8 DEF nd2, lv2, level, k

\* Resting a new order: allocate_node and resting_index_.emplace.
LEMMA IndexedInsert ==
  ASSUME NEW nd, NodeMap(nd), NEW ix, IndexMap(ix), Indexed(nd, ix),
         NEW n \in NodeIds, n \notin DOMAIN nd, NEW order \in OrderState,
         KeyOf(order) \notin DOMAIN ix
  PROVE  LET nd2 == Assign(nd, n, order)
             ix2 == Emplace(ix, KeyOf(order), n)
         IN NodeMap(nd2) /\ IndexMap(ix2) /\ Indexed(nd2, ix2)
<1> DEFINE key == KeyOf(order)
           nd2 == Assign(nd, n, order)
           ix2 == Emplace(ix, key, n)
<1>0. key \in Key
  BY DEF OrderState, KeyOf, Key
<1> HIDE DEF key
<1>1. /\ DOMAIN nd2 = DOMAIN nd \cup {n} /\ nd2[n] = order /\ NodeMap(nd2)
      /\ \A x \in DOMAIN nd : nd2[x] = nd[x]
  BY DEF NodeMap, Assign
<1>2. key \notin DOMAIN ix
  BY DEF key
<1>3. /\ DOMAIN ix2 = DOMAIN ix \cup {key} /\ ix2[key] = n /\ IndexMap(ix2)
      /\ \A x \in DOMAIN ix : ix2[x] = ix[x]
  BY <1>0, <1>2 DEF IndexMap, Emplace, Assign
<1> HIDE DEF nd2, ix2
<1>4. \A x \in DOMAIN ix2 : ix2[x] \in DOMAIN nd2 /\ KeyOf(nd2[ix2[x]]) = x
  <2>1. \A x \in DOMAIN ix : ix2[x] \in DOMAIN nd2 /\ KeyOf(nd2[ix2[x]]) = x
    BY <1>1, <1>3 DEF Indexed
  <2>2. ix2[key] \in DOMAIN nd2 /\ KeyOf(nd2[ix2[key]]) = key
    BY <1>1, <1>3 DEF key
  <2>3. QED
    BY <1>3, <2>1, <2>2
<1>5. \A m \in DOMAIN nd2 : KeyOf(nd2[m]) \in DOMAIN ix2 /\ ix2[KeyOf(nd2[m])] = m
  <2>1. \A m \in DOMAIN nd : KeyOf(nd2[m]) \in DOMAIN ix2 /\ ix2[KeyOf(nd2[m])] = m
    BY <1>1, <1>3 DEF Indexed
  <2>2. KeyOf(nd2[n]) \in DOMAIN ix2 /\ ix2[KeyOf(nd2[n])] = n
    BY <1>1, <1>3 DEF key
  <2>3. QED
    BY <1>1, <2>1, <2>2
<1>6. QED
  BY <1>1, <1>3, <1>4, <1>5 DEF Indexed, nd2, ix2, key

\* Resting a new order: book::place links it at the end of its level.
LEMMA LinkedInsert ==
  ASSUME NEW nd, NodeMap(nd), NEW lv, LevelMap(lv), Linked(nd, lv),
         NEW n \in NodeIds, n \notin DOMAIN nd, NEW order \in OrderState,
         order.symbol \in BookSymbols
  PROVE  LET nd2 == Assign(nd, n, order)
             lv2 == place(lv, n, order)
         IN /\ LevelMap(lv2) /\ Linked(nd2, lv2)
            /\ (\A x \in DOMAIN lv : lv[x].orders # << >>)
                 => \A x \in DOMAIN lv2 : lv2[x].orders # << >>
<1> DEFINE k == LevelOf(order)
           old == IF k \in DOMAIN lv THEN lv[k] ELSE EmptyLevel
           fifo == Append(old.orders, n)
           total == Plus(old.total_remaining, order.leaves_qty, QtyMod)
           level == [orders |-> fifo, total_remaining |-> total]
           nd2 == Assign(nd, n, order)
           lv2 == Assign(lv, k, level)
<1>1. k \in LevelKey
  BY DEF OrderState, LevelOf, LevelKey
<1>2. 0 \in Quantity /\ order.leaves_qty \in Quantity
  BY WidthAssumption DEF OrderState, Quantity
<1>3. old \in PriceLevel
  BY <1>2 DEF LevelMap, PriceLevel, EmptyLevel
<1>4. \A m : Holds(old.orders, m) <=> k \in DOMAIN lv /\ Holds(lv[k].orders, m)
  BY DEF EmptyLevel, Holds
<1>5. Distinct(old.orders)
  BY DEF EmptyLevel, Distinct, Linked
<1>6. ~Holds(old.orders, n)
  BY <1>4 DEF Linked
<1> HIDE DEF old
<1>7. /\ fifo \in Seq(NodeIds) /\ fifo # << >> /\ Distinct(fifo)
      /\ \A m : Holds(fifo, m) <=> m = n \/ Holds(old.orders, m)
  BY <1>3, <1>5, <1>6, AppendHolds DEF PriceLevel
<1>8. total \in Quantity
  BY <1>2, <1>3, PlusType, WidthAssumption DEF PriceLevel, Quantity
<1> HIDE DEF fifo, total
<1>9. level \in PriceLevel /\ level.orders = fifo
  BY <1>7, <1>8 DEF PriceLevel
<1>10. place(lv, n, order) = lv2
  BY DEF place, old, fifo, total
<1> HIDE DEF level, k
<1>11. /\ LevelMap(lv2) /\ DOMAIN lv2 = DOMAIN lv \cup {k} /\ lv2[k] = level
       /\ \A x \in DOMAIN lv : x # k => lv2[x] = lv[x]
  BY <1>1, <1>9 DEF LevelMap, Assign
<1>12. /\ DOMAIN nd2 = DOMAIN nd \cup {n} /\ nd2[n] = order
       /\ \A x \in DOMAIN nd : nd2[x] = nd[x]
  BY DEF NodeMap, Assign
<1> HIDE DEF lv2, nd2
<1>13. LevelOf(nd2[n]) = k
  BY <1>12 DEF k
<1>14. \A x \in DOMAIN lv2 : Distinct(lv2[x].orders)
  BY <1>7, <1>9, <1>11 DEF Linked
<1>15. \A x \in DOMAIN lv2 : \A m :
         Holds(lv2[x].orders, m) <=>
           (x = k /\ m = n) \/ (x \in DOMAIN lv /\ Holds(lv[x].orders, m))
  BY <1>4, <1>7, <1>9, <1>11
<1>16. \A x \in DOMAIN lv2 : \A m :
         Holds(lv2[x].orders, m) => m \in DOMAIN nd2 /\ LevelOf(nd2[m]) = x
  BY <1>12, <1>13, <1>15 DEF Linked
<1>17. \A m \in DOMAIN nd2 :
         LevelOf(nd2[m]) \in DOMAIN lv2 /\ Holds(lv2[LevelOf(nd2[m])].orders, m)
  <2>1. LevelOf(nd2[n]) \in DOMAIN lv2 /\ Holds(lv2[LevelOf(nd2[n])].orders, n)
    BY <1>11, <1>13, <1>15
  <2>2. ASSUME NEW m \in DOMAIN nd
        PROVE  LevelOf(nd2[m]) \in DOMAIN lv2 /\ Holds(lv2[LevelOf(nd2[m])].orders, m)
    <3>1. LevelOf(nd[m]) \in DOMAIN lv /\ Holds(lv[LevelOf(nd[m])].orders, m)
      BY DEF Linked
    <3>2. QED
      BY <1>11, <1>12, <1>15, <3>1
  <2>3. QED
    BY <1>12, <2>1, <2>2
<1>18. QED
  BY <1>7, <1>9, <1>10, <1>11, <1>14, <1>16, <1>17 DEF Linked, nd2

\* match()'s bulk erase only drops levels without orders.
LEMMA LinkedBulkErase ==
  ASSUME NEW nd, NEW lv, LevelMap(lv), Linked(nd, lv), NEW S,
         \A k \in S : k \in DOMAIN lv => lv[k].orders = << >>
  PROVE  LevelMap(Without(lv, S)) /\ Linked(nd, Without(lv, S))
<1> DEFINE lv2 == Without(lv, S)
<1>1. /\ LevelMap(lv2) /\ DOMAIN lv2 = DOMAIN lv \ S
      /\ \A k \in DOMAIN lv2 : lv2[k] = lv[k]
  BY DEF LevelMap, Without, Restrict
<1>2. \A m : ~Holds(<< >>, m)
  BY DEF Holds
<1> HIDE DEF lv2
<1>3. Linked(nd, lv2)
  BY <1>1, <1>2 DEF Linked
<1>4. QED
  BY <1>1, <1>3 DEF lv2


-----------------------------------------------------------------------------
(* The events *)

\* The snapshot of the top of a side has its type (best_level).
LEMMA BestLevelType ==
  ASSUME NEW lv, LevelMap(lv), NEW symbol, NEW side
  PROVE  best_level(lv, symbol, side) \in LevelSnapshot \cup {None}
<1> DEFINE S == Prices(lv, symbol, side)
           p == Front(side, S)
<1>1. CASE S = {}
  BY <1>1 DEF best_level
<1>2. CASE S # {}
  <2>1. S \subseteq Price
    BY DEF Prices
  <2>2. p \in S
    BY <1>2, <2>1, FrontInSet
  <2>3. <<symbol, side, p>> \in DOMAIN lv
    BY <2>2 DEF Prices
  <2>4. lv[<<symbol, side, p>>] \in PriceLevel
    BY <2>3 DEF LevelMap
  <2>5. p \in Price /\ lv[<<symbol, side, p>>].total_remaining \in Quantity
    BY <2>1, <2>2, <2>4 DEF PriceLevel
  <2>6. best_level(lv, symbol, side)
          = [price |-> p, total_quantity |-> lv[<<symbol, side, p>>].total_remaining]
    BY <1>2 DEF best_level
  <2> HIDE DEF p
  <2>7. QED
    BY <2>5, <2>6 DEF LevelSnapshot
<1>3. QED
  BY <1>1, <1>2

\* An optional book update is a sequence of events.
LEMMA UpdateType ==
  ASSUME NEW lv, LevelMap(lv), NEW symbol, NEW side \in Side,
         NEW security_id \in SecurityIds, NEW condition
  PROVE  UpdateIf(condition, lv, symbol, side, security_id) \in Seq(Event)
<1> DEFINE e == emit_mbo_book_update(lv, symbol, side, security_id)
<1>1. e \in MboBookUpdate
  <2>1. best_level(lv, symbol, side) \in LevelSnapshot \cup {None}
    BY BestLevelType
  <2>2. QED
    BY <2>1 DEF emit_mbo_book_update, MboBookUpdate
<1>2. e \in Event
  BY <1>1 DEF Event
<1> HIDE DEF e
<1>3. <<e>> \in Seq(Event) /\ << >> \in Seq(Event)
  BY <1>2
<1>4. UpdateIf(condition, lv, symbol, side, security_id) \in {<<e>>, << >>}
  BY DEF UpdateIf, e
<1>5. QED
  BY <1>3, <1>4

\* An execution report has its type whatever the order's arithmetic did.
LEMMA ReportType ==
  ASSUME NEW order \in OrderState, NEW id \in Id,
         NEW exec_type \in {"new_order", "trade", "canceled"},
         NEW ord_status \in {"new_order", "filled", "partially_filled", "canceled"},
         NEW orig \in ClOrdIds \cup {None}, NEW last_qty \in Quantity \cup {None},
         NEW last_px \in Price \cup {None}
  PROVE  emit_execution_report(order, id, exec_type, ord_status, orig, last_qty, last_px)
           \in Event
<1>1. /\ order.order_qty \in Quantity /\ order.leaves_qty \in Quantity
      /\ order.client_id \in ClientIds /\ order.cl_ord_id \in ClOrdIds
  BY DEF OrderState
<1>2. Minus(order.order_qty, order.leaves_qty, QtyMod) \in Quantity
  BY <1>1, MinusType, WidthAssumption DEF Quantity
<1>3. emit_execution_report(order, id, exec_type, ord_status, orig, last_qty, last_px)
        \in ExecutionReport
  BY <1>1, <1>2 DEF emit_execution_report, ExecutionReport
<1>4. QED
  BY <1>3 DEF Event

\* A cancel reject has its type.
LEMMA RejectType ==
  ASSUME NEW r \in CancelOrder \cup ReplaceOrder,
         NEW reason \in {"unknown_order", "duplicate_order", "unknown_symbol"}
  PROVE  emit_cancel_reject(r, reason) \in Event
<1>1. /\ r.client_id \in ClientIds /\ r.cl_ord_id \in ClOrdIds
      /\ r.orig_cl_ord_id \in ClOrdIds
  BY DEF CancelOrder, ReplaceOrder
<1>2. emit_cancel_reject(r, reason) \in CancelReject
  BY <1>1 DEF emit_cancel_reject, CancelReject
<1>3. QED
  BY <1>2 DEF Event

\* A trade has its type.
LEMMA TradeType ==
  ASSUME NEW order \in OrderState, NEW maker \in OrderState, NEW p \in Price,
         NEW q \in Quantity, NEW id \in Id
  PROVE  make_trade(order, maker, p, q, id) \in Event
<1>1. /\ order.security_id \in SecurityIds /\ order.cl_ord_id \in ClOrdIds
      /\ maker.cl_ord_id \in ClOrdIds
  BY DEF OrderState
<1>2. make_trade(order, maker, p, q, id) \in Trade
  BY <1>1 DEF make_trade, Trade
<1>3. QED
  BY <1>2 DEF Event

\* What a subscriber takes from an event is the top of a side.
LEMMA ApplyType ==
  ASSUME NEW v \in [SecurityIds \X Side -> LevelSnapshot \cup {None}],
         NEW es \in Seq(Event)
  PROVE  Apply(v, es) \in [SecurityIds \X Side -> LevelSnapshot \cup {None}]
<1>1. ASSUME NEW k, UpdatesOf(k, es) # {}
      PROVE  es[Max(UpdatesOf(k, es))].top \in LevelSnapshot \cup {None}
  <2> DEFINE U == UpdatesOf(k, es)
  <2>1. Len(es) \in Nat /\ DOMAIN es = 1 .. Len(es)
    OBVIOUS
  <2>2. U \subseteq 0 .. Len(es)
    BY <2>1 DEF UpdatesOf
  <2>3. Max(U) \in U
    BY <1>1, <2>1, <2>2, MaxProperties
  <2>4. Max(U) \in DOMAIN es /\ es[Max(U)].type = "mbo_book_update"
    BY <2>3 DEF UpdatesOf
  <2>5. es[Max(U)] \in Event
    BY <2>1, <2>4
  <2> HIDE DEF U
  <2>6. \A e \in Event : e.type = "mbo_book_update" => e \in MboBookUpdate
    BY DEF Event, Trade, ExecutionSummary, ExecutionReport, CancelReject
  <2>7. es[Max(U)] \in MboBookUpdate
    BY <2>4, <2>5, <2>6
  <2>8. QED
    BY <2>7 DEF MboBookUpdate, U
<1>2. QED
  BY <1>1 DEF Apply


-----------------------------------------------------------------------------
(* The inductive invariant *)

\* The locals of a handler: nothing is consumed between requests, and the order
\* that match() works on is known, has a book and is not at rest.
TakerInScope ==
  /\ pc = "idle" => consumed = {}
  /\ pc = "match" => /\ taker \in OrderState
                     /\ taker.symbol \in BookSymbols
                     /\ KeyOf(taker) \notin DOMAIN index

EatenLevel(p) == <<taker.symbol, Opposite(taker.side), p>>

\* The levels without orders are the ones match()'s iterator has stepped over.
EmptiedLevels ==
  /\ \A k \in DOMAIN levels :
       levels[k].orders = << >> => pc = "match" /\ \E p \in consumed : k = EatenLevel(p)
  /\ pc = "match" =>
       \A p \in consumed : EatenLevel(p) \in DOMAIN levels => levels[EatenLevel(p)].orders = << >>

\* nodes, index and levels have their types and describe the same orders.
BookOK ==
  /\ NodeMap(nodes) /\ IndexMap(index) /\ LevelMap(levels)
  /\ Indexed(nodes, index) /\ Linked(nodes, levels)

CountersOK == next_exec_id \in Id /\ next_trade_id \in Id

LocalsOK ==
  /\ pc \in {"idle", "match", "done"}
  /\ request \in Request \cup {None}
  /\ taker \in OrderState \cup {None}
  /\ consumed \subseteq Price
  /\ last_traded \in Price \cup {None}
  /\ events \in Seq(Event)

HistoryOK ==
  /\ earlier \subseteq Key \X Key
  /\ view \in [SecurityIds \X Side -> LevelSnapshot \cup {None}]
  /\ flushed \subseteq SecurityIds \X Side

\* TypeOK and Ownership with what makes them inductive.
IndInv ==
  /\ BookOK
  /\ CountersOK
  /\ LocalsOK
  /\ HistoryOK
  /\ TakerInScope
  /\ EmptiedLevels

\* The invariant contains the properties it was made for.
LEMMA IndInvImplies == IndInv => TypeOK /\ Ownership
<1> SUFFICES ASSUME IndInv PROVE TypeOK /\ Ownership
  OBVIOUS
<1>1. Ownership
  BY OwnershipParts DEF IndInv, BookOK
<1>2. TypeOK
  BY DEF IndInv, BookOK, NodeMap, IndexMap, LevelMap, CountersOK, LocalsOK, HistoryOK, TypeOK
<1>3. QED
  BY <1>1, <1>2

\* The engine starts with empty books.
LEMMA InitInv == Init => IndInv
<1> SUFFICES ASSUME Init PROVE IndInv
  OBVIOUS
<1>1. nodes = << >> /\ index = << >> /\ levels = << >> /\ DOMAIN << >> = {}
  BY DEF Init
<1>2. NodeMap(nodes) /\ IndexMap(index) /\ LevelMap(levels)
  BY <1>1 DEF NodeMap, IndexMap, LevelMap
<1>3. BookOK
  BY <1>1, <1>2 DEF BookOK, Indexed, Linked
<1>4. CountersOK
  <2>1. \A m \in Nat \ {0} : 1 % m \in 0 .. m - 1
    OBVIOUS
  <2>2. QED
    BY <2>1, WidthAssumption DEF Init, CountersOK, Id
<1>5. LocalsOK
  BY DEF Init, LocalsOK
<1>6. HistoryOK
  BY DEF Init, HistoryOK
<1>7. TakerInScope /\ EmptiedLevels
  BY <1>1 DEF Init, TakerInScope, EmptiedLevels
<1>8. QED
  BY <1>3, <1>4, <1>5, <1>6, <1>7 DEF IndInv

\* Outside match() no level is empty.
LEMMA NoEmptyLevel ==
  ASSUME IndInv, pc # "match"
  PROVE  \A k \in DOMAIN levels : levels[k].orders # << >>
BY DEF IndInv, EmptiedLevels

\* A request carries the fields of its alternative of the variant.
LEMMA RequestFields ==
  ASSUME NEW r \in Requests
  PROVE  /\ r \in Request
         /\ r.type = "new_order_single" => r \in NewOrderSingle
         /\ r.type = "replace_order" => r \in ReplaceOrder
         /\ r.type = "cancel_order" => r \in CancelOrder
<1>1. r \in Request
  BY RequestAssumption
<1>2. QED
  BY <1>1 DEF Request, NewOrderSingle, ReplaceOrder, CancelOrder, Flush

\* A handler that only emits preserves the invariant.
LEMMA ReturnWithInv ==
  ASSUME IndInv, pc = "idle", NEW r \in Request, NEW emitted \in Seq(Event),
         ReturnWith(r, emitted)
  PROVE  IndInv'
<1>1. /\ nodes' = nodes /\ index' = index /\ levels' = levels
      /\ next_exec_id' = next_exec_id /\ next_trade_id' = next_trade_id
      /\ pc' = "done" /\ request' = r /\ events' = emitted
      /\ taker' = taker /\ consumed' = consumed /\ last_traded' = last_traded
      /\ earlier' = earlier /\ view' = view /\ flushed' = flushed
  BY DEF ReturnWith, book, history
<1>2. BookOK' /\ CountersOK' /\ HistoryOK'
  BY <1>1 DEF IndInv, BookOK, CountersOK, HistoryOK
<1>3. LocalsOK'
  BY <1>1 DEF IndInv, LocalsOK
<1>4. TakerInScope' /\ EmptiedLevels'
  BY <1>1, NoEmptyLevel DEF TakerInScope, EmptiedLevels
<1>5. QED
  BY <1>2, <1>3, <1>4 DEF IndInv

\* Removing an order that the index names.
LEMMA RemoveRestingInv ==
  ASSUME IndInv, pc = "idle", NEW key \in DOMAIN index, RemoveResting(key)
  PROVE  /\ BookOK'
         /\ \A k \in DOMAIN levels' : levels'[k].orders # << >>
         /\ DOMAIN index' \subseteq DOMAIN index
         /\ earlier' \subseteq Key \X Key
         /\ nodes[index[key]] \in OrderState
         /\ RemovalUpdate(nodes[index[key]]) \in Seq(Event)
<1> DEFINE n == index[key]
<1>1. n \in DOMAIN nodes /\ KeyOf(nodes[n]) = key
  BY DEF IndInv, BookOK, Indexed
<1> HIDE DEF n
<1>2. /\ levels' = cancel(levels, n, nodes[n])
      /\ index' = Without(index, {KeyOf(nodes[n])})
      /\ nodes' = Without(nodes, {n})
      /\ earlier' \subseteq earlier
  BY <1>1 DEF RemoveResting, n
<1>3. /\ NodeMap(nodes) /\ IndexMap(index) /\ LevelMap(levels)
      /\ Indexed(nodes, index) /\ Linked(nodes, levels)
  BY DEF IndInv, BookOK
<1>4. NodeMap(nodes') /\ IndexMap(index') /\ Indexed(nodes', index')
  BY <1>1, <1>2, <1>3, IndexedErase
<1>5. /\ LevelMap(levels') /\ Unlinked(levels, n, levels')
      /\ \A k \in DOMAIN levels' : levels'[k].orders # << >>
  BY <1>1, <1>2, <1>3, CancelUnlinks, NoEmptyLevel
<1>6. Linked(nodes', levels')
  BY <1>1, <1>2, <1>3, <1>5, LinkedErase
<1>7. DOMAIN index' \subseteq DOMAIN index
  BY <1>2 DEF Without, Restrict
<1>8. earlier' \subseteq Key \X Key
  BY <1>2 DEF IndInv, HistoryOK
<1>9. nodes[n] \in OrderState
  BY <1>1, <1>3 DEF NodeMap
<1>10. nodes[n].side \in Side /\ nodes[n].security_id \in SecurityIds
  BY <1>9 DEF OrderState
<1>11. RemovalUpdate(nodes[n]) \in Seq(Event)
  BY <1>5, <1>10, UpdateType DEF RemovalUpdate
<1>12. QED
  BY <1>4, <1>5, <1>6, <1>7, <1>8, <1>9, <1>11 DEF BookOK, n


\* From make_order_state to the call of match().
LEMMA BeginMatchInv ==
  ASSUME IndInv, pc = "idle", NEW r \in NewOrderSingle \cup ReplaceOrder,
         r \in Request, r.symbol \in BookSymbols, ~contains(r),
         NEW emitted \in Seq(Event), BeginMatch(r, emitted),
         BookOK', \A k \in DOMAIN levels' : levels'[k].orders # << >>,
         DOMAIN index' \subseteq DOMAIN index, earlier' \subseteq Key \X Key
  PROVE  IndInv'
<1> DEFINE order == make_order_state(r)
           report == emit_execution_report(order, next_exec_id, "new_order", "new_order",
                                           None, None, None)
<1>1. /\ pc' = "match" /\ request' = r /\ taker' = order
      /\ events' = Append(emitted, report)
      /\ next_exec_id' = Plus(next_exec_id, 1, IdMod) /\ next_trade_id' = next_trade_id
      /\ consumed' = consumed /\ last_traded' = last_traded
      /\ view' = view /\ flushed' = flushed
  BY DEF BeginMatch
<1>2. order \in OrderState /\ order.symbol = r.symbol /\ KeyOf(order) = <<r.client_id, r.cl_ord_id>>
  BY DEF make_order_state, OrderState, NewOrderSingle, ReplaceOrder, KeyOf
<1> HIDE DEF order
<1>3. report \in Event
  BY <1>2, ReportType DEF IndInv, CountersOK
<1> HIDE DEF report
<1>4. Append(emitted, report) \in Seq(Event)
  BY <1>3
<1>5. LocalsOK'
  BY <1>1, <1>2, <1>4 DEF IndInv, LocalsOK
<1>6. CountersOK'
  BY <1>1, IncType, WidthAssumption DEF IndInv, CountersOK, Id
<1>7. HistoryOK'
  BY <1>1 DEF IndInv, HistoryOK
<1>8. consumed' = {}
  BY <1>1 DEF IndInv, TakerInScope
<1>9. TakerInScope'
  BY <1>1, <1>2 DEF TakerInScope, contains
<1>10. EmptiedLevels'
  BY <1>1, <1>8 DEF EmptiedLevels
<1>11. QED
  BY <1>5, <1>6, <1>7, <1>9, <1>10 DEF IndInv

\* handle(new_order_single), refused or accepted.
LEMMA NewOrderInv ==
  ASSUME IndInv, NEW r \in Requests, RejectNewOrder(r) \/ AcceptNewOrder(r)
  PROVE  IndInv'
<1>1. << >> \in Seq(Event)
  OBVIOUS
<1>2. CASE RejectNewOrder(r)
  BY <1>1, <1>2, RequestFields, ReturnWithInv DEF RejectNewOrder
<1>3. CASE AcceptNewOrder(r)
  <2>1. /\ pc = "idle" /\ r.type = "new_order_single" /\ ~contains(r)
        /\ r.symbol \in BookSymbols /\ BeginMatch(r, << >>)
        /\ nodes' = nodes /\ index' = index /\ levels' = levels /\ earlier' = earlier
    BY <1>3 DEF AcceptNewOrder, book
  <2>2. r \in NewOrderSingle /\ r \in Request
    BY <2>1, RequestFields
  <2>3. BookOK'
    BY <2>1 DEF IndInv, BookOK
  <2>4. \A k \in DOMAIN levels' : levels'[k].orders # << >>
    BY <2>1, NoEmptyLevel
  <2>5. earlier' \subseteq Key \X Key
    BY <2>1 DEF IndInv, HistoryOK
  <2>6. QED
    BY <1>1, <2>1, <2>2, <2>3, <2>4, <2>5, BeginMatchInv
<1>4. QED
  BY <1>2, <1>3

\* handle(cancel_order).
LEMMA CancelInv ==
  ASSUME IndInv, NEW r \in Requests, CancelMiss(r) \/ Cancel(r)
  PROVE  IndInv'
<1>1. CASE CancelMiss(r)
  <2>1. r \in CancelOrder /\ r \in Request
    BY <1>1, RequestFields DEF CancelMiss
  <2>2. emit_cancel_reject(r, "unknown_order") \in Event
    BY <2>1, RejectType
  <2>3. <<emit_cancel_reject(r, "unknown_order")>> \in Seq(Event)
    BY <2>2
  <2>4. QED
    BY <1>1, <2>1, <2>3, ReturnWithInv DEF CancelMiss
<1>2. CASE Cancel(r)
  <2> DEFINE key == OrigKey(r)
             resting == nodes[index[key]]
             report == emit_execution_report(resting, next_exec_id, "canceled",
                         "canceled", r.orig_cl_ord_id, None, None)
  <2>1. /\ pc = "idle" /\ key \in DOMAIN index /\ RemoveResting(key)
        /\ events' = <<report>> \o RemovalUpdate(resting)
        /\ next_exec_id' = Plus(next_exec_id, 1, IdMod) /\ next_trade_id' = next_trade_id
        /\ pc' = "done" /\ request' = r /\ taker' = taker /\ consumed' = consumed
        /\ last_traded' = last_traded /\ view' = view /\ flushed' = flushed
    BY <1>2 DEF Cancel
  <2>2. r \in CancelOrder /\ r \in Request
    BY <1>2, RequestFields DEF Cancel
  <2>3. /\ BookOK'
        /\ \A k \in DOMAIN levels' : levels'[k].orders # << >>
        /\ earlier' \subseteq Key \X Key
        /\ resting \in OrderState
        /\ RemovalUpdate(resting) \in Seq(Event)
    <3> HIDE DEF key
    <3>1. QED
      BY <2>1, RemoveRestingInv
  <2> HIDE DEF resting
  <2>4. r.orig_cl_ord_id \in ClOrdIds
    BY <2>2 DEF CancelOrder
  <2>5. report \in Event
    BY <2>3, <2>4, ReportType DEF IndInv, CountersOK
  <2> HIDE DEF report
  <2>6. <<report>> \in Seq(Event)
    BY <2>5
  <2>7. events' \in Seq(Event)
    BY <2>1, <2>3, <2>6, ConcatProperties
  <2>8. LocalsOK'
    BY <2>1, <2>2, <2>7 DEF IndInv, LocalsOK
  <2>9. CountersOK'
    BY <2>1, IncType, WidthAssumption DEF IndInv, CountersOK, Id
  <2>10. HistoryOK'
    BY <2>1, <2>3 DEF IndInv, HistoryOK
  <2>11. TakerInScope' /\ EmptiedLevels'
    BY <2>1, <2>3 DEF TakerInScope, EmptiedLevels
  <2>12. QED
    BY <2>3, <2>8, <2>9, <2>10, <2>11 DEF IndInv
<1>3. QED
  BY <1>1, <1>2

\* handle(replace_order), with each of its outcomes.
LEMMA ReplaceInv ==
  ASSUME IndInv, NEW r \in Requests, RejectReplace(r) \/ AcceptReplace(r)
  PROVE  IndInv'
<1>1. r \in ReplaceOrder /\ r \in Request
  BY RequestFields DEF RejectReplace, AcceptReplace
<1>2. \A reason \in {"unknown_order", "duplicate_order", "unknown_symbol"} :
        emit_cancel_reject(r, reason) \in Event
  BY <1>1, RejectType
<1>3. CASE RejectReplace(r)
  <2>1. PICK reason \in {"unknown_order", "duplicate_order"} :
          ReturnWith(r, <<emit_cancel_reject(r, reason)>>)
    BY <1>3 DEF RejectReplace
  <2>2. emit_cancel_reject(r, reason) \in Event
    BY <1>2
  <2>3. <<emit_cancel_reject(r, reason)>> \in Seq(Event)
    BY <2>2
  <2>4. QED
    BY <1>1, <1>3, <2>1, <2>3, ReturnWithInv DEF RejectReplace
<1>4. CASE AcceptReplace(r)
  <2> DEFINE key == OrigKey(r)
             removal == RemovalUpdate(nodes[index[key]])
             reject == emit_cancel_reject(r, "unknown_symbol")
  <2>1. /\ pc = "idle" /\ key \in DOMAIN index /\ ~contains(r) /\ RemoveResting(key)
        /\ \/ r.symbol \in BookSymbols /\ BeginMatch(r, removal)
           \/ /\ events' = Append(removal, reject) /\ pc' = "done" /\ request' = r
              /\ next_exec_id' = next_exec_id /\ next_trade_id' = next_trade_id
              /\ taker' = taker /\ consumed' = consumed /\ last_traded' = last_traded
              /\ view' = view /\ flushed' = flushed
    BY <1>4 DEF AcceptReplace
  <2>2. /\ BookOK'
        /\ \A k \in DOMAIN levels' : levels'[k].orders # << >>
        /\ DOMAIN index' \subseteq DOMAIN index
        /\ earlier' \subseteq Key \X Key
        /\ removal \in Seq(Event)
    <3> HIDE DEF key
    <3>1. QED
      BY <2>1, RemoveRestingInv
  <2>3. reject \in Event
    BY <1>2
  <2> HIDE DEF removal, reject
  <2>4. CASE r.symbol \in BookSymbols /\ BeginMatch(r, removal)
    BY <1>1, <2>1, <2>2, <2>4, BeginMatchInv
  <2>5. CASE /\ events' = Append(removal, reject) /\ pc' = "done" /\ request' = r
             /\ next_exec_id' = next_exec_id /\ next_trade_id' = next_trade_id
             /\ taker' = taker /\ consumed' = consumed /\ last_traded' = last_traded
             /\ view' = view /\ flushed' = flushed
    <3>1. events' \in Seq(Event)
      BY <2>2, <2>3, <2>5
    <3>2. LocalsOK' /\ CountersOK' /\ HistoryOK'
      BY <1>1, <2>2, <2>5, <3>1 DEF IndInv, LocalsOK, CountersOK, HistoryOK
    <3>3. TakerInScope' /\ EmptiedLevels'
      BY <2>2, <2>5 DEF TakerInScope, EmptiedLevels
    <3>4. QED
      BY <2>2, <3>2, <3>3 DEF IndInv
  <2>6. QED
    BY <2>1, <2>4, <2>5
<1>5. QED
  BY <1>3, <1>4


\* handle(flush): whatever is in the pool is reached through some book.
LEMMA FlushInv ==
  ASSUME IndInv, NEW r \in Requests, HandleFlush(r)
  PROVE  IndInv'
<1> DEFINE drained == UNION {Range(levels[k].orders) : k \in DOMAIN levels}
           keys == {KeyOf(nodes[n]) : n \in drained}
<1>1. /\ pc = "idle" /\ levels' = << >> /\ nodes' = Without(nodes, drained)
      /\ index' = Without(index, keys) /\ earlier' \subseteq earlier
      /\ pc' = "done" /\ request' = r
      /\ next_exec_id' = next_exec_id /\ next_trade_id' = next_trade_id
      /\ taker' = taker /\ consumed' = consumed /\ last_traded' = last_traded
      /\ events' = events /\ view' = view /\ flushed' = flushed
  BY DEF HandleFlush
<1>2. /\ NodeMap(nodes) /\ IndexMap(index) /\ Indexed(nodes, index)
      /\ Linked(nodes, levels)
  BY DEF IndInv, BookOK
<1>3. ASSUME NEW n \in DOMAIN nodes
      PROVE  n \in drained
  <2>1. PICK k \in DOMAIN levels : Holds(levels[k].orders, n)
    BY <1>2 DEF Linked
  <2>2. n \in Range(levels[k].orders)
    BY <2>1 DEF Holds, Range
  <2>3. QED
    BY <2>2
<1>4. ASSUME NEW key \in DOMAIN index
      PROVE  key \in keys
  <2>1. index[key] \in DOMAIN nodes /\ KeyOf(nodes[index[key]]) = key
    BY <1>2 DEF Indexed
  <2>2. QED
    BY <1>3, <2>1
<1> HIDE DEF drained, keys
<1>5. DOMAIN nodes' = {} /\ NodeMap(nodes')
  BY <1>1, <1>2, <1>3 DEF NodeMap, Without, Restrict
<1>6. DOMAIN index' = {} /\ IndexMap(index')
  BY <1>1, <1>2, <1>4 DEF IndexMap, Without, Restrict
<1>7. DOMAIN levels' = {} /\ LevelMap(levels')
  BY <1>1 DEF LevelMap
<1>8. BookOK'
  BY <1>5, <1>6, <1>7 DEF BookOK, Indexed, Linked
<1>9. LocalsOK' /\ CountersOK' /\ HistoryOK'
  BY <1>1, RequestFields DEF IndInv, LocalsOK, CountersOK, HistoryOK
<1>10. TakerInScope' /\ EmptiedLevels'
  BY <1>1, <1>7 DEF TakerInScope, EmptiedLevels
<1>11. QED
  BY <1>8, <1>9, <1>10 DEF IndInv

\* One iteration of consume_level.
LEMMA FillInv ==
  ASSUME IndInv, Fill
  PROVE  IndInv'
<1> DEFINE p == Current
           k == EatenLevel(p)
           level == levels[k]
           n == Head(level.orders)
           maker == nodes[n]
           qty == FillQty(maker)
           total == Minus(level.total_remaining, qty, QtyMod)
           whole == maker.leaves_qty = qty
           rest == IF whole THEN Tail(level.orders) ELSE level.orders
           shrunk == [maker EXCEPT !.leaves_qty = @ - qty]
<1>1. /\ pc = "match" /\ CanFill
      /\ events' = Append(events, make_trade(taker, maker, p, qty, next_trade_id))
      /\ next_trade_id' = Plus(next_trade_id, 1, IdMod)
      /\ taker' = [taker EXCEPT !.leaves_qty = @ - qty]
      /\ levels' = Assign(levels, k, [orders |-> rest, total_remaining |-> total])
      /\ consumed' = IF rest = << >> THEN consumed \cup {p} ELSE consumed
      /\ last_traded' = p
      /\ \/ /\ whole /\ nodes' = Without(nodes, {n})
            /\ index' = Without(index, {KeyOf(maker)}) /\ earlier' \subseteq earlier
         \/ /\ ~whole /\ nodes' = Assign(nodes, n, shrunk)
            /\ index' = index /\ earlier' = earlier
      /\ next_exec_id' = next_exec_id /\ pc' = pc /\ request' = request
      /\ view' = view /\ flushed' = flushed
  BY DEF Fill, EatenLevel
<1>2. /\ NodeMap(nodes) /\ IndexMap(index) /\ LevelMap(levels)
      /\ Indexed(nodes, index) /\ Linked(nodes, levels)
  BY DEF IndInv, BookOK
<1>3. /\ taker \in OrderState /\ taker.symbol \in BookSymbols
      /\ KeyOf(taker) \notin DOMAIN index
  BY <1>1 DEF IndInv, TakerInScope
<1>4. p \in Ahead
  <2>1. Ahead # {} /\ Ahead \subseteq Price
    BY <1>1 DEF CanFill, Ahead, Prices
  <2>2. QED
    BY <2>1, FrontInSet DEF Current
<1>5. p \in Price /\ p \notin consumed /\ k \in DOMAIN levels
  BY <1>4 DEF Ahead, Prices, EatenLevel
<1> HIDE DEF p
<1>6. level.orders # << >>
  <2>1. \A q \in consumed : k # EatenLevel(q)
    BY <1>5 DEF EatenLevel
  <2>2. QED
    BY <1>5, <2>1 DEF IndInv, EmptiedLevels
<1>7. level \in PriceLevel
  BY <1>2, <1>5 DEF LevelMap
<1>8. level.orders \in Seq(NodeIds) /\ level.total_remaining \in Quantity /\ Distinct(level.orders)
  BY <1>2, <1>5, <1>7 DEF PriceLevel, Linked
<1> HIDE DEF k, level
<1>9. /\ Tail(level.orders) \in Seq(NodeIds) /\ Distinct(Tail(level.orders))
      /\ Holds(level.orders, n)
      /\ \A m : Holds(Tail(level.orders), m) <=> m # n /\ Holds(level.orders, m)
  BY <1>6, <1>8, TailHolds
<1>10. n \in DOMAIN nodes /\ LevelOf(nodes[n]) = k
  BY <1>2, <1>5, <1>9 DEF Linked, level
<1> HIDE DEF n
<1>11. maker \in OrderState
  BY <1>2, <1>10 DEF NodeMap
<1>12. /\ maker.leaves_qty \in Quantity /\ taker.leaves_qty \in Quantity
       /\ maker.security_id \in SecurityIds
  BY <1>3, <1>11 DEF OrderState
<1>13. qty \in Quantity /\ qty <= taker.leaves_qty /\ qty <= maker.leaves_qty
  BY <1>12 DEF FillQty, Quantity
<1> HIDE DEF qty
<1>14. total \in Quantity
  BY <1>8, <1>13, MinusType, WidthAssumption DEF Quantity
<1> HIDE DEF total
<1>15. /\ taker' \in OrderState /\ KeyOf(taker') = KeyOf(taker)
       /\ taker'.symbol = taker.symbol /\ taker'.side = taker.side
  <2>1. taker.leaves_qty - qty \in Quantity
    BY <1>12, <1>13, WidthAssumption DEF Quantity
  <2>2. taker' = [taker EXCEPT !.leaves_qty = taker.leaves_qty - qty]
    BY <1>1
  <2>3. QED
    BY <1>3, <2>1, <2>2 DEF OrderState, KeyOf
<1>16. shrunk \in OrderState /\ KeyOf(shrunk) = KeyOf(maker) /\ LevelOf(shrunk) = LevelOf(maker)
  <2>1. maker.leaves_qty - qty \in Quantity
    BY <1>12, <1>13, WidthAssumption DEF Quantity
  <2>2. shrunk = [maker EXCEPT !.leaves_qty = maker.leaves_qty - qty]
    OBVIOUS
  <2> HIDE DEF maker
  <2>3. QED
    BY <1>11, <2>1, <2>2 DEF OrderState, KeyOf, LevelOf
<1> HIDE DEF shrunk
<1>17. /\ DOMAIN levels' = DOMAIN levels /\ levels'[k].orders = rest
       /\ \A x \in DOMAIN levels : x # k => levels'[x] = levels[x]
  BY <1>1, <1>5 DEF Assign
<1>18. BookOK' /\ earlier' \subseteq Key \X Key /\ DOMAIN index' \subseteq DOMAIN index
  <2>1. CASE whole
    <3>1. /\ nodes' = Without(nodes, {n}) /\ index' = Without(index, {KeyOf(nodes[n])})
          /\ levels' = Assign(levels, LevelOf(nodes[n]),
                         [orders |-> Tail(level.orders), total_remaining |-> total])
          /\ earlier' \subseteq earlier
      BY <1>1, <1>10, <2>1
    <3>2. /\ NodeMap(nodes') /\ IndexMap(index') /\ Indexed(nodes', index')
      BY <1>2, <1>10, <3>1, IndexedErase
    <3>3. \A m : Holds(Tail(level.orders), m)
                   <=> m # n /\ Holds(levels[LevelOf(nodes[n])].orders, m)
      BY <1>9, <1>10 DEF level
    <3>4. LevelMap(levels') /\ Unlinked(levels, n, levels')
      BY <1>2, <1>9, <1>10, <1>14, <3>1, <3>3, ShorterLevel
    <3>5. Linked(nodes', levels')
      BY <1>2, <1>10, <3>1, <3>4, LinkedErase
    <3>6. DOMAIN index' \subseteq DOMAIN index
      BY <3>1 DEF Without, Restrict
    <3>7. QED
      BY <3>1, <3>2, <3>4, <3>5, <3>6 DEF BookOK, IndInv, HistoryOK
  <2>2. CASE ~whole
    <3>1. /\ nodes' = Assign(nodes, n, shrunk) /\ index' = index /\ earlier' = earlier
          /\ levels' = Assign(levels, LevelOf(nodes[n]),
                         [orders |-> levels[LevelOf(nodes[n])].orders, total_remaining |-> total])
      BY <1>1, <1>10, <2>2 DEF level
    <3>2. /\ NodeMap(nodes') /\ Indexed(nodes', index)
          /\ LevelMap(levels') /\ Linked(nodes', levels')
      BY <1>2, <1>10, <1>14, <1>16, <3>1, ShrinkOrder
    <3>3. QED
      BY <1>2, <3>1, <3>2 DEF BookOK, IndInv, HistoryOK
  <2>3. QED
    BY <2>1, <2>2
<1> HIDE DEF maker, rest, whole
<1>19. events' \in Seq(Event)
  <2>1. make_trade(taker, maker, p, qty, next_trade_id) \in Event
    BY <1>3, <1>5, <1>11, <1>13, TradeType DEF IndInv, CountersOK
  <2>2. QED
    BY <1>1, <2>1 DEF IndInv, LocalsOK
<1>20. LocalsOK' /\ HistoryOK'
  BY <1>1, <1>5, <1>15, <1>18, <1>19 DEF IndInv, LocalsOK, HistoryOK
<1>21. CountersOK'
  BY <1>1, IncType, WidthAssumption DEF IndInv, CountersOK, Id
<1>22. TakerInScope'
  BY <1>1, <1>3, <1>15, <1>18 DEF TakerInScope
<1>23. EmptiedLevels'
  <2>1. \A q : EatenLevel(q)' = EatenLevel(q)
    BY <1>15 DEF EatenLevel
  <2>2. \A q \in consumed : EatenLevel(q) # k
    BY <1>5 DEF EatenLevel, k
  <2>3. k = EatenLevel(p)
    BY DEF k
  <2>4. ASSUME NEW x \in DOMAIN levels', levels'[x].orders = << >>
        PROVE  \E q \in consumed' : x = EatenLevel(q)
    <3>1. CASE x = k
      BY <1>1, <1>17, <2>3, <2>4, <3>1
    <3>2. CASE x # k
      <4>1. levels[x].orders = << >>
        BY <1>17, <2>4, <3>2
      <4>2. PICK q \in consumed : x = EatenLevel(q)
        BY <1>17, <2>4, <4>1 DEF IndInv, EmptiedLevels
      <4>3. QED
        BY <1>1, <4>2
    <3>3. QED
      BY <3>1, <3>2
  <2>5. ASSUME NEW q \in consumed', EatenLevel(q) \in DOMAIN levels'
        PROVE  levels'[EatenLevel(q)].orders = << >>
    <3>1. CASE q \in consumed
      BY <1>1, <1>17, <2>2, <2>5, <3>1 DEF IndInv, EmptiedLevels
    <3>2. CASE q \notin consumed
      BY <1>1, <1>17, <2>3, <2>5, <3>2
    <3>3. QED
      BY <3>1, <3>2
  <2>6. pc' = "match"
    BY <1>1
  <2>7. QED
    BY <2>1, <2>4, <2>5, <2>6 DEF EmptiedLevels
<1>24. QED
  BY <1>18, <1>20, <1>21, <1>22, <1>23 DEF IndInv


\* Everything after match(): bulk erase, the resting remainder and the reports.
LEMMA SettleInv ==
  ASSUME IndInv, Settle
  PROVE  IndInv'
<1> DEFINE S == {EatenLevel(p) : p \in consumed}
           lv == Without(levels, S)
<1>1. /\ pc = "match" /\ PlaceResidual(lv) /\ pc' = "done"
      /\ next_trade_id' = next_trade_id
      /\ request' = request /\ taker' = taker /\ consumed' = consumed
      /\ last_traded' = last_traded /\ view' = view /\ flushed' = flushed
      /\ \/ /\ last_traded # None
            /\ events' = (events \o TradeEvents) \o ClosingUpdates
            /\ next_exec_id' = Plus(next_exec_id, 1, IdMod)
         \/ events' = events \o ClosingUpdates /\ next_exec_id' = next_exec_id
  BY DEF Settle, BulkErase, locals, EatenLevel
<1>2. /\ NodeMap(nodes) /\ IndexMap(index) /\ LevelMap(levels)
      /\ Indexed(nodes, index) /\ Linked(nodes, levels)
  BY DEF IndInv, BookOK
<1>3. /\ taker \in OrderState /\ taker.symbol \in BookSymbols
      /\ KeyOf(taker) \notin DOMAIN index
  BY <1>1 DEF IndInv, TakerInScope
<1>4. \A k \in S : k \in DOMAIN levels => levels[k].orders = << >>
  BY <1>1 DEF IndInv, EmptiedLevels
<1>5. \A k \in DOMAIN levels : levels[k].orders = << >> => k \in S
  BY DEF IndInv, EmptiedLevels
<1> HIDE DEF S
<1>6. /\ LevelMap(lv) /\ Linked(nodes, lv) /\ DOMAIN lv = DOMAIN levels \ S
      /\ \A k \in DOMAIN lv : lv[k] = levels[k]
  <2>1. LevelMap(lv) /\ Linked(nodes, lv)
    BY <1>2, <1>4, LinkedBulkErase
  <2>2. DOMAIN lv = DOMAIN levels \ S /\ \A k \in DOMAIN lv : lv[k] = levels[k]
    BY DEF Without, Restrict
  <2>3. QED
    BY <2>1, <2>2
<1> HIDE DEF lv
<1>7. \A k \in DOMAIN lv : lv[k].orders # << >>
  BY <1>5, <1>6
<1>8. /\ BookOK' /\ earlier' \subseteq Key \X Key
      /\ \A k \in DOMAIN levels' : levels'[k].orders # << >>
  <2>1. CASE ~ShouldPlace
    <3>1. nodes' = nodes /\ index' = index /\ levels' = lv /\ earlier' = earlier
      BY <1>1, <2>1 DEF PlaceResidual
    <3>2. QED
      BY <1>2, <1>6, <1>7, <3>1 DEF BookOK, IndInv, HistoryOK
  <2>2. CASE ShouldPlace
    <3>1. PICK n \in NodeIds \ DOMAIN nodes :
            /\ nodes' = Assign(nodes, n, taker)
            /\ levels' = place(lv, n, taker)
            /\ index' = Emplace(index, KeyOf(taker), n)
      BY <1>1, <2>2 DEF PlaceResidual
    <3>2. NodeMap(nodes') /\ IndexMap(index') /\ Indexed(nodes', index')
      BY <1>2, <1>3, <3>1, IndexedInsert
    <3>3. /\ LevelMap(levels') /\ Linked(nodes', levels')
          /\ \A k \in DOMAIN levels' : levels'[k].orders # << >>
      BY <1>2, <1>3, <1>6, <1>7, <3>1, LinkedInsert
    <3>4. earlier' = earlier \cup {<<k, KeyOf(taker)>> : k \in DOMAIN index}
      BY <1>1, <2>2 DEF PlaceResidual
    <3>5. KeyOf(taker) \in Key /\ DOMAIN index \subseteq Key
      BY <1>2, <1>3 DEF IndexMap, OrderState, KeyOf, Key
    <3>6. earlier' \subseteq Key \X Key
      <4>1. \A k \in DOMAIN index : <<k, KeyOf(taker)>> \in Key \X Key
        BY <3>5
      <4>2. earlier \subseteq Key \X Key
        BY DEF IndInv, HistoryOK
      <4> QED
        BY <3>4, <4>1, <4>2
    <3>7. QED
      BY <3>2, <3>3, <3>6 DEF BookOK
  <2>3. QED
    BY <2>1, <2>2
<1>9. /\ taker.side \in Side /\ Opposite(taker.side) \in Side
      /\ taker.security_id \in SecurityIds
      /\ taker.order_qty \in Quantity /\ taker.leaves_qty \in Quantity
  BY <1>3 DEF OrderState, Opposite, Side
<1>10. ClosingUpdates \in Seq(Event)
  <2> DEFINE u1 == UpdateIf(last_traded # None, levels', taker.symbol,
                            Opposite(taker.side), taker.security_id)
             u2 == UpdateIf(ShouldPlace /\ best(levels', taker.symbol, taker.side) = taker.price,
                            levels', taker.symbol, taker.side, taker.security_id)
  <2>1. LevelMap(levels')
    BY <1>8 DEF BookOK
  <2>2. u1 \in Seq(Event)
    BY <1>9, <2>1, UpdateType
  <2>3. u2 \in Seq(Event)
    BY <1>9, <2>1, UpdateType
  <2>4. ClosingUpdates = u1 \o u2
    BY DEF ClosingUpdates
  <2> HIDE DEF u1, u2
  <2>5. QED
    BY <2>2, <2>3, <2>4, ConcatProperties
<1>11. last_traded # None => TradeEvents \in Seq(Event)
  <2> SUFFICES ASSUME last_traded # None PROVE TradeEvents \in Seq(Event)
    OBVIOUS
  <2> DEFINE filled == Minus(taker.order_qty, taker.leaves_qty, QtyMod)
             status == IF taker.leaves_qty = 0 THEN "filled" ELSE "partially_filled"
             summary == [type |-> "execution_summary", security_id |-> taker.security_id,
                         aggressor_side |-> taker.side, last_px |-> last_traded,
                         fill_qty |-> filled]
             report == emit_execution_report(taker, next_exec_id, "trade", status, None,
                                             filled, last_traded)
  <2>1. last_traded \in Price
    BY DEF IndInv, LocalsOK
  <2>2. filled \in Quantity
    BY <1>9, MinusType, WidthAssumption DEF Quantity
  <2>3. status \in {"new_order", "filled", "partially_filled", "canceled"}
    OBVIOUS
  <2>4. TradeEvents = <<summary, report>>
    BY DEF TradeEvents
  <2> HIDE DEF filled, status
  <2>5. summary \in Event
    <3>1. summary \in ExecutionSummary
      BY <1>9, <2>1, <2>2 DEF ExecutionSummary
    <3>2. QED
      BY <3>1 DEF Event
  <2>6. report \in Event
    BY <1>3, <2>1, <2>2, <2>3, ReportType DEF IndInv, CountersOK
  <2> HIDE DEF summary, report
  <2>7. QED
    BY <2>4, <2>5, <2>6
<1>12. events \in Seq(Event)
  BY DEF IndInv, LocalsOK
<1> HIDE DEF lv
<1>13. events' \in Seq(Event)
  <2>1. CASE events' = events \o ClosingUpdates
    BY <1>10, <1>12, <2>1, ConcatProperties
  <2>2. CASE last_traded # None /\ events' = (events \o TradeEvents) \o ClosingUpdates
    <3>1. events \o TradeEvents \in Seq(Event)
      BY <1>11, <1>12, <2>2, ConcatProperties
    <3>2. QED
      BY <1>10, <2>2, <3>1, ConcatProperties
  <2>3. QED
    BY <1>1, <2>1, <2>2
<1>14. CountersOK'
  BY <1>1, IncType, WidthAssumption DEF IndInv, CountersOK, Id
<1>15. LocalsOK' /\ HistoryOK'
  BY <1>1, <1>8, <1>13 DEF IndInv, LocalsOK, HistoryOK
<1>16. TakerInScope' /\ EmptiedLevels'
  BY <1>1, <1>8 DEF TakerInScope, EmptiedLevels
<1>17. QED
  BY <1>8, <1>14, <1>15, <1>16 DEF IndInv

\* The end of a handler.
LEMMA ReturnInv ==
  ASSUME IndInv, Return
  PROVE  IndInv'
<1>1. /\ pc = "done" /\ pc' = "idle"
      /\ request' = None /\ taker' = None /\ consumed' = {} /\ last_traded' = None
      /\ events' = << >> /\ view' = Apply(view, events)
      /\ flushed' \subseteq DOMAIN view
      /\ nodes' = nodes /\ index' = index /\ levels' = levels
      /\ next_exec_id' = next_exec_id /\ next_trade_id' = next_trade_id
      /\ earlier' = earlier
  BY DEF Return, book
<1>2. view' \in [SecurityIds \X Side -> LevelSnapshot \cup {None}]
  BY <1>1, ApplyType DEF IndInv, HistoryOK, LocalsOK
<1>3. DOMAIN view = SecurityIds \X Side
  BY DEF IndInv, HistoryOK
<1>4. BookOK' /\ CountersOK' /\ LocalsOK'
  BY <1>1 DEF IndInv, BookOK, CountersOK, LocalsOK
<1>5. HistoryOK'
  BY <1>1, <1>2, <1>3 DEF IndInv, HistoryOK
<1>6. TakerInScope' /\ EmptiedLevels'
  BY <1>1, NoEmptyLevel DEF TakerInScope, EmptiedLevels
<1>7. QED
  BY <1>4, <1>5, <1>6 DEF IndInv

\* Every step of every handler preserves the invariant.
LEMMA NextInv == IndInv /\ [Next]_vars => IndInv'
<1> SUFFICES ASSUME IndInv, [Next]_vars PROVE IndInv'
  OBVIOUS
<1>1. ASSUME NEW r \in Requests, Send(r)
      PROVE  IndInv'
  <2>1. CASE RejectNewOrder(r) \/ AcceptNewOrder(r)
    BY <2>1, NewOrderInv
  <2>2. CASE CancelMiss(r) \/ Cancel(r)
    BY <2>2, CancelInv
  <2>3. CASE RejectReplace(r) \/ AcceptReplace(r)
    BY <2>3, ReplaceInv
  <2>4. CASE HandleFlush(r)
    BY <2>4, FlushInv
  <2>5. QED
    BY <1>1, <2>1, <2>2, <2>3, <2>4 DEF Send
<1>2. CASE Fill
  BY <1>2, FillInv
<1>3. CASE Settle
  BY <1>3, SettleInv
<1>4. CASE Return
  BY <1>4, ReturnInv
<1>5. CASE UNCHANGED vars
  <2>1. BookOK' /\ CountersOK' /\ LocalsOK' /\ HistoryOK'
    BY <1>5 DEF vars, IndInv, BookOK, CountersOK, LocalsOK, HistoryOK
  <2>2. TakerInScope' /\ EmptiedLevels'
    BY <1>5 DEF vars, IndInv, TakerInScope, EmptiedLevels, EatenLevel
  <2>3. QED
    BY <2>1, <2>2 DEF IndInv
<1>6. QED
  BY <1>1, <1>2, <1>3, <1>4, <1>5 DEF Next

-----------------------------------------------------------------------------
(* The theorems *)

\* The inductive invariant holds in every reachable state.
THEOREM Invariance == Spec => []IndInv
BY InitInv, NextInv, PTL DEF Spec

\* Every variable of the engine keeps its type, for every set of requests:
\* no handler reads a local that is not in scope, indexes a map by a key that
\* is not there, or emits a malformed event.
THEOREM TypeCorrect == Spec => []TypeOK
BY Invariance, IndInvImplies, PTL

\* resting_index_, node_pool_ and books_ describe the same orders, each order
\* once, under its own key and at its own level, at every step of every handler.
THEOREM OwnershipHolds == Spec => []Ownership
BY Invariance, IndInvImplies, PTL


=============================================================================
