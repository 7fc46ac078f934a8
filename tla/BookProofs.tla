------------------------------ MODULE BookProofs ------------------------------
(***************************************************************************)
(* What the books of MatchingEngine hold, for every set of requests, every *)
(* width of the integers and every number of books and pool slots: at rest *)
(* no book is crossed, every level is in order of arrival, and its total   *)
(* is the sum of its orders; and, from that, that MatchingEngine           *)
(* implements PriceTimePriority.                                           *)
(***************************************************************************)
EXTENDS MatchingEngineProofs

-----------------------------------------------------------------------------
(* The books as constants *)

\* No bid at or above an ask, and no level of the market sentinel.
Uncrossed(lv) ==
  /\ \A b, a \in DOMAIN lv :
       b[1] = a[1] /\ b[2] = "buy" /\ a[2] = "sell" => b[3] < a[3]
  /\ \A k \in DOMAIN lv : k[3] # 0

\* No order without remaining quantity.
Live(nd) == \A n \in DOMAIN nd : nd[n].leaves_qty > 0

\* The FIFO of a level is in the order of er.
InOrder(nd, fifo, er) ==
  \A i, j \in DOMAIN fifo :
    i < j => <<KeyOf(nd[fifo[i]]), KeyOf(nd[fifo[j]])>> \in er

Ordered(nd, lv, er) == \A k \in DOMAIN lv : InOrder(nd, lv[k].orders, er)

\* sums[i] is the wrapped sum of the first i orders, and the last is the total.
SumsTo(nd, fifo, sums, total) ==
  /\ sums \in [0 .. Len(fifo) -> Quantity]
  /\ sums[0] = 0
  /\ \A i \in DOMAIN fifo :
       sums[i] = Plus(sums[i - 1], nd[fifo[i]].leaves_qty, QtyMod)
  /\ sums[Len(fifo)] = total

Summed(nd, lv) ==
  \A k \in DOMAIN lv :
    \E sums : SumsTo(nd, lv[k].orders, sums, lv[k].total_remaining)

\* The invariant of this module: it holds inside match() as well, where a taker
\* that crosses is not in the book.
Books(nd, lv, er) ==
  /\ Uncrossed(lv)
  /\ Live(nd)
  /\ Ordered(nd, lv, er)
  /\ Summed(nd, lv)

BookInv == Books(nodes, levels, earlier)

\* With the invariant of MatchingEngineProofs it contains the properties.
LEMMA BookInvImplies == IndInv /\ BookInv => BookAtRest /\ ArrivalOrder /\ LevelTotals
<1> SUFFICES ASSUME IndInv, BookInv PROVE BookAtRest /\ ArrivalOrder /\ LevelTotals
  OBVIOUS
<1>1. BookAtRest
  BY NoEmptyLevel DEF BookInv, Books, Uncrossed, Live, BookAtRest
<1>2. ArrivalOrder
  BY DEF BookInv, Books, Ordered, InOrder, ArrivalOrder
<1>3. LevelTotals
  <2>1. SUFFICES ASSUME NEW k \in DOMAIN levels
                 PROVE  \E sums \in [0 .. Len(levels[k].orders) -> Quantity] :
                          /\ RunningSums(levels[k].orders, sums)
                          /\ sums[Len(levels[k].orders)] = levels[k].total_remaining
    BY DEF LevelTotals
  <2>2. PICK sums : SumsTo(nodes, levels[k].orders, sums, levels[k].total_remaining)
    BY DEF BookInv, Books, Summed
  <2>3. RunningSums(levels[k].orders, sums)
    BY <2>2 DEF SumsTo, RunningSums
  <2>4. QED
    BY <2>2, <2>3 DEF SumsTo
<1>4. QED
  BY <1>1, <1>2, <1>3

-----------------------------------------------------------------------------
(* Order and total of one FIFO *)

\* Sums and differences of quantities are quantities.
LEMMA WrapType ==
  ASSUME NEW a \in Quantity, NEW q \in Quantity
  PROVE  Plus(a, q, QtyMod) \in Quantity /\ Minus(a, q, QtyMod) \in Quantity
BY WidthAssumption DEF Plus, Minus, Quantity

\* Subtraction takes addition back, also when it has wrapped.
LEMMA WrapBack ==
  ASSUME NEW a \in Quantity, NEW q \in Quantity
  PROVE  Minus(Plus(a, q, QtyMod), q, QtyMod) = a
BY WidthAssumption DEF Plus, Minus, Quantity

\* It does not matter when a quantity is taken off,
LEMMA WrapCommute ==
  ASSUME NEW a \in Quantity, NEW b \in Quantity, NEW q \in Quantity
  PROVE  Minus(Plus(a, b, QtyMod), q, QtyMod) = Plus(Minus(a, q, QtyMod), b, QtyMod)
BY WidthAssumption DEF Plus, Minus, Quantity

\* nor from which of the two.
LEMMA WrapLess ==
  ASSUME NEW a \in Quantity, NEW b \in Quantity, NEW q \in Quantity, q <= b
  PROVE  Minus(Plus(a, b, QtyMod), q, QtyMod) = Plus(a, b - q, QtyMod)
BY WidthAssumption DEF Plus, Minus, Quantity

\* Without one of its elements a FIFO is still in order.
LEMMA DropInOrder ==
  ASSUME NEW nd, NEW S, NEW fifo \in Seq(S), NEW er, InOrder(nd, fifo, er),
         NEW i \in 1 .. Len(fifo), NEW u, Dropped(fifo, i, u)
  PROVE  InOrder(nd, u, er)
<1> SUFFICES ASSUME NEW x \in DOMAIN u, NEW y \in DOMAIN u, x < y
             PROVE  <<KeyOf(nd[u[x]]), KeyOf(nd[u[y]])>> \in er
  BY DEF InOrder
<1>1. Len(fifo) \in Nat /\ DOMAIN fifo = 1 .. Len(fifo)
  OBVIOUS
<1> DEFINE g(z) == IF z < i THEN z ELSE z + 1
<1>2. x \in 1 .. Len(fifo) - 1 /\ y \in 1 .. Len(fifo) - 1
  BY DEF Dropped
<1>3. u[x] = fifo[g(x)] /\ u[y] = fifo[g(y)]
  <2>1. \A z \in 1 .. Len(fifo) - 1 : z < i => z \in 1 .. i - 1
    BY <1>1
  <2>2. \A z \in 1 .. Len(fifo) - 1 : ~(z < i) => z \in i .. Len(fifo) - 1
    BY <1>1
  <2>3. QED
    BY <1>2, <2>1, <2>2 DEF Dropped
<1>4. g(x) \in DOMAIN fifo /\ g(y) \in DOMAIN fifo /\ g(x) < g(y)
  BY <1>1, <1>2
<1> HIDE DEF g
<1>5. QED
  BY <1>3, <1>4 DEF InOrder

\* Without one of its elements the sums are smaller by its quantity.
LEMMA DropSums ==
  ASSUME NEW nd, NEW S, NEW fifo \in Seq(S),
         \A j \in DOMAIN fifo : nd[fifo[j]].leaves_qty \in Quantity,
         NEW sums, NEW total, SumsTo(nd, fifo, sums, total),
         NEW i \in 1 .. Len(fifo), NEW u \in Seq(S), Dropped(fifo, i, u)
  PROVE  \E sums2 : SumsTo(nd, u, sums2, Minus(total, nd[fifo[i]].leaves_qty, QtyMod))
<1> DEFINE L == Len(fifo)
           q == nd[fifo[i]].leaves_qty
           sums2 == [j \in 0 .. L - 1 |-> IF j < i THEN sums[j] ELSE Minus(sums[j + 1], q, QtyMod)]
<1>1. L \in Nat /\ DOMAIN fifo = 1 .. L /\ i \in 1 .. L
  OBVIOUS
<1>2. Len(u) = L - 1 /\ DOMAIN u = 1 .. L - 1
  <2>1. DOMAIN u = 1 .. L - 1 /\ DOMAIN u = 1 .. Len(u) /\ Len(u) \in Nat
    BY DEF Dropped
  <2>2. L - 1 \in Nat
    BY <1>1
  <2> HIDE DEF L
  <2>3. \A a, b \in Nat : a < b => b \in 1 .. b /\ b \notin 1 .. a
    OBVIOUS
  <2>4. Len(u) = L - 1
    BY <2>1, <2>2, <2>3
  <2>5. QED
    BY <2>1, <2>4
<1> HIDE DEF L
<1>3. q \in Quantity
  BY <1>1
<1>4. /\ \A j \in 0 .. L : sums[j] \in Quantity
      /\ sums[0] = 0 /\ sums[L] = total
      /\ \A j \in 1 .. L : sums[j] = Plus(sums[j - 1], nd[fifo[j]].leaves_qty, QtyMod)
  BY <1>1 DEF SumsTo, L
<1>5. sums[i] = Plus(sums[i - 1], q, QtyMod)
  BY <1>1, <1>4
<1> HIDE DEF q
<1>6. Minus(sums[i], q, QtyMod) = sums[i - 1]
  <2>1. i - 1 \in 0 .. L
    BY <1>1
  <2>2. QED
    BY <1>3, <1>4, <1>5, <2>1, WrapBack
<1>7. sums2 \in [0 .. L - 1 -> Quantity]
  <2>1. ASSUME NEW j \in 0 .. L - 1
        PROVE  sums[j] \in Quantity /\ Minus(sums[j + 1], q, QtyMod) \in Quantity
    <3>1. j \in 0 .. L /\ j + 1 \in 0 .. L
      BY <1>1
    <3>2. QED
      BY <1>3, <1>4, <3>1, WrapType
  <2>2. QED
    BY <2>1
<1>8. sums2[0] = 0 /\ sums2[L - 1] = Minus(total, q, QtyMod)
  <2>1. 0 \in 0 .. L - 1 /\ 0 < i /\ L - 1 \in 0 .. L - 1 /\ L - 1 + 1 = L
    BY <1>1
  <2>2. sums2[0] = 0
    BY <1>4, <2>1
  <2>3. CASE i = L
    BY <1>1, <1>4, <1>6, <2>1, <2>3
  <2>4. CASE i # L
    <3>1. ~(L - 1 < i)
      BY <1>1, <2>4
    <3>2. QED
      BY <1>4, <2>1, <2>2, <3>1
  <2>5. QED
    BY <2>2, <2>3, <2>4
<1>9. ASSUME NEW j \in 1 .. L - 1
      PROVE  sums2[j] = Plus(sums2[j - 1], nd[u[j]].leaves_qty, QtyMod)
  <2>0. j \in 0 .. L - 1 /\ j - 1 \in 0 .. L - 1 /\ j \in 1 .. L /\ j + 1 \in 1 .. L
        /\ j \in 0 .. L /\ (j + 1) - 1 = j /\ (j - 1) + 1 = j
    BY <1>1
  <2>1. CASE j < i
    <3>1. u[j] = fifo[j] /\ j - 1 < i
      BY <1>1, <2>0, <2>1 DEF Dropped, L
    <3>2. QED
      BY <1>4, <2>0, <2>1, <3>1
  <2>2. CASE ~(j < i)
    <3>1. u[j] = fifo[j + 1]
      <4>1. j \in i .. L - 1
        BY <1>1, <2>2
      <4>2. QED
        BY <4>1 DEF Dropped, L
    <3>2. nd[fifo[j + 1]].leaves_qty \in Quantity
      BY <1>1, <2>0
    <3>3. sums[j + 1] = Plus(sums[j], nd[fifo[j + 1]].leaves_qty, QtyMod)
      BY <1>4, <2>0
    <3>4. sums2[j] = Minus(sums[j + 1], q, QtyMod)
      BY <2>0, <2>2
    <3>5. sums2[j - 1] = Minus(sums[j], q, QtyMod)
      <4>1. CASE j = i
        BY <1>1, <1>6, <2>0, <4>1
      <4>2. CASE j # i
        <5>1. ~(j - 1 < i)
          BY <1>1, <2>0, <2>2, <4>2
        <5>2. QED
          BY <2>0, <5>1
      <4>3. QED
        BY <4>1, <4>2
    <3>6. sums[j] \in Quantity
      BY <1>4, <2>0
    <3>7. Minus(Plus(sums[j], nd[fifo[j + 1]].leaves_qty, QtyMod), q, QtyMod)
            = Plus(Minus(sums[j], q, QtyMod), nd[fifo[j + 1]].leaves_qty, QtyMod)
      BY <1>3, <3>2, <3>6, WrapCommute
    <3>8. QED
      BY <3>1, <3>3, <3>4, <3>5, <3>7
  <2>3. QED
    BY <2>1, <2>2
<1> HIDE DEF sums2
<1>10. SumsTo(nd, u, sums2, Minus(total, q, QtyMod))
  BY <1>2, <1>7, <1>8, <1>9 DEF SumsTo
<1>11. QED
  BY <1>10 DEF q

\* push_back of an order that came to rest after all the others.
LEMMA AppendInOrder ==
  ASSUME NEW nd, NEW nd2, NEW S, NEW fifo \in Seq(S), NEW n \in S, NEW er, NEW er2,
         InOrder(nd, fifo, er), er \subseteq er2,
         \A i \in DOMAIN fifo : /\ nd2[fifo[i]] = nd[fifo[i]]
                                /\ <<KeyOf(nd[fifo[i]]), KeyOf(nd2[n])>> \in er2
  PROVE  InOrder(nd2, Append(fifo, n), er2)
<1> DEFINE u == Append(fifo, n)
<1>1. /\ Len(fifo) \in Nat /\ DOMAIN fifo = 1 .. Len(fifo)
      /\ DOMAIN u = 1 .. Len(fifo) + 1 /\ u[Len(fifo) + 1] = n
      /\ \A j \in 1 .. Len(fifo) : u[j] = fifo[j]
  OBVIOUS
<1> HIDE DEF u
<1>2. SUFFICES ASSUME NEW x \in DOMAIN u, NEW y \in DOMAIN u, x < y
               PROVE  <<KeyOf(nd2[u[x]]), KeyOf(nd2[u[y]])>> \in er2
  BY DEF InOrder, u
<1>3. x \in DOMAIN fifo
  BY <1>1, <1>2
<1>4. CASE y \in DOMAIN fifo
  BY <1>1, <1>2, <1>3, <1>4 DEF InOrder
<1>5. CASE y \notin DOMAIN fifo
  <2>1. y = Len(fifo) + 1
    BY <1>1, <1>2, <1>5
  <2>2. u[x] = fifo[x] /\ u[y] = n
    BY <1>1, <1>3, <2>1
  <2>3. QED
    BY <1>3, <2>2
<1>6. QED
  BY <1>4, <1>5

\* It adds its quantity to the total.
LEMMA AppendSums ==
  ASSUME NEW nd, NEW nd2, NEW S, NEW fifo \in Seq(S), NEW n \in S, NEW sums, NEW total,
         SumsTo(nd, fifo, sums, total), nd2[n].leaves_qty \in Quantity,
         \A i \in DOMAIN fifo : nd2[fifo[i]] = nd[fifo[i]]
  PROVE  \E sums2 : SumsTo(nd2, Append(fifo, n), sums2, Plus(total, nd2[n].leaves_qty, QtyMod))
<1> DEFINE u == Append(fifo, n)
           L == Len(fifo)
           new == Plus(total, nd2[n].leaves_qty, QtyMod)
           sums2 == [j \in 0 .. L + 1 |-> IF j <= L THEN sums[j] ELSE new]
<1>1. /\ L \in Nat /\ DOMAIN fifo = 1 .. L /\ Len(u) = L + 1
      /\ DOMAIN u = 1 .. L + 1 /\ u[L + 1] = n /\ \A j \in 1 .. L : u[j] = fifo[j]
  OBVIOUS
<1>2. /\ \A j \in 0 .. L : sums[j] \in Quantity
      /\ sums[0] = 0 /\ sums[L] = total
      /\ \A j \in 1 .. L : sums[j] = Plus(sums[j - 1], nd[fifo[j]].leaves_qty, QtyMod)
  BY <1>1 DEF SumsTo
<1> HIDE DEF L, u
<1>3. new \in Quantity
  <2>1. total \in Quantity
    BY <1>1, <1>2
  <2>2. QED
    BY <2>1, WrapType
<1>4. sums2 \in [0 .. L + 1 -> Quantity]
  BY <1>1, <1>2, <1>3
<1>5. sums2[0] = 0 /\ sums2[L + 1] = new
  BY <1>1, <1>2
<1>6. ASSUME NEW j \in 1 .. L + 1
      PROVE  sums2[j] = Plus(sums2[j - 1], nd2[u[j]].leaves_qty, QtyMod)
  <2>1. CASE j = L + 1
    <3>1. sums2[j] = new /\ sums2[j - 1] = total /\ u[j] = n
      BY <1>1, <1>2, <2>1
    <3>2. QED
      BY <3>1
  <2>2. CASE j # L + 1
    <3>1. j \in 1 .. L /\ j \in 0 .. L + 1 /\ j - 1 \in 0 .. L + 1 /\ j <= L /\ j - 1 <= L
      BY <1>1, <2>2
    <3>2. sums2[j] = sums[j] /\ sums2[j - 1] = sums[j - 1] /\ nd2[u[j]] = nd[fifo[j]]
      BY <1>1, <3>1
    <3>3. QED
      BY <1>2, <3>1, <3>2
  <2>3. QED
    BY <2>1, <2>2
<1> HIDE DEF sums2
<1>7. SumsTo(nd2, u, sums2, new)
  BY <1>1, <1>4, <1>5, <1>6 DEF SumsTo
<1>8. QED
  BY <1>7 DEF u

\* A partial fill of the first order takes as much off the total.
LEMMA ShrinkSums ==
  ASSUME NEW nd, NEW nd2, NEW S, NEW fifo \in Seq(S), fifo # << >>, Distinct(fifo),
         \A j \in DOMAIN fifo : nd[fifo[j]].leaves_qty \in Quantity,
         NEW sums, NEW total, SumsTo(nd, fifo, sums, total),
         NEW q \in Quantity, q <= nd[Head(fifo)].leaves_qty,
         nd2[Head(fifo)].leaves_qty = nd[Head(fifo)].leaves_qty - q,
         \A j \in DOMAIN fifo : fifo[j] # Head(fifo) => nd2[fifo[j]] = nd[fifo[j]]
  PROVE  \E sums2 : SumsTo(nd2, fifo, sums2, Minus(total, q, QtyMod))
<1> DEFINE L == Len(fifo)
           sums2 == [j \in 0 .. L |-> IF j = 0 THEN 0 ELSE Minus(sums[j], q, QtyMod)]
<1>1. L \in Nat \ {0} /\ DOMAIN fifo = 1 .. L /\ Head(fifo) = fifo[1]
  OBVIOUS
<1>2. /\ \A j \in 0 .. L : sums[j] \in Quantity
      /\ sums[0] = 0 /\ sums[L] = total
      /\ \A j \in 1 .. L : sums[j] = Plus(sums[j - 1], nd[fifo[j]].leaves_qty, QtyMod)
  BY <1>1 DEF SumsTo
<1> HIDE DEF L
<1>3. 0 \in Quantity
  BY WidthAssumption DEF Quantity
<1>4. sums2 \in [0 .. L -> Quantity]
  <2>1. \A j \in 0 .. L : Minus(sums[j], q, QtyMod) \in Quantity
    BY <1>2, WrapType
  <2>2. QED
    BY <1>3, <2>1
<1>5. sums2[0] = 0 /\ sums2[L] = Minus(total, q, QtyMod)
  BY <1>1, <1>2
<1>6. ASSUME NEW j \in 1 .. L
      PROVE  sums2[j] = Plus(sums2[j - 1], nd2[fifo[j]].leaves_qty, QtyMod)
  <2>1. /\ j \in 0 .. L /\ j - 1 \in 0 .. L /\ j # 0
        /\ nd[fifo[j]].leaves_qty \in Quantity /\ sums[j - 1] \in Quantity
    BY <1>1, <1>2
  <2>2. sums2[j] = Minus(Plus(sums[j - 1], nd[fifo[j]].leaves_qty, QtyMod), q, QtyMod)
    BY <1>2, <2>1
  <2>3. CASE j = 1
    <3>1. sums2[j - 1] = 0 /\ sums[j - 1] = 0 /\ fifo[j] = Head(fifo)
      BY <1>1, <1>2, <2>3
    <3>2. q <= nd[fifo[j]].leaves_qty /\ nd2[fifo[j]].leaves_qty = nd[fifo[j]].leaves_qty - q
      BY <3>1
    <3>3. Minus(Plus(0, nd[fifo[j]].leaves_qty, QtyMod), q, QtyMod)
            = Plus(0, nd[fifo[j]].leaves_qty - q, QtyMod)
      BY <1>3, <2>1, <3>2, WrapLess
    <3>4. QED
      BY <2>2, <3>1, <3>2, <3>3
  <2>4. CASE j # 1
    <3>1. fifo[j] # Head(fifo)
      BY <1>1, <2>4 DEF Distinct
    <3>2. nd2[fifo[j]] = nd[fifo[j]]
      BY <1>1, <3>1
    <3>3. j - 1 # 0
      BY <1>1, <2>4
    <3>4. sums2[j - 1] = Minus(sums[j - 1], q, QtyMod)
      BY <2>1, <3>3
    <3>5. Minus(Plus(sums[j - 1], nd[fifo[j]].leaves_qty, QtyMod), q, QtyMod)
            = Plus(Minus(sums[j - 1], q, QtyMod), nd[fifo[j]].leaves_qty, QtyMod)
      BY <2>1, WrapCommute
    <3>6. QED
      BY <2>2, <3>2, <3>4, <3>5
  <2>5. QED
    BY <2>3, <2>4
<1> HIDE DEF sums2
<1>7. SumsTo(nd2, fifo, sums2, Minus(total, q, QtyMod))
  BY <1>1, <1>4, <1>5, <1>6 DEF SumsTo, L
<1>8. QED
  BY <1>7

-----------------------------------------------------------------------------
(* The steps of the books *)

\* Quantities of the orders of a level.
LEMMA LevelQuantities ==
  ASSUME NEW nd, NodeMap(nd), NEW lv, Linked(nd, lv), NEW k \in DOMAIN lv
  PROVE  \A j \in DOMAIN lv[k].orders :
           /\ lv[k].orders[j] \in DOMAIN nd
           /\ LevelOf(nd[lv[k].orders[j]]) = k
           /\ nd[lv[k].orders[j]].leaves_qty \in Quantity
<1> SUFFICES ASSUME NEW j \in DOMAIN lv[k].orders
             PROVE  /\ lv[k].orders[j] \in DOMAIN nd
                    /\ LevelOf(nd[lv[k].orders[j]]) = k
                    /\ nd[lv[k].orders[j]].leaves_qty \in Quantity
  OBVIOUS
<1>1. Holds(lv[k].orders, lv[k].orders[j])
  BY DEF Holds
<1>2. lv[k].orders[j] \in DOMAIN nd /\ LevelOf(nd[lv[k].orders[j]]) = k
  BY <1>1 DEF Linked
<1>3. nd[lv[k].orders[j]] \in OrderState
  BY <1>2 DEF NodeMap
<1>4. QED
  BY <1>2, <1>3 DEF OrderState

\* Levels that do not change, and whose orders do not, stay ordered and summed.
LEMMA SameLevel ==
  ASSUME NEW nd, NEW nd2, NEW fifo, NEW total, NEW er, NEW er2,
         \A j \in DOMAIN fifo : /\ nd2[fifo[j]].leaves_qty = nd[fifo[j]].leaves_qty
                                /\ KeyOf(nd2[fifo[j]]) = KeyOf(nd[fifo[j]]),
         \A i, j \in DOMAIN fifo :
           <<KeyOf(nd[fifo[i]]), KeyOf(nd[fifo[j]])>> \in er
             => <<KeyOf(nd[fifo[i]]), KeyOf(nd[fifo[j]])>> \in er2
  PROVE  /\ InOrder(nd, fifo, er) => InOrder(nd2, fifo, er2)
         /\ (\E sums : SumsTo(nd, fifo, sums, total))
              => \E sums : SumsTo(nd2, fifo, sums, total)
<1>1. InOrder(nd, fifo, er) => InOrder(nd2, fifo, er2)
  BY DEF InOrder
<1>2. ASSUME NEW sums, SumsTo(nd, fifo, sums, total)
      PROVE  SumsTo(nd2, fifo, sums, total)
  BY <1>2 DEF SumsTo
<1>3. QED
  BY <1>1, <1>2

\* The history without an order.
Forget(er, key) == {pair \in er : pair[1] # key /\ pair[2] # key}

\* Removing an order, by a cancel, a replace or a fill, whether its level goes
\* with it or not.
LEMMA EraseBook ==
  ASSUME NEW nd, NodeMap(nd), NEW ix, Indexed(nd, ix), NEW lv, LevelMap(lv),
         Linked(nd, lv), NEW er, Books(nd, lv, er), NEW n \in DOMAIN nd,
         NEW i \in 1 .. Len(lv[LevelOf(nd[n])].orders), lv[LevelOf(nd[n])].orders[i] = n,
         NEW rest \in Seq(NodeIds), Dropped(lv[LevelOf(nd[n])].orders, i, rest),
         NEW lv2, DOMAIN lv2 \subseteq DOMAIN lv,
         \A x \in DOMAIN lv2 : x # LevelOf(nd[n]) => lv2[x] = lv[x],
         LevelOf(nd[n]) \in DOMAIN lv2 =>
           /\ lv2[LevelOf(nd[n])].orders = rest
           /\ lv2[LevelOf(nd[n])].total_remaining
                = Minus(lv[LevelOf(nd[n])].total_remaining, nd[n].leaves_qty, QtyMod)
  PROVE  Books(Without(nd, {n}), lv2, Forget(er, KeyOf(nd[n])))
<1> DEFINE k == LevelOf(nd[n])
           nd2 == Without(nd, {n})
           er2 == Forget(er, KeyOf(nd[n]))
           fifo == lv[k].orders
<1>1. DOMAIN nd2 = DOMAIN nd \ {n} /\ \A m \in DOMAIN nd : m # n => nd2[m] = nd[m]
  BY DEF NodeMap, Without, Restrict
<1>2. k \in DOMAIN lv /\ fifo \in Seq(NodeIds) /\ Distinct(fifo)
  BY LevelOfNode
<1>3. /\ \A j \in DOMAIN fifo : nd[fifo[j]].leaves_qty \in Quantity
      /\ DOMAIN fifo = 1 .. Len(fifo) /\ Len(fifo) \in Nat
  BY <1>2, LevelQuantities
<1>4. \A m \in DOMAIN nd : m # n => KeyOf(nd[m]) # KeyOf(nd[n])
  BY DEF Indexed
<1>5. i \in 1 .. Len(fifo) /\ fifo[i] = n /\ Dropped(fifo, i, rest)
  OBVIOUS
<1>6. InOrder(nd, fifo, er) /\ \E sums : SumsTo(nd, fifo, sums, lv[k].total_remaining)
  BY <1>2 DEF Books, Ordered, Summed
<1>7. Uncrossed(lv2)
  BY DEF Books, Uncrossed
<1>8. Live(nd2)
  BY <1>1 DEF Books, Live
<1> HIDE DEF nd2, er2
<1>9. ASSUME NEW seq, \A j \in DOMAIN seq : seq[j] \in DOMAIN nd /\ seq[j] # n, NEW total
      PROVE  /\ InOrder(nd, seq, er) => InOrder(nd2, seq, er2)
             /\ (\E sums : SumsTo(nd, seq, sums, total))
                  => \E sums : SumsTo(nd2, seq, sums, total)
  <2>1. \A j \in DOMAIN seq : /\ nd2[seq[j]].leaves_qty = nd[seq[j]].leaves_qty
                              /\ KeyOf(nd2[seq[j]]) = KeyOf(nd[seq[j]])
                              /\ KeyOf(nd[seq[j]]) # KeyOf(nd[n])
    BY <1>1, <1>4, <1>9
  <2>2. \A a, b : <<a, b>> \in er /\ a # KeyOf(nd[n]) /\ b # KeyOf(nd[n]) => <<a, b>> \in er2
    BY DEF er2, Forget
  <2>3. \A x, y \in DOMAIN seq :
          <<KeyOf(nd[seq[x]]), KeyOf(nd[seq[y]])>> \in er
            => <<KeyOf(nd[seq[x]]), KeyOf(nd[seq[y]])>> \in er2
    BY <2>1, <2>2
  <2>4. QED
    BY <2>1, <2>3, SameLevel
<1>10. ASSUME NEW x \in DOMAIN lv2, x # k
       PROVE  /\ InOrder(nd2, lv2[x].orders, er2)
              /\ \E sums : SumsTo(nd2, lv2[x].orders, sums, lv2[x].total_remaining)
  <2>1. x \in DOMAIN lv /\ lv2[x] = lv[x]
    BY <1>10
  <2>2. \A j \in DOMAIN lv[x].orders :
          lv[x].orders[j] \in DOMAIN nd /\ LevelOf(nd[lv[x].orders[j]]) = x
    BY <2>1, LevelQuantities
  <2>3. \A j \in DOMAIN lv[x].orders :
          lv[x].orders[j] \in DOMAIN nd /\ lv[x].orders[j] # n
    BY <1>10, <2>2
  <2>4. InOrder(nd, lv[x].orders, er)
        /\ \E sums : SumsTo(nd, lv[x].orders, sums, lv[x].total_remaining)
    BY <2>1 DEF Books, Ordered, Summed
  <2>5. QED
    BY <1>9, <2>1, <2>3, <2>4
<1>11. ASSUME k \in DOMAIN lv2
       PROVE  /\ InOrder(nd2, lv2[k].orders, er2)
              /\ \E sums : SumsTo(nd2, lv2[k].orders, sums, lv2[k].total_remaining)
  <2> DEFINE total == Minus(lv[k].total_remaining, nd[n].leaves_qty, QtyMod)
  <2>1. lv2[k].orders = rest /\ lv2[k].total_remaining = total
    BY <1>11
  <2> HIDE DEF fifo
  <2>2. InOrder(nd, rest, er)
    BY <1>2, <1>5, <1>6, DropInOrder
  <2>3. \E sums : SumsTo(nd, rest, sums, total)
    <3>1. PICK sums : SumsTo(nd, fifo, sums, lv[k].total_remaining)
      BY <1>6
    <3>2. \E sums2 : SumsTo(nd, rest, sums2,
                       Minus(lv[k].total_remaining, nd[fifo[i]].leaves_qty, QtyMod))
      BY <1>2, <1>3, <1>5, <3>1, DropSums
    <3>3. QED
      BY <1>5, <3>2
  <2>4. \A j \in DOMAIN rest : rest[j] \in DOMAIN nd /\ rest[j] # n
    <3>1. \A z \in DOMAIN fifo : fifo[z] \in DOMAIN nd
      BY <1>2, LevelQuantities DEF fifo
    <3>2. ASSUME NEW j \in DOMAIN rest
          PROVE  \E z \in DOMAIN fifo : z # i /\ rest[j] = fifo[z]
      <4>1. j \in 1 .. Len(fifo) - 1
        BY <1>5 DEF Dropped
      <4>2. CASE j < i
        <5>1. j \in 1 .. i - 1 /\ j \in DOMAIN fifo /\ j # i
          BY <1>3, <4>1, <4>2
        <5>2. QED
          BY <1>5, <5>1 DEF Dropped
      <4>3. CASE ~(j < i)
        <5>1. j \in i .. Len(fifo) - 1 /\ j + 1 \in DOMAIN fifo /\ j + 1 # i
          BY <1>3, <4>1, <4>3
        <5>2. QED
          BY <1>5, <5>1 DEF Dropped
      <4>4. QED
        BY <4>2, <4>3
    <3>3. QED
      BY <1>2, <1>3, <1>5, <3>1, <3>2 DEF Distinct
  <2>5. QED
    BY <1>9, <2>1, <2>2, <2>3, <2>4
<1>12. Ordered(nd2, lv2, er2) /\ Summed(nd2, lv2)
  BY <1>10, <1>11 DEF Ordered, Summed
<1>13. QED
  BY <1>7, <1>8, <1>12 DEF Books, nd2, er2

\* A partial fill of the first order of a level.
LEMMA ShrinkBook ==
  ASSUME NEW nd, NodeMap(nd), NEW lv, LevelMap(lv), Linked(nd, lv),
         NEW er, Books(nd, lv, er), NEW n \in DOMAIN nd,
         lv[LevelOf(nd[n])].orders # << >>, Head(lv[LevelOf(nd[n])].orders) = n,
         NEW q \in Quantity, q < nd[n].leaves_qty,
         NEW order, KeyOf(order) = KeyOf(nd[n]),
         order.leaves_qty = nd[n].leaves_qty - q
  PROVE  LET k == LevelOf(nd[n])
         IN Books(Assign(nd, n, order),
                  Assign(lv, k, [orders |-> lv[k].orders,
                                 total_remaining |-> Minus(lv[k].total_remaining, q, QtyMod)]),
                  er)
<1> DEFINE k == LevelOf(nd[n])
           fifo == lv[k].orders
           total == Minus(lv[k].total_remaining, q, QtyMod)
           nd2 == Assign(nd, n, order)
           lv2 == Assign(lv, k, [orders |-> fifo, total_remaining |-> total])
<1>1. DOMAIN nd2 = DOMAIN nd /\ nd2[n] = order /\ \A m \in DOMAIN nd : m # n => nd2[m] = nd[m]
  BY DEF Assign
<1>2. k \in DOMAIN lv /\ fifo \in Seq(NodeIds) /\ Distinct(fifo)
  BY LevelOfNode
<1>3. \A j \in DOMAIN fifo : nd[fifo[j]].leaves_qty \in Quantity /\ fifo[j] \in DOMAIN nd
  BY <1>2, LevelQuantities
<1>4. fifo # << >> /\ Head(fifo) = n
  OBVIOUS
<1>5. nd[n].leaves_qty \in Quantity
  <2>1. nd[n] \in OrderState
    BY DEF NodeMap
  <2>2. QED
    BY <2>1 DEF OrderState
<1> HIDE DEF nd2, fifo, total
<1>6. /\ DOMAIN lv2 = DOMAIN lv /\ lv2[k].orders = fifo /\ lv2[k].total_remaining = total
      /\ \A x \in DOMAIN lv : x # k => lv2[x] = lv[x]
  BY <1>2 DEF Assign
<1> HIDE DEF lv2
<1>7. Uncrossed(lv2)
  BY <1>6 DEF Books, Uncrossed
<1>8. Live(nd2)
  <2>1. order.leaves_qty > 0
    BY <1>5 DEF Quantity
  <2>2. QED
    BY <1>1, <2>1 DEF Books, Live
<1>9. \A m \in DOMAIN nd : KeyOf(nd2[m]) = KeyOf(nd[m])
  BY <1>1
<1>10. Ordered(nd2, lv2, er)
  <2>1. ASSUME NEW x \in DOMAIN lv
        PROVE  InOrder(nd2, lv2[x].orders, er)
    <3>1. lv2[x].orders = lv[x].orders
      BY <1>6 DEF fifo
    <3>2. InOrder(nd, lv[x].orders, er)
      BY DEF Books, Ordered
    <3>3. \A j \in DOMAIN lv[x].orders : lv[x].orders[j] \in DOMAIN nd
      BY LevelQuantities
    <3>4. QED
      BY <1>9, <3>1, <3>2, <3>3 DEF InOrder
  <2>2. QED
    BY <1>6, <2>1 DEF Ordered
<1>11. ASSUME NEW x \in DOMAIN lv, x # k
       PROVE  \E sums : SumsTo(nd2, lv2[x].orders, sums, lv2[x].total_remaining)
  <2>1. lv2[x] = lv[x]
    BY <1>6, <1>11
  <2>2. \A j \in DOMAIN lv[x].orders :
          lv[x].orders[j] \in DOMAIN nd /\ LevelOf(nd[lv[x].orders[j]]) = x
    BY LevelQuantities
  <2>3. \A j \in DOMAIN lv[x].orders : nd2[lv[x].orders[j]] = nd[lv[x].orders[j]]
    BY <1>1, <1>11, <2>2
  <2>4. PICK sums : SumsTo(nd, lv[x].orders, sums, lv[x].total_remaining)
    BY DEF Books, Summed
  <2>5. SumsTo(nd2, lv[x].orders, sums, lv[x].total_remaining)
    BY <2>3, <2>4 DEF SumsTo
  <2>6. QED
    BY <2>1, <2>5
<1>12. \E sums : SumsTo(nd2, lv2[k].orders, sums, lv2[k].total_remaining)
  <2>1. PICK sums : SumsTo(nd, fifo, sums, lv[k].total_remaining)
    BY <1>2 DEF Books, Summed, fifo
  <2>2. nd2[Head(fifo)].leaves_qty = nd[Head(fifo)].leaves_qty - q
    BY <1>1, <1>4
  <2>3. q <= nd[Head(fifo)].leaves_qty
    BY <1>4, <1>5 DEF Quantity
  <2>4. \A j \in DOMAIN fifo : fifo[j] # Head(fifo) => nd2[fifo[j]] = nd[fifo[j]]
    BY <1>1, <1>3, <1>4
  <2>5. \E sums2 : SumsTo(nd2, fifo, sums2, Minus(lv[k].total_remaining, q, QtyMod))
    BY <1>2, <1>3, <1>4, <2>1, <2>2, <2>3, <2>4, ShrinkSums
  <2>6. QED
    BY <1>6, <2>5 DEF total
<1>13. Summed(nd2, lv2)
  BY <1>6, <1>11, <1>12 DEF Summed
<1>14. QED
  BY <1>7, <1>8, <1>10, <1>13 DEF Books, nd2, lv2, fifo, total

\* match()'s bulk erase leaves the other levels as they are.
LEMMA BulkBook ==
  ASSUME NEW nd, NEW lv, NEW er, Books(nd, lv, er), NEW S
  PROVE  Books(nd, Without(lv, S), er)
<1> DEFINE lv2 == Without(lv, S)
<1>1. DOMAIN lv2 = DOMAIN lv \ S /\ \A x \in DOMAIN lv2 : lv2[x] = lv[x]
  BY DEF Without, Restrict
<1> HIDE DEF lv2
<1>2. Uncrossed(lv2) /\ Ordered(nd, lv2, er) /\ Summed(nd, lv2)
  BY <1>1 DEF Books, Uncrossed, Ordered, Summed
<1>3. QED
  BY <1>2 DEF Books, lv2

\* Resting a remainder that crosses nothing.
LEMMA PlaceBook ==
  ASSUME NEW nd, NodeMap(nd), NEW ix, Indexed(nd, ix), NEW lv, LevelMap(lv),
         Linked(nd, lv), NEW er, Books(nd, lv, er),
         NEW n \in NodeIds, n \notin DOMAIN nd, NEW order \in OrderState,
         order.leaves_qty > 0, order.price # 0,
         \A k \in DOMAIN lv : k[1] = order.symbol =>
           /\ order.side = "buy" /\ k[2] = "sell" => order.price < k[3]
           /\ order.side = "sell" /\ k[2] = "buy" => k[3] < order.price
  PROVE  Books(Assign(nd, n, order), place(lv, n, order),
               er \cup {<<x, KeyOf(order)>> : x \in DOMAIN ix})
<1> DEFINE k == LevelOf(order)
           old == IF k \in DOMAIN lv THEN lv[k] ELSE EmptyLevel
           total == Plus(old.total_remaining, order.leaves_qty, QtyMod)
           nd2 == Assign(nd, n, order)
           lv2 == place(lv, n, order)
           er2 == er \cup {<<x, KeyOf(order)>> : x \in DOMAIN ix}
<1>1. /\ DOMAIN nd2 = DOMAIN nd \cup {n} /\ nd2[n] = order
      /\ \A m \in DOMAIN nd : nd2[m] = nd[m]
  BY DEF Assign
<1>2. /\ DOMAIN lv2 = DOMAIN lv \cup {k}
      /\ lv2[k].orders = Append(old.orders, n) /\ lv2[k].total_remaining = total
      /\ \A x \in DOMAIN lv : x # k => lv2[x] = lv[x]
  BY DEF place, Assign
<1>3. k[1] = order.symbol /\ k[2] = order.side /\ k[3] = order.price
  BY DEF LevelOf
<1>4. order.leaves_qty \in Quantity /\ order.side \in Side
  BY DEF OrderState
<1>5. 0 \in Quantity
  BY WidthAssumption DEF Quantity
<1>6. old.orders \in Seq(NodeIds)
  BY DEF LevelMap, PriceLevel, EmptyLevel
<1>7. \A j \in DOMAIN old.orders : old.orders[j] \in DOMAIN nd
  <2>1. CASE k \in DOMAIN lv
    BY <2>1, LevelQuantities
  <2>2. CASE k \notin DOMAIN lv
    BY <2>2 DEF EmptyLevel
  <2>3. QED
    BY <2>1, <2>2
<1>8. InOrder(nd, old.orders, er)
      /\ \E sums : SumsTo(nd, old.orders, sums, old.total_remaining)
  <2>1. CASE k \in DOMAIN lv
    BY <2>1 DEF Books, Ordered, Summed
  <2>2. CASE k \notin DOMAIN lv
    <3>1. old.orders = << >> /\ old.total_remaining = 0 /\ DOMAIN << >> = {} /\ Len(<< >>) = 0
      BY <2>2 DEF EmptyLevel
    <3> HIDE DEF old
    <3>2. InOrder(nd, old.orders, er)
      BY <3>1 DEF InOrder
    <3>3. SumsTo(nd, old.orders, [j \in 0 .. 0 |-> 0], old.total_remaining)
      BY <1>5, <3>1 DEF SumsTo
    <3>4. QED
      BY <3>2, <3>3
  <2>3. QED
    BY <2>1, <2>2
<1> HIDE DEF k, old, nd2, lv2
<1>9. Uncrossed(lv2)
  <2>1. \A x \in DOMAIN lv2 : x[3] # 0
    BY <1>2, <1>3 DEF Books, Uncrossed
  <2>2. ASSUME NEW b \in DOMAIN lv2, NEW a \in DOMAIN lv2,
               b[1] = a[1], b[2] = "buy", a[2] = "sell"
        PROVE  b[3] < a[3]
    <3>1. CASE b = k
      <4>1. a # k /\ a \in DOMAIN lv
        BY <1>2, <2>2, <3>1
      <4>2. QED
        BY <1>3, <2>2, <3>1, <4>1
    <3>2. CASE a = k
      <4>1. b # k /\ b \in DOMAIN lv
        BY <1>2, <2>2, <3>2
      <4>2. QED
        BY <1>3, <2>2, <3>2, <4>1
    <3>3. CASE a # k /\ b # k
      BY <1>2, <2>2, <3>3 DEF Books, Uncrossed
    <3>4. QED
      BY <3>1, <3>2, <3>3
  <2>3. QED
    BY <2>1, <2>2 DEF Uncrossed
<1>10. Live(nd2)
  BY <1>1 DEF Books, Live
<1>11. \A m \in DOMAIN nd : <<KeyOf(nd[m]), KeyOf(order)>> \in er2
  BY DEF Indexed
<1> HIDE DEF er2
<1>12. er \subseteq er2
  BY DEF er2
<1>13. ASSUME NEW x \in DOMAIN lv, x # k
       PROVE  /\ InOrder(nd2, lv2[x].orders, er2)
              /\ \E sums : SumsTo(nd2, lv2[x].orders, sums, lv2[x].total_remaining)
  <2>1. lv2[x] = lv[x]
    BY <1>2, <1>13
  <2>2. \A j \in DOMAIN lv[x].orders : nd2[lv[x].orders[j]] = nd[lv[x].orders[j]]
    BY <1>1, LevelQuantities
  <2>3. InOrder(nd, lv[x].orders, er)
        /\ \E sums : SumsTo(nd, lv[x].orders, sums, lv[x].total_remaining)
    BY DEF Books, Ordered, Summed
  <2>4. QED
    BY <1>12, <2>1, <2>2, <2>3, SameLevel
<1>14. /\ InOrder(nd2, lv2[k].orders, er2)
       /\ \E sums : SumsTo(nd2, lv2[k].orders, sums, lv2[k].total_remaining)
  <2>1. \A j \in DOMAIN old.orders :
          /\ nd2[old.orders[j]] = nd[old.orders[j]]
          /\ <<KeyOf(nd[old.orders[j]]), KeyOf(nd2[n])>> \in er2
    BY <1>1, <1>7, <1>11
  <2>2. InOrder(nd2, Append(old.orders, n), er2)
    BY <1>6, <1>8, <1>12, <2>1, AppendInOrder
  <2>3. PICK sums : SumsTo(nd, old.orders, sums, old.total_remaining)
    BY <1>8
  <2>4. nd2[n].leaves_qty \in Quantity
    BY <1>1, <1>4
  <2>5. \E sums2 : SumsTo(nd2, Append(old.orders, n), sums2,
                     Plus(old.total_remaining, nd2[n].leaves_qty, QtyMod))
    BY <1>6, <2>1, <2>3, <2>4, AppendSums
  <2>6. QED
    BY <1>1, <1>2, <2>2, <2>5
<1>15. Ordered(nd2, lv2, er2) /\ Summed(nd2, lv2)
  BY <1>2, <1>13, <1>14 DEF Ordered, Summed
<1>16. QED
  BY <1>9, <1>10, <1>15 DEF Books, nd2, lv2, er2

-----------------------------------------------------------------------------
(* The handlers *)

\* begin() of a side map is its best price.
LEMMA FrontIsBest ==
  ASSUME NEW side, NEW S, S \subseteq Price, S # {}
  PROVE  \A p \in S : IF side = "buy" THEN p <= Front(side, S) ELSE Front(side, S) <= p
<1>1. MaxPrice \in Nat
  BY WidthAssumption
<1>2. S \subseteq 0 .. MaxPrice /\ S \subseteq Nat
  BY <1>1 DEF Price
<1>3. \A p \in S : Max(S) >= p
  BY <1>1, <1>2, MaxProperties
<1>4. \A p \in S : Min(S) <= p
  BY <1>2, MinProperties
<1>5. Max(S) \in S
  BY <1>1, <1>2, MaxProperties
<1>6. QED
  BY <1>1, <1>2, <1>3, <1>4, <1>5 DEF Front

\* The books start empty.
LEMMA InitBook == Init => BookInv
<1> SUFFICES ASSUME Init PROVE BookInv
  OBVIOUS
<1>1. nodes = << >> /\ levels = << >> /\ DOMAIN << >> = {}
  BY DEF Init
<1>2. QED
  BY <1>1 DEF BookInv, Books, Uncrossed, Live, Ordered, Summed

\* What a cancel or a replace takes out.
LEMMA RemoveRestingBook ==
  ASSUME IndInv, BookInv, NEW key \in DOMAIN index, RemoveResting(key)
  PROVE  BookInv'
<1> DEFINE n == index[key]
           k == LevelOf(nodes[n])
           rest == Unlink(levels[k].orders, n)
           total == Minus(levels[k].total_remaining, nodes[n].leaves_qty, QtyMod)
<1>1. n \in DOMAIN nodes /\ KeyOf(nodes[n]) = key
  BY DEF IndInv, BookOK, Indexed
<1> HIDE DEF n
<1>2. /\ levels' = cancel(levels, n, nodes[n])
      /\ nodes' = Without(nodes, {n})
      /\ earlier' = Forget(earlier, KeyOf(nodes[n]))
  BY <1>1 DEF RemoveResting, n, Forget
<1>3. /\ NodeMap(nodes) /\ LevelMap(levels)
      /\ Indexed(nodes, index) /\ Linked(nodes, levels)
  BY DEF IndInv, BookOK
<1>4. k \in DOMAIN levels /\ levels[k].orders \in Seq(NodeIds) /\ Holds(levels[k].orders, n)
  BY <1>1, <1>3, LevelOfNode
<1>5. rest \in Seq(NodeIds)
  BY <1>4, UnlinkDrops
<1>6. PICK i \in 1 .. Len(levels[k].orders) :
        levels[k].orders[i] = n /\ Dropped(levels[k].orders, i, rest)
  BY <1>4, UnlinkDrops
<1>7. levels' = IF rest = << >> THEN Without(levels, {k})
                ELSE Assign(levels, k, [orders |-> rest, total_remaining |-> total])
  BY <1>2 DEF cancel
<1> HIDE DEF rest, total
<1>8. /\ DOMAIN levels' \subseteq DOMAIN levels
      /\ \A x \in DOMAIN levels' : x # k => levels'[x] = levels[x]
      /\ k \in DOMAIN levels' => levels'[k].orders = rest /\ levels'[k].total_remaining = total
  <2>1. CASE rest = << >>
    <3>1. levels' = Without(levels, {k})
      BY <1>7, <2>1
    <3>2. QED
      BY <3>1 DEF Without, Restrict
  <2>2. CASE rest # << >>
    <3>1. levels' = Assign(levels, k, [orders |-> rest, total_remaining |-> total])
      BY <1>7, <2>2
    <3>2. QED
      BY <1>4, <3>1 DEF Assign
  <2>3. QED
    BY <2>1, <2>2
<1>9. Books(nodes, levels, earlier)
  BY DEF BookInv
<1>10. Books(nodes', levels', earlier')
  BY <1>1, <1>2, <1>3, <1>5, <1>6, <1>8, <1>9, EraseBook DEF total
<1>11. QED
  BY <1>10 DEF BookInv

\* One iteration of consume_level.
LEMMA FillBook ==
  ASSUME IndInv, BookInv, Fill
  PROVE  BookInv'
<1> DEFINE p == Current
           k == EatenLevel(p)
           fifo == levels[k].orders
           n == Head(fifo)
           maker == nodes[n]
           qty == FillQty(maker)
           total == Minus(levels[k].total_remaining, qty, QtyMod)
           whole == maker.leaves_qty = qty
           rest == IF whole THEN Tail(fifo) ELSE fifo
           shrunk == [maker EXCEPT !.leaves_qty = @ - qty]
<1>1. /\ pc = "match" /\ CanFill
      /\ levels' = Assign(levels, k, [orders |-> rest, total_remaining |-> total])
      /\ \/ /\ whole /\ nodes' = Without(nodes, {n})
            /\ earlier' = Forget(earlier, KeyOf(maker))
         \/ ~whole /\ nodes' = Assign(nodes, n, shrunk) /\ earlier' = earlier
  BY DEF Fill, EatenLevel, Forget
<1>2. /\ NodeMap(nodes) /\ LevelMap(levels)
      /\ Indexed(nodes, index) /\ Linked(nodes, levels)
  BY DEF IndInv, BookOK
<1>3. taker \in OrderState
  BY <1>1 DEF IndInv, TakerInScope
<1>4. p \in Ahead
  <2>1. Ahead # {} /\ Ahead \subseteq Price
    BY <1>1 DEF CanFill, Ahead, Prices
  <2>2. QED
    BY <2>1, FrontInSet DEF Current
<1>5. p \notin consumed /\ k \in DOMAIN levels
  BY <1>4 DEF Ahead, Prices, EatenLevel
<1> HIDE DEF p
<1>6. fifo # << >>
  <2>1. \A q \in consumed : k # EatenLevel(q)
    BY <1>5 DEF EatenLevel
  <2>2. QED
    BY <1>5, <2>1 DEF IndInv, EmptiedLevels
<1>7. fifo \in Seq(NodeIds)
  <2>1. levels[k] \in PriceLevel
    BY <1>2, <1>5 DEF LevelMap
  <2>2. QED
    BY <2>1 DEF PriceLevel
<1> HIDE DEF k
<1>8. Tail(fifo) \in Seq(NodeIds) /\ 1 \in DOMAIN fifo /\ fifo[1] = n
  BY <1>6, <1>7
<1>9. n \in DOMAIN nodes /\ LevelOf(nodes[n]) = k /\ maker.leaves_qty \in Quantity
  BY <1>2, <1>5, <1>8, LevelQuantities
<1>10. maker.leaves_qty > 0 /\ taker.leaves_qty > 0 /\ taker.leaves_qty \in Quantity
  BY <1>1, <1>3, <1>9 DEF BookInv, Books, Live, CanFill, OrderState
<1>11. qty \in Quantity /\ qty <= maker.leaves_qty
  BY <1>9, <1>10 DEF FillQty, Quantity
<1> HIDE DEF qty, n
<1>12. Books(nodes, levels, earlier)
  BY DEF BookInv
<1>13. CASE whole
  <2>1. /\ nodes' = Without(nodes, {n}) /\ earlier' = Forget(earlier, KeyOf(nodes[n]))
        /\ levels' = Assign(levels, k, [orders |-> Tail(fifo), total_remaining |-> total])
    BY <1>1, <1>13
  <2>2. /\ DOMAIN levels' \subseteq DOMAIN levels
        /\ \A x \in DOMAIN levels' : x # k => levels'[x] = levels[x]
        /\ levels'[k].orders = Tail(fifo)
        /\ levels'[k].total_remaining
             = Minus(levels[k].total_remaining, nodes[n].leaves_qty, QtyMod)
    BY <1>5, <1>13, <2>1 DEF Assign
  <2>3. 1 \in 1 .. Len(fifo) /\ fifo[1] = n /\ Dropped(fifo, 1, Tail(fifo))
    BY <1>6, <1>7, <1>8, TailDrops
  <2> HIDE DEF total, whole
  <2>4. Books(Without(nodes, {n}), levels', Forget(earlier, KeyOf(nodes[n])))
    <3>1. /\ 1 \in 1 .. Len(levels[LevelOf(nodes[n])].orders)
          /\ levels[LevelOf(nodes[n])].orders[1] = n
          /\ Dropped(levels[LevelOf(nodes[n])].orders, 1, Tail(fifo))
      BY <1>9, <2>3
    <3>2. /\ \A x \in DOMAIN levels' : x # LevelOf(nodes[n]) => levels'[x] = levels[x]
          /\ levels'[LevelOf(nodes[n])].orders = Tail(fifo)
          /\ levels'[LevelOf(nodes[n])].total_remaining
               = Minus(levels[LevelOf(nodes[n])].total_remaining, nodes[n].leaves_qty, QtyMod)
      BY <1>9, <2>2
    <3> HIDE DEF fifo
    <3>3. QED
      BY <1>2, <1>8, <1>9, <1>12, <2>2, <3>1, <3>2, EraseBook
  <2>5. QED
    BY <2>1, <2>4 DEF BookInv
<1>14. CASE ~whole
  <2>1. /\ nodes' = Assign(nodes, n, shrunk) /\ earlier' = earlier
        /\ levels' = Assign(levels, k, [orders |-> fifo, total_remaining |-> total])
    BY <1>1, <1>14
  <2>2. maker \in OrderState
    BY <1>2, <1>9 DEF NodeMap
  <2>3. KeyOf(shrunk) = KeyOf(nodes[n]) /\ shrunk.leaves_qty = nodes[n].leaves_qty - qty
    <3>1. shrunk = [maker EXCEPT !.leaves_qty = maker.leaves_qty - qty]
      OBVIOUS
    <3> HIDE DEF shrunk
    <3>2. QED
      BY <2>2, <3>1 DEF OrderState, KeyOf
  <2>4. qty < nodes[n].leaves_qty
    BY <1>9, <1>11, <1>14 DEF Quantity
  <2> HIDE DEF shrunk
  <2>5. fifo # << >> /\ Head(fifo) = n
    BY <1>6 DEF n
  <2>6. Books(nodes', levels', earlier')
    BY <1>2, <1>9, <1>11, <1>12, <2>1, <2>3, <2>4, <2>5, ShrinkBook
  <2>7. QED
    BY <2>6 DEF BookInv
<1>15. QED
  BY <1>13, <1>14

\* After match(): a remainder that rests crosses nothing any more.
LEMMA SettleBook ==
  ASSUME IndInv, BookInv, Settle
  PROVE  BookInv'
<1> DEFINE S == {EatenLevel(p) : p \in consumed}
           lv == Without(levels, S)
<1>1. pc = "match" /\ ~CanFill /\ PlaceResidual(lv)
  BY DEF Settle, BulkErase, EatenLevel
<1>2. /\ NodeMap(nodes) /\ LevelMap(levels)
      /\ Indexed(nodes, index) /\ Linked(nodes, levels)
  BY DEF IndInv, BookOK
<1>3. taker \in OrderState
  BY <1>1 DEF IndInv, TakerInScope
<1>4. LevelMap(lv) /\ Linked(nodes, lv)
  <2>1. \A k \in S : k \in DOMAIN levels => levels[k].orders = << >>
    BY <1>1 DEF IndInv, EmptiedLevels
  <2>2. QED
    BY <1>2, <2>1, LinkedBulkErase
<1>5. DOMAIN lv = DOMAIN levels \ S
  BY DEF Without, Restrict
<1>6. Books(nodes, lv, earlier)
  BY BulkBook DEF BookInv
<1>7. CASE ~ShouldPlace
  <2>1. nodes' = nodes /\ levels' = lv /\ earlier' = earlier
    BY <1>1, <1>7 DEF PlaceResidual
  <2>2. QED
    BY <1>6, <2>1 DEF BookInv
<1>8. CASE ShouldPlace
  <2>1. PICK n \in NodeIds \ DOMAIN nodes :
          nodes' = Assign(nodes, n, taker) /\ levels' = place(lv, n, taker)
    BY <1>1, <1>8 DEF PlaceResidual
  <2>2. earlier' = earlier \cup {<<x, KeyOf(taker)>> : x \in DOMAIN index}
    BY <1>1, <1>8 DEF PlaceResidual
  <2>3. taker.leaves_qty > 0 /\ taker.price # 0 /\ taker.price \in Price /\ taker.side \in Side
    BY <1>3, <1>8 DEF ShouldPlace, OrderState
  <2>4. ASSUME NEW k \in DOMAIN lv, k[1] = taker.symbol, k[2] = Opposite(taker.side)
        PROVE  /\ taker.side = "buy" => taker.price < k[3]
               /\ taker.side = "sell" => k[3] < taker.price
    <3>1. k \in LevelKey /\ k \in DOMAIN levels /\ k \notin S
      BY <1>4, <1>5, <2>4 DEF LevelMap
    <3>2. k[3] \in Price /\ k = EatenLevel(k[3])
      BY <2>4, <3>1 DEF LevelKey, EatenLevel
    <3>3. k[3] \in Ahead
      BY <3>1, <3>2 DEF Ahead, Prices, EatenLevel
    <3>4. Ahead # {} /\ Ahead \subseteq Price
      BY <3>3 DEF Ahead, Prices
    <3>5. ~crosses(taker, Current)
      BY <1>1, <2>3, <3>4 DEF CanFill
    <3>6. Current \in Price
      BY <3>4, FrontInSet DEF Current
    <3>7. IF Opposite(taker.side) = "buy" THEN k[3] <= Current ELSE Current <= k[3]
      BY <3>3, <3>4, FrontIsBest DEF Current
    <3>8. Price \subseteq Nat
      BY WidthAssumption DEF Price
    <3> DEFINE q == k[3]
    <3>9. q \in Nat /\ Current \in Nat /\ taker.price \in Nat
      BY <2>3, <3>2, <3>6, <3>8
    <3>10. IF Opposite(taker.side) = "buy" THEN q <= Current ELSE Current <= q
      BY <3>7
    <3> HIDE DEF q
    <3>11. CASE taker.side = "buy"
      <4>1. Current <= q /\ ~(taker.price >= Current)
        BY <3>5, <3>10, <3>11 DEF crosses, Opposite
      <4>2. QED
        BY <3>9, <3>11, <4>1 DEF q
    <3>12. CASE taker.side = "sell"
      <4>1. q <= Current /\ ~(taker.price <= Current)
        BY <3>5, <3>10, <3>12 DEF crosses, Opposite
      <4>2. QED
        BY <3>9, <3>12, <4>1 DEF q
    <3>13. QED
      BY <2>3, <3>11, <3>12 DEF Side
  <2>5. \A k \in DOMAIN lv : k[1] = taker.symbol =>
          /\ taker.side = "buy" /\ k[2] = "sell" => taker.price < k[3]
          /\ taker.side = "sell" /\ k[2] = "buy" => k[3] < taker.price
    BY <2>4 DEF Opposite
  <2> HIDE DEF lv
  <2>6. Books(nodes', levels', earlier')
    BY <1>2, <1>3, <1>4, <1>6, <2>1, <2>2, <2>3, <2>5, PlaceBook
  <2>7. QED
    BY <2>6 DEF BookInv
<1>9. QED
  BY <1>7, <1>8

\* Every step preserves it.
LEMMA NextBook == IndInv /\ BookInv /\ [Next]_vars => BookInv'
<1> SUFFICES ASSUME IndInv, BookInv, [Next]_vars PROVE BookInv'
  OBVIOUS
<1>1. ASSUME nodes' = nodes, levels' = levels, earlier' = earlier
      PROVE  BookInv'
  BY <1>1 DEF BookInv
<1>2. ASSUME NEW r \in Requests, Send(r)
      PROVE  BookInv'
  <2>1. CASE RejectNewOrder(r) \/ AcceptNewOrder(r) \/ CancelMiss(r) \/ RejectReplace(r)
    BY <1>1, <2>1
    DEF RejectNewOrder, AcceptNewOrder, CancelMiss, RejectReplace, ReturnWith, book, history
  <2>2. CASE Cancel(r)
    <3>1. OrigKey(r) \in DOMAIN index /\ RemoveResting(OrigKey(r))
      BY <2>2 DEF Cancel
    <3>2. QED
      BY <3>1, RemoveRestingBook
  <2>3. CASE AcceptReplace(r)
    <3>1. OrigKey(r) \in DOMAIN index /\ RemoveResting(OrigKey(r))
      BY <2>3 DEF AcceptReplace
    <3>2. QED
      BY <3>1, RemoveRestingBook
  <2>4. CASE HandleFlush(r)
    <3> DEFINE drained == UNION {Range(levels[k].orders) : k \in DOMAIN levels}
    <3>1. levels' = << >> /\ nodes' = Without(nodes, drained)
      BY <2>4 DEF HandleFlush
    <3> HIDE DEF drained
    <3>2. /\ DOMAIN levels' = {}
          /\ DOMAIN nodes' \subseteq DOMAIN nodes
          /\ \A n \in DOMAIN nodes' : nodes'[n] = nodes[n]
      BY <3>1 DEF Without, Restrict
    <3>3. Live(nodes')
      BY <3>2 DEF BookInv, Books, Live
    <3>4. QED
      BY <3>2, <3>3 DEF BookInv, Books, Uncrossed, Ordered, Summed
  <2>5. QED
    BY <1>2, <2>1, <2>2, <2>3, <2>4 DEF Send
<1>3. CASE Fill
  BY <1>3, FillBook
<1>4. CASE Settle
  BY <1>4, SettleBook
<1>5. CASE Return
  BY <1>1, <1>5 DEF Return, book
<1>6. CASE UNCHANGED vars
  BY <1>1, <1>6 DEF vars
<1>7. QED
  BY <1>2, <1>3, <1>4, <1>5, <1>6 DEF Next

-----------------------------------------------------------------------------
(* What an order is accounted for *)

\* f adds up the trades of the events: what Traded is defined by.
Sums(es, f) == f = [i \in 0 .. Len(es) |-> IF i = 0 THEN 0 ELSE f[i - 1] + TradedBy(es[i])]

\* The locals of match() belong to the request, and what has left the taker is
\* what the trades say.
Dealt ==
  /\ request.client_id = taker.client_id /\ request.cl_ord_id = taker.cl_ord_id
  /\ request.side = taker.side /\ request.price = taker.price
  /\ request.order_qty = taker.order_qty
  /\ taker.leaves_qty <= taker.order_qty
  /\ \E f : Sums(events, f)
  /\ Traded(events) = taker.order_qty - taker.leaves_qty

\* Nothing is reported before the end of match().
Unreported ==
  \A i \in DOMAIN events :
    /\ events[i].type # "execution_summary"
    /\ events[i].type = "execution_report" => events[i].exec_type # "trade"

\* The trades follow the iterator of match(): what is ahead is no better.
PricedInOrder ==
  /\ TradesOf(events) = {} <=> last_traded = None
  /\ last_traded # None => events[Max(TradesOf(events))].price = last_traded
  /\ \A i, j \in TradesOf(events) : i < j => NoBetter(taker.side, events[j].price, events[i].price)
  /\ \A i \in TradesOf(events) :
       /\ taker.price = 0 \/ NoBetter(taker.side, taker.price, events[i].price)
       /\ \A p \in Ahead : NoBetter(taker.side, p, events[i].price)

AccountInv ==
  /\ pc = "idle" => taker = None /\ last_traded = None /\ events = << >>
  /\ pc = "match" => Dealt /\ Unreported /\ PricedInOrder
  /\ AccountedFor

\* A trade adds a quantity, anything else nothing.
LEMMA TradedByType == ASSUME NEW e \in Event PROVE TradedBy(e) \in Nat
<1>1. e.type = "trade" => e \in Trade
  BY DEF Event, Trade, ExecutionSummary, MboBookUpdate, ExecutionReport, CancelReject
<1>2. Quantity \subseteq Nat
  BY WidthAssumption DEF Quantity
<1>3. QED
  BY <1>1, <1>2 DEF TradedBy, Trade

\* The sums are unique, so that any of them gives Traded.
LEMMA TradedIsSum ==
  ASSUME NEW es \in Seq(Event), NEW f, Sums(es, f)
  PROVE  Traded(es) = f[Len(es)]
<1> DEFINE g == CHOOSE h : Sums(es, h)
           n == Len(es)
           D == {i \in 0 .. n : f[i] # g[i]}
<1>1. Sums(es, g)
  BY Zenon
<1>2. Traded(es) = g[n]
  BY DEF Traded, Sums
<1> HIDE DEF g
<1>3. n \in Nat
  OBVIOUS
<1>4. /\ f[0] = g[0]
      /\ \A i \in 1 .. n : f[i] = f[i - 1] + TradedBy(es[i]) /\ g[i] = g[i - 1] + TradedBy(es[i])
  <2>1. f[0] = 0 /\ \A i \in 1 .. n : f[i] = f[i - 1] + TradedBy(es[i])
    BY <1>3 DEF Sums
  <2>2. g[0] = 0 /\ \A i \in 1 .. n : g[i] = g[i - 1] + TradedBy(es[i])
    BY <1>1, <1>3 DEF Sums
  <2>3. QED
    BY <2>1, <2>2
<1> HIDE DEF n
<1>5. D = {}
  <2>1. SUFFICES ASSUME D # {} PROVE FALSE
    OBVIOUS
  <2>2. PICK m \in D : \A y \in D : m <= y
    <3>1. D \subseteq Nat
      BY <1>3
    <3> HIDE DEF D
    <3>2. QED
      BY <2>1, <3>1, MinProperties
  <2>3. m \in 1 .. n /\ m - 1 \in 0 .. n /\ ~(m <= m - 1)
    BY <1>3, <1>4, <2>2
  <2>4. m - 1 \notin D
    BY <2>2, <2>3
  <2>5. f[m - 1] = g[m - 1]
    BY <2>3, <2>4
  <2>6. QED
    BY <1>4, <2>2, <2>3, <2>5
<1>6. QED
  BY <1>2, <1>3, <1>5 DEF n

\* Nothing has been traded at first.
LEMMA NothingTraded == (\E f : Sums(<< >>, f)) /\ Traded(<< >>) = 0
<1> DEFINE f == [i \in 0 .. 0 |-> 0]
<1>1. Sums(<< >>, f)
  BY DEF Sums
<1>2. << >> \in Seq(Event) /\ Len(<< >>) = 0
  OBVIOUS
<1>3. Traded(<< >>) = f[0]
  BY <1>1, <1>2, TradedIsSum
<1>4. QED
  BY <1>1, <1>3

\* One event more.
LEMMA TradedAppend ==
  ASSUME NEW es \in Seq(Event), NEW e \in Event, \E f : Sums(es, f)
  PROVE  /\ \E f : Sums(Append(es, e), f)
         /\ Traded(Append(es, e)) = Traded(es) + TradedBy(e)
<1> DEFINE n == Len(es)
           c == Append(es, e)
<1>1. PICK f : Sums(es, f)
  OBVIOUS
<1> DEFINE g == [i \in 0 .. n + 1 |-> IF i = n + 1 THEN f[n] + TradedBy(e) ELSE f[i]]
<1>2. /\ n \in Nat /\ c \in Seq(Event) /\ Len(c) = n + 1 /\ c[n + 1] = e
      /\ \A i \in 1 .. n : c[i] = es[i]
  OBVIOUS
<1>3. f[0] = 0 /\ \A i \in 1 .. n : f[i] = f[i - 1] + TradedBy(es[i])
  BY <1>1, <1>2 DEF Sums
<1>4. Traded(es) = f[n]
  BY <1>1, TradedIsSum
<1> HIDE DEF n, c
<1>5. \A i \in 0 .. n + 1 : g[i] = IF i = 0 THEN 0 ELSE g[i - 1] + TradedBy(c[i])
  <2>1. TAKE i \in 0 .. n + 1
  <2>2. CASE i = 0
    BY <1>2, <1>3, <2>2
  <2>3. CASE i \in 1 .. n
    BY <1>2, <1>3, <2>3
  <2>4. CASE i = n + 1
    BY <1>2, <2>4
  <2>5. QED
    BY <1>2, <2>2, <2>3, <2>4
<1>6. g[n + 1] = f[n] + TradedBy(e)
  BY <1>2
<1>7. Sums(c, g)
  <2>1. DOMAIN g = 0 .. n + 1
    OBVIOUS
  <2>2. g = [i \in 0 .. n + 1 |-> g[i]]
    OBVIOUS
  <2> HIDE DEF g
  <2>3. QED
    BY <1>2, <1>5, <2>1, <2>2 DEF Sums
<1> HIDE DEF g
<1>8. Traded(c) = g[n + 1]
  BY <1>2, <1>7, TradedIsSum
<1>9. QED
  BY <1>4, <1>6, <1>7, <1>8 DEF c

\* c is es followed by the events us, and no trade is among those.
SilentlyLonger(es, us, c) ==
  /\ c \in Seq(Event)
  /\ \E f : Sums(c, f)
  /\ Traded(c) = Traded(es)
  /\ TradesOf(c) = TradesOf(es)
  /\ \A i \in DOMAIN es : i \in DOMAIN c /\ c[i] = es[i]
  /\ \A i \in DOMAIN c \ DOMAIN es : \E j \in DOMAIN us : c[i] = us[j]
  /\ \A j \in DOMAIN us : \E i \in DOMAIN c : c[i] = us[j]

\* Events that are no trades change neither the sum nor the trades.
LEMMA SilentEvents ==
  ASSUME NEW es \in Seq(Event), NEW us \in Seq(Event), \E f : Sums(es, f),
         \A j \in DOMAIN us : us[j].type # "trade"
  PROVE  SilentlyLonger(es, us, es \o us)
<1> DEFINE n == Len(es)
           m == Len(us)
           c == es \o us
<1>1. PICK f : Sums(es, f)
  OBVIOUS
<1> DEFINE g == [i \in 0 .. n + m |-> IF i <= n THEN f[i] ELSE f[n]]
<1>2. /\ n \in Nat /\ m \in Nat /\ c \in Seq(Event) /\ Len(c) = n + m
      /\ DOMAIN c = 1 .. n + m /\ DOMAIN es = 1 .. n /\ DOMAIN us = 1 .. m
      /\ \A i \in 1 .. n : c[i] = es[i]
      /\ \A i \in 1 .. m : c[n + i] = us[i]
  OBVIOUS
<1>3. f[0] = 0 /\ \A i \in 1 .. n : f[i] = f[i - 1] + TradedBy(es[i])
  <2>1. n \in Nat
    OBVIOUS
  <2>2. QED
    BY ONLY <1>1, <2>1 DEF Sums, n
<1>4. f[n] \in Nat
  <2> DEFINE D == {i \in 0 .. n : f[i] \notin Nat}
  <2>1. D = {}
    <3>1. SUFFICES ASSUME D # {} PROVE FALSE
      OBVIOUS
    <3>2. D \subseteq Nat
      BY <1>2
    <3>3. PICK y \in D : \A z \in D : y <= z
      <4> HIDE DEF D
      <4>1. QED
        BY <3>1, <3>2, MinProperties
    <3>4. y \in 1 .. n /\ y - 1 \in 0 .. n /\ ~(y <= y - 1)
      BY <1>2, <1>3, <3>3
    <3>5. y - 1 \notin D
      BY <3>3, <3>4
    <3>6. f[y - 1] \in Nat
      BY <3>4, <3>5
    <3>7. es[y] \in Event
      BY <1>2, <3>4
    <3>8. TradedBy(es[y]) \in Nat
      BY <3>7, TradedByType
    <3>9. QED
      BY <1>3, <3>3, <3>4, <3>6, <3>8
  <2>2. QED
    BY <1>2, <2>1
<1>5. Traded(es) = f[n]
  BY <1>1, TradedIsSum
<1> HIDE DEF n, m, c
<1>6. \A i \in 1 .. n + m : i > n => \E j \in 1 .. m : i = n + j
  <2>1. TAKE i \in 1 .. n + m
  <2>2. HAVE i > n
  <2>3. i - n \in 1 .. m /\ i = n + (i - n)
    BY <1>2, <2>2
  <2>4. QED
    BY <2>3
<1>7. \A i \in 0 .. n + m : g[i] = IF i = 0 THEN 0 ELSE g[i - 1] + TradedBy(c[i])
  <2>1. TAKE i \in 0 .. n + m
  <2>2. CASE i = 0
    BY <1>2, <1>3, <2>2
  <2>3. CASE i \in 1 .. n
    BY <1>2, <1>3, <2>3
  <2>4. CASE i > n
    <3>1. PICK j \in 1 .. m : i = n + j
      BY <1>2, <1>6, <2>4
    <3>2. us[j].type # "trade"
      BY <1>2, <3>1
    <3>3. TradedBy(c[i]) = 0
      BY <1>2, <3>1, <3>2 DEF TradedBy
    <3>4. g[i] = f[n] /\ g[i - 1] = f[n] /\ i # 0
      BY <1>2, <2>4
    <3> HIDE DEF g
    <3>5. QED
      BY <1>4, <3>3, <3>4
  <2>5. QED
    BY <1>2, <2>2, <2>3, <2>4
<1>8. Sums(c, g)
  <2>1. g = [i \in 0 .. n + m |-> g[i]]
    OBVIOUS
  <2> HIDE DEF g
  <2>2. QED
    BY <1>2, <1>7, <2>1 DEF Sums
<1>9. g[n + m] = f[n]
  BY <1>2
<1> HIDE DEF g
<1>10. Traded(c) = f[n]
  BY <1>2, <1>8, <1>9, TradedIsSum
<1>11. TradesOf(c) = TradesOf(es)
  <2>1. \A i \in 1 .. n + m : i > n => c[i].type # "trade"
    BY <1>2, <1>6
  <2>2. QED
    BY <1>2, <2>1 DEF TradesOf
<1>12. ASSUME NEW i \in DOMAIN c \ DOMAIN es PROVE \E j \in DOMAIN us : c[i] = us[j]
  <2>1. i \in 1 .. n + m /\ i > n
    BY <1>2
  <2>2. PICK j \in 1 .. m : i = n + j
    BY <1>6, <2>1
  <2>3. QED
    BY <1>2, <2>2
<1>13. \A j \in DOMAIN us : \E i \in DOMAIN c : c[i] = us[j]
  <2>1. \A j \in 1 .. m : n + j \in 1 .. n + m
    BY <1>2
  <2>2. QED
    BY <1>2, <2>1
<1>14. \A i \in DOMAIN es : i \in DOMAIN c /\ c[i] = es[i]
  BY <1>2
<1>15. QED
  BY <1>2, <1>5, <1>8, <1>10, <1>11, <1>12, <1>13, <1>14 DEF c, SilentlyLonger

\* c is es with one event more.
Longer(es, e, c) ==
  /\ c \in Seq(Event) /\ TradesOf(es) \subseteq DOMAIN es
  /\ Len(es) + 1 \in DOMAIN c /\ c[Len(es) + 1] = e
  /\ \A i \in DOMAIN es : i < Len(es) + 1 /\ i \in Nat /\ c[i] = es[i]
  /\ DOMAIN c = DOMAIN es \cup {Len(es) + 1}
  /\ e.type # "trade" => TradesOf(c) = TradesOf(es)
  /\ e.type = "trade" => /\ TradesOf(c) = TradesOf(es) \cup {Len(es) + 1}
                         /\ Max(TradesOf(c)) = Len(es) + 1

\* One event more among the trades.
LEMMA TradesAppend ==
  ASSUME NEW es \in Seq(Event), NEW e \in Event
  PROVE  Longer(es, e, Append(es, e))
<1> PICK c : c = Append(es, e)
  OBVIOUS
<1> DEFINE n == Len(es)
<1>1. /\ n \in Nat /\ c \in Seq(Event) /\ DOMAIN c = 1 .. n + 1 /\ DOMAIN es = 1 .. n
      /\ c[n + 1] = e /\ \A i \in 1 .. n : c[i] = es[i]
  OBVIOUS
<1> HIDE DEF n
<1>2. DOMAIN c = DOMAIN es \cup {n + 1} /\ \A i \in DOMAIN es : i < n + 1 /\ i \in Nat
  BY <1>1
<1>3. TradesOf(es) \subseteq DOMAIN es /\ TradesOf(c) \subseteq DOMAIN c
  BY DEF TradesOf
<1>4. e.type # "trade" => TradesOf(c) = TradesOf(es)
  BY <1>1, <1>2 DEF TradesOf
<1>5. e.type = "trade" => TradesOf(c) = TradesOf(es) \cup {n + 1}
  BY <1>1, <1>2 DEF TradesOf
<1>6. ASSUME e.type = "trade" PROVE Max(TradesOf(c)) = n + 1
  <2> DEFINE T == TradesOf(c)
             x == Max(T)
  <2>1. T \subseteq 0 .. n + 1 /\ T # {} /\ n + 1 \in Nat /\ n + 1 \in T
    BY <1>1, <1>3, <1>5, <1>6
  <2> HIDE DEF T
  <2>2. x \in T /\ \A y \in T : x >= y
    BY <2>1, MaxProperties
  <2> HIDE DEF x
  <2>3. x = n + 1
    BY <1>1, <2>1, <2>2
  <2>4. QED
    BY <2>3 DEF x, T
<1>7. QED
  BY <1>1, <1>2, <1>3, <1>4, <1>5, <1>6 DEF n, Longer

\* match() begins: nothing is traded yet.
LEMMA BeginAccount ==
  ASSUME IndInv, AccountInv, pc = "idle", NEW r \in NewOrderSingle \cup ReplaceOrder,
         NEW emitted \in Seq(Event), \A j \in DOMAIN emitted : emitted[j].type = "mbo_book_update",
         BeginMatch(r, emitted)
  PROVE  AccountInv'
<1> DEFINE order == make_order_state(r)
           e == emit_execution_report(order, next_exec_id, "new_order", "new_order",
                                      None, None, None)
<1>1. /\ pc' = "match" /\ request' = r /\ taker' = order /\ last_traded' = last_traded
      /\ events' = Append(emitted, e)
  BY DEF BeginMatch
<1>2. last_traded' = None
  BY <1>1 DEF AccountInv
<1>3. order \in OrderState
  BY DEF make_order_state, OrderState, NewOrderSingle, ReplaceOrder
<1>4. /\ e \in Event /\ e.type = "execution_report" /\ e.exec_type = "new_order"
  <2>1. e \in Event
    BY <1>3, ReportType DEF IndInv, CountersOK
  <2>2. QED
    BY <2>1 DEF emit_execution_report
<1>5. /\ r.client_id = order.client_id /\ r.cl_ord_id = order.cl_ord_id
      /\ r.side = order.side /\ r.price = order.price
      /\ r.order_qty = order.order_qty /\ order.leaves_qty = order.order_qty
      /\ order.order_qty \in Nat
  <2>1. order.order_qty \in Quantity /\ Quantity \subseteq Nat
    BY <1>3, WidthAssumption DEF OrderState, Quantity
  <2>2. QED
    BY <2>1 DEF make_order_state
<1> HIDE DEF e, order
<1>6. (\E f : Sums(emitted, f)) /\ Traded(emitted) = 0 /\ TradesOf(emitted) = {}
  <2> DEFINE z == << >>
             c == z \o emitted
  <2>1. z \in Seq(Event) /\ c = emitted /\ DOMAIN z = {}
    OBVIOUS
  <2>2. (\E f : Sums(z, f)) /\ Traded(z) = 0 /\ TradesOf(z) = {}
    BY <2>1, NothingTraded DEF TradesOf
  <2> HIDE DEF z
  <2>3. (\E f : Sums(c, f)) /\ Traded(c) = Traded(z) /\ TradesOf(c) = TradesOf(z)
    <3>1. SilentlyLonger(z, emitted, c)
      BY <2>1, <2>2, SilentEvents
    <3>2. QED
      BY <3>1 DEF SilentlyLonger
  <2>4. QED
    BY <2>1, <2>2, <2>3
<1>7. /\ \E f : Sums(events', f)
      /\ Traded(events') = 0
  <2>1. TradedBy(e) = 0
    BY <1>4 DEF TradedBy
  <2>2. Traded(events') = 0 + 0 /\ \E f : Sums(events', f)
    BY <1>1, <1>4, <1>6, <2>1, TradedAppend
  <2>3. QED
    BY <2>2
<1>8. /\ TradesOf(events') = {} /\ DOMAIN events' = DOMAIN emitted \cup {Len(emitted) + 1}
      /\ events'[Len(emitted) + 1] = e /\ \A i \in DOMAIN emitted : events'[i] = emitted[i]
  <2>1. Longer(emitted, e, events')
    BY <1>1, <1>4, TradesAppend
  <2>2. QED
    BY <1>4, <1>6, <2>1 DEF Longer
<1>9. Dealt'
  BY <1>1, <1>5, <1>7 DEF Dealt
<1>10. Unreported'
  BY <1>4, <1>8 DEF Unreported
<1>11. PricedInOrder'
  BY <1>2, <1>8 DEF PricedInOrder
<1>12. QED
  BY <1>1, <1>9, <1>10, <1>11 DEF AccountInv, AccountedFor

\* A fill: the trade takes from the taker what it reports, at the best price ahead.
LEMMA FillAccount ==
  ASSUME IndInv, AccountInv, Fill
  PROVE  AccountInv'
<1> DEFINE p == Current
           k == EatenLevel(p)
           n == Head(levels[k].orders)
           maker == nodes[n]
           qty == FillQty(maker)
           e == make_trade(taker, maker, p, qty, next_trade_id)
           rest == IF maker.leaves_qty = qty THEN Tail(levels[k].orders) ELSE levels[k].orders
           x == Len(events) + 1
           T == TradesOf(events)
<1>1. /\ pc = "match" /\ pc' = "match" /\ CanFill
      /\ events' = Append(events, e) /\ request' = request /\ last_traded' = p
      /\ taker' = [taker EXCEPT !.leaves_qty = @ - qty]
      /\ consumed' = IF rest = << >> THEN consumed \cup {p} ELSE consumed
      /\ levels' = Assign(levels, k,
           [orders |-> rest, total_remaining |-> Minus(levels[k].total_remaining, qty, QtyMod)])
  BY DEF Fill, EatenLevel
<1>2. /\ NodeMap(nodes) /\ LevelMap(levels) /\ Linked(nodes, levels)
      /\ taker \in OrderState /\ events \in Seq(Event)
  BY <1>1 DEF IndInv, BookOK, TakerInScope, LocalsOK
<1>3. Dealt /\ Unreported /\ PricedInOrder
  BY <1>1 DEF AccountInv
<1>4. Ahead # {} /\ Ahead \subseteq Price /\ p \in Ahead
  <2>1. Ahead # {} /\ Ahead \subseteq Price
    BY <1>1 DEF CanFill, Ahead, Prices
  <2>2. QED
    BY <2>1, FrontInSet DEF Current
<1>5. p \in Price /\ p \notin consumed /\ k \in DOMAIN levels
  BY <1>4 DEF Ahead, Prices, EatenLevel
<1>6. Price \subseteq Nat /\ Quantity \subseteq Nat
  BY WidthAssumption DEF Price, Quantity
<1>7. \A a \in Ahead : NoBetter(taker.side, a, p)
  <2>1. \A a \in Ahead : IF Opposite(taker.side) = "buy" THEN a <= p ELSE p <= a
    BY <1>4, FrontIsBest DEF Current
  <2>2. taker.side \in Side
    BY <1>2 DEF OrderState
  <2> HIDE DEF p
  <2>3. \A a \in Ahead : a \in Nat
    BY <1>4, <1>6
  <2>4. p \in Nat
    BY <1>5, <1>6
  <2>5. QED
    BY <2>1, <2>2, <2>3, <2>4 DEF NoBetter, Opposite, Side
<1>8. taker.price = 0 \/ NoBetter(taker.side, taker.price, p)
  <2>1. taker.side \in Side
    BY <1>2 DEF OrderState
  <2>2. crosses(taker, p)
    BY <1>1 DEF CanFill
  <2>3. QED
    BY <2>1, <2>2 DEF crosses, NoBetter, Side
<1> HIDE DEF p
<1>9. maker \in OrderState
  <2>1. \A q \in consumed : k # EatenLevel(q)
    BY <1>5 DEF EatenLevel
  <2>2. levels[k].orders # << >>
    BY <1>5, <2>1 DEF IndInv, EmptiedLevels
  <2>3. levels[k] \in PriceLevel
    BY <1>2, <1>5 DEF LevelMap
  <2>4. levels[k].orders \in Seq(NodeIds)
    BY <2>3 DEF PriceLevel
  <2> HIDE DEF k
  <2>5. 1 \in DOMAIN levels[k].orders /\ levels[k].orders[1] = n
    BY <2>2, <2>4
  <2>6. n \in DOMAIN nodes
    BY <1>2, <1>5, <2>5, LevelQuantities
  <2>7. QED
    BY <1>2, <2>6 DEF NodeMap
<1>10. /\ qty \in Nat /\ qty <= taker.leaves_qty /\ taker.leaves_qty \in Nat
       /\ taker.order_qty \in Nat /\ qty \in Quantity
  <2>1. taker.leaves_qty \in Quantity /\ maker.leaves_qty \in Quantity /\ taker.order_qty \in Quantity
    BY <1>2, <1>9 DEF OrderState
  <2> DEFINE a == taker.leaves_qty
             b == maker.leaves_qty
  <2>2. a \in Nat /\ b \in Nat /\ taker.order_qty \in Nat
    BY <1>6, <2>1
  <2>3. qty = IF a < b THEN a ELSE b
    BY DEF FillQty
  <2> HIDE DEF a, b, qty
  <2>4. qty \in {a, b} /\ qty <= a
    BY <2>2, <2>3
  <2>5. QED
    BY <2>1, <2>2, <2>4 DEF a, b
<1>11. e \in Event /\ e.type = "trade" /\ e.price = p /\ e.quantity = qty
  <2>1. e \in Event
    <3> HIDE DEF qty, maker
    <3>1. QED
      BY <1>2, <1>5, <1>9, <1>10, TradeType DEF IndInv, CountersOK
  <2>2. QED
    BY <2>1 DEF make_trade
<1> HIDE DEF qty, maker, k
<1>12. /\ taker'.client_id = taker.client_id /\ taker'.cl_ord_id = taker.cl_ord_id
       /\ taker'.side = taker.side /\ taker'.price = taker.price /\ taker'.symbol = taker.symbol
       /\ taker'.order_qty = taker.order_qty /\ taker'.leaves_qty = taker.leaves_qty - qty
  <2>1. taker' = [taker EXCEPT !.leaves_qty = taker.leaves_qty - qty]
    BY <1>1
  <2>2. QED
    BY <1>2, <2>1 DEF OrderState
<1>13. Ahead' \subseteq Ahead
  <2>1. DOMAIN levels' = DOMAIN levels
    BY <1>1, <1>5 DEF Assign
  <2>2. consumed \subseteq consumed'
    BY <1>1
  <2>3. QED
    BY <1>12, <2>1, <2>2 DEF Ahead, Prices
<1> HIDE DEF e
<1>14. /\ \E f : Sums(events', f)
       /\ Traded(events') = Traded(events) + qty
  <2>1. TradedBy(e) = qty
    BY <1>11 DEF TradedBy
  <2>2. QED
    BY <1>1, <1>2, <1>3, <1>11, <2>1, TradedAppend DEF Dealt
<1>15. Longer(events, e, events')
  BY <1>1, <1>2, <1>11, TradesAppend
<1>16. /\ TradesOf(events') = T \cup {x} /\ Max(TradesOf(events')) = x /\ events'[x] = e
       /\ \A i \in T : i < x /\ i \in Nat /\ events'[i] = events[i]
       /\ DOMAIN events' = DOMAIN events \cup {x}
       /\ \A i \in DOMAIN events : events'[i] = events[i]
       /\ x \in Nat
  BY <1>2, <1>11, <1>15 DEF Longer
<1> HIDE DEF x
<1>17. Dealt'
  <2>1. /\ taker'.leaves_qty <= taker'.order_qty
        /\ Traded(events') = taker'.order_qty - taker'.leaves_qty
    BY <1>3, <1>10, <1>12, <1>14 DEF Dealt
  <2>2. QED
    BY <1>1, <1>3, <1>12, <1>14, <2>1 DEF Dealt
<1>18. Unreported'
  BY <1>3, <1>11, <1>16 DEF Unreported
<1>19. PricedInOrder'
  <2>1. last_traded' # None /\ TradesOf(events') # {} /\ events'[Max(TradesOf(events'))].price = last_traded'
    BY <1>1, <1>5, <1>6, <1>11, <1>16, NoneAssumption
  <2>2. \A i \in T : /\ taker.price = 0 \/ NoBetter(taker.side, taker.price, events[i].price)
                     /\ \A a \in Ahead : NoBetter(taker.side, a, events[i].price)
    BY <1>3 DEF PricedInOrder
  <2>3. \A i, j \in T : i < j => NoBetter(taker.side, events[j].price, events[i].price)
    BY <1>3 DEF PricedInOrder
  <2>4. ASSUME NEW i \in T \cup {x}, NEW j \in T \cup {x}, i < j
        PROVE  NoBetter(taker.side, events'[j].price, events'[i].price)
    <3>1. i \in T
      BY <1>16, <2>4
    <3>2. CASE j \in T
      BY <1>16, <2>3, <2>4, <3>1, <3>2
    <3>3. CASE j = x
      BY <1>4, <1>11, <1>16, <2>2, <3>1, <3>3
    <3>4. QED
      BY <3>2, <3>3
  <2>5. ASSUME NEW i \in T \cup {x}
        PROVE  /\ taker.price = 0 \/ NoBetter(taker.side, taker.price, events'[i].price)
               /\ \A a \in Ahead' : NoBetter(taker.side, a, events'[i].price)
    <3>1. CASE i \in T
      BY <1>13, <1>16, <2>2, <3>1
    <3>2. CASE i = x
      BY <1>7, <1>8, <1>11, <1>13, <1>16, <3>2
    <3>3. QED
      BY <3>1, <3>2
  <2> HIDE DEF T
  <2>6. QED
    BY <1>12, <1>16, <2>1, <2>4, <2>5 DEF PricedInOrder
<1>20. QED
  BY <1>1, <1>17, <1>18, <1>19 DEF AccountInv, AccountedFor

\* The updates that an event list closes with.
LEMMA UpdateOnly ==
  ASSUME NEW lv, NEW symbol, NEW side, NEW security_id, NEW condition,
         NEW j \in DOMAIN UpdateIf(condition, lv, symbol, side, security_id)
  PROVE  UpdateIf(condition, lv, symbol, side, security_id)[j].type = "mbo_book_update"
<1> DEFINE e == emit_mbo_book_update(lv, symbol, side, security_id)
<1>1. e.type = "mbo_book_update"
  BY DEF emit_mbo_book_update
<1> HIDE DEF e
<1>2. UpdateIf(condition, lv, symbol, side, security_id) \in {<<e>>, << >>}
  BY DEF UpdateIf, e
<1>3. QED
  BY <1>1, <1>2

\* Events of one list or of the other are those of both together.
LEMMA OneOfBoth ==
  ASSUME NEW a \in Seq(Event), NEW b \in Seq(Event)
  PROVE  /\ \A j \in DOMAIN (a \o b) : \/ \E i \in DOMAIN a : (a \o b)[j] = a[i]
                                       \/ \E i \in DOMAIN b : (a \o b)[j] = b[i]
         /\ \A i \in DOMAIN a : i \in DOMAIN (a \o b) /\ (a \o b)[i] = a[i]
<1> DEFINE c == a \o b
           x == Len(a)
           y == Len(b)
<1>1. /\ x \in Nat /\ y \in Nat /\ DOMAIN c = 1 .. x + y /\ DOMAIN a = 1 .. x /\ DOMAIN b = 1 .. y
      /\ \A i \in 1 .. x : c[i] = a[i]
      /\ \A i \in 1 .. y : c[x + i] = b[i]
  OBVIOUS
<1> HIDE DEF x, y, c
<1>2. ASSUME NEW j \in DOMAIN c
      PROVE  (\E i \in DOMAIN a : c[j] = a[i]) \/ (\E i \in DOMAIN b : c[j] = b[i])
  <2>1. CASE j \in 1 .. x
    BY <1>1, <2>1
  <2>2. CASE j \notin 1 .. x
    <3>1. j - x \in 1 .. y /\ j = x + (j - x)
      BY <1>1, <2>2
    <3>2. QED
      BY <1>1, <3>1
  <2>3. QED
    BY <2>1, <2>2
<1>3. \A i \in DOMAIN a : i \in DOMAIN c /\ c[i] = a[i]
  BY <1>1
<1>4. QED
  BY <1>2, <1>3 DEF c

\* The summary and the trade report, as Settle emits them.
Summary ==
  [type |-> "execution_summary", security_id |-> taker.security_id,
   aggressor_side |-> taker.side, last_px |-> last_traded,
   fill_qty |-> Minus(taker.order_qty, taker.leaves_qty, QtyMod)]

FinalReport ==
  emit_execution_report(taker, next_exec_id, "trade",
    IF taker.leaves_qty = 0 THEN "filled" ELSE "partially_filled", None,
    Minus(taker.order_qty, taker.leaves_qty, QtyMod), last_traded)

\* What Settle emits: book updates, and after trades one summary and a report.
LEMMA SettleEvents ==
  ASSUME IndInv, Settle, IndInv'
  PROVE  \E us \in Seq(Event) :
           /\ events' = events \o us
           /\ \A j \in DOMAIN us : \/ us[j].type = "mbo_book_update"
                                   \/ last_traded # None /\ us[j] \in {Summary, FinalReport}
           /\ last_traded # None => \E j \in DOMAIN us : us[j] = Summary
<1> DEFINE u1 == UpdateIf(last_traded # None, levels', taker.symbol,
                          Opposite(taker.side), taker.security_id)
           u2 == UpdateIf(ShouldPlace /\ best(levels', taker.symbol, taker.side) = taker.price,
                          levels', taker.symbol, taker.side, taker.security_id)
           u == u1 \o u2
<1>1. /\ pc = "match" /\ taker \in OrderState /\ events \in Seq(Event) /\ LevelMap(levels')
      /\ \/ last_traded # None /\ events' = (events \o TradeEvents) \o ClosingUpdates
         \/ last_traded = None /\ events' = events \o ClosingUpdates
  BY DEF Settle, IndInv, TakerInScope, LocalsOK, BookOK
<1>2. /\ taker.side \in Side /\ Opposite(taker.side) \in Side /\ taker.security_id \in SecurityIds
      /\ taker.order_qty \in Quantity /\ taker.leaves_qty \in Quantity
  BY <1>1 DEF OrderState, Opposite, Side
<1>3. u1 \in Seq(Event) /\ \A j \in DOMAIN u1 : u1[j].type = "mbo_book_update"
  BY <1>1, <1>2, UpdateType, UpdateOnly
<1>4. u2 \in Seq(Event) /\ \A j \in DOMAIN u2 : u2[j].type = "mbo_book_update"
  BY <1>1, <1>2, UpdateType, UpdateOnly
<1>5. ClosingUpdates = u
  BY DEF ClosingUpdates
<1> HIDE DEF u1, u2
<1>6. u \in Seq(Event)
  BY <1>3, <1>4, ConcatProperties
<1>7. \A j \in DOMAIN u : u[j].type = "mbo_book_update"
  BY <1>3, <1>4, OneOfBoth
<1> HIDE DEF u
<1>8. CASE last_traded = None
  BY <1>1, <1>5, <1>6, <1>7, <1>8
<1>9. CASE last_traded # None
  <2> DEFINE S == Summary
             R == FinalReport
             t == <<S, R>>
             us == t \o u
  <2>1. last_traded \in Price
    BY <1>9 DEF IndInv, LocalsOK
  <2>2. Minus(taker.order_qty, taker.leaves_qty, QtyMod) \in Quantity
    BY <1>2, MinusType, WidthAssumption DEF Quantity
  <2>3. S \in Event
    <3>1. S \in ExecutionSummary
      BY <1>2, <2>1, <2>2 DEF ExecutionSummary, Summary
    <3>2. QED
      BY <3>1 DEF Event
  <2>4. R \in Event
    BY <1>1, <2>1, <2>2, ReportType DEF FinalReport, IndInv, CountersOK
  <2>5. TradeEvents = t
    BY DEF TradeEvents, Summary, FinalReport
  <2> HIDE DEF S, R
  <2>6. t \in Seq(Event) /\ DOMAIN t = {1, 2} /\ t[1] = S /\ t[2] = R
    BY <2>3, <2>4
  <2> HIDE DEF t
  <2>7. us \in Seq(Event)
    BY <1>6, <2>6, ConcatProperties
  <2>8. /\ \A j \in DOMAIN us : us[j].type = "mbo_book_update" \/ us[j] \in {S, R}
        /\ \E j \in DOMAIN us : us[j] = S
    <3>1. /\ \A j \in DOMAIN us : \/ \E i \in DOMAIN t : us[j] = t[i]
                                  \/ \E i \in DOMAIN u : us[j] = u[i]
          /\ \A i \in DOMAIN t : i \in DOMAIN us /\ us[i] = t[i]
      BY <1>6, <2>6, OneOfBoth
    <3> HIDE DEF us
    <3>2. QED
      BY <1>7, <2>6, <3>1
  <2>9. events' = events \o us
    <3>1. t \in Seq(Event)
      BY <2>6
    <3>2. (events \o t) \o u = events \o (t \o u)
      BY <1>1, <1>6, <3>1, ConcatAssociative
    <3>3. QED
      BY <1>1, <1>5, <1>9, <2>5, <3>2
  <2> HIDE DEF us
  <2>10. QED
    BY <1>9, <2>7, <2>8, <2>9 DEF S, R
<1>10. QED
  BY <1>8, <1>9

\* The end: what is reported and what is left is what was traded and is not.
LEMMA SettleAccount ==
  ASSUME IndInv, AccountInv, Settle, IndInv'
  PROVE  AccountInv'
<1> DEFINE T == TradesOf(events)
           left == taker.leaves_qty
           filled == taker.order_qty - left
           key == KeyOf(taker)
<1>1. /\ pc = "match" /\ pc' = "done" /\ taker' = taker /\ request' = request
      /\ last_traded' = last_traded /\ PlaceResidual(BulkErase(levels))
  BY DEF Settle, locals
<1>2. /\ taker \in OrderState /\ key \notin DOMAIN index /\ events \in Seq(Event)
  BY <1>1 DEF IndInv, TakerInScope, LocalsOK
<1>3. Dealt /\ Unreported /\ PricedInOrder
  BY <1>1 DEF AccountInv
<1>4. left \in Nat /\ taker.order_qty \in Nat /\ left <= taker.order_qty /\ filled \in Nat
  <2>1. taker.leaves_qty \in Quantity /\ taker.order_qty \in Quantity /\ Quantity \subseteq Nat
    BY <1>2, WidthAssumption DEF OrderState, Quantity
  <2>2. left \in Nat /\ taker.order_qty \in Nat /\ left <= taker.order_qty
    BY <1>3, <2>1 DEF Dealt
  <2> HIDE DEF left
  <2>3. QED
    BY <2>2
<1>5. Minus(taker.order_qty, left, QtyMod) = filled
  BY <1>4 DEF Minus
<1>6. PICK us \in Seq(Event) :
        /\ events' = events \o us
        /\ \A j \in DOMAIN us : \/ us[j].type = "mbo_book_update"
                                \/ last_traded # None /\ us[j] \in {Summary, FinalReport}
        /\ last_traded # None => \E j \in DOMAIN us : us[j] = Summary
  BY SettleEvents
<1>7. /\ Summary.type = "execution_summary" /\ Summary.fill_qty = filled
      /\ Summary.last_px = last_traded
  BY <1>5 DEF Summary
<1>8. /\ FinalReport.type = "execution_report" /\ FinalReport.exec_type = "trade"
      /\ FinalReport.last_qty = filled /\ FinalReport.cum_qty = filled
      /\ FinalReport.leaves_qty = left
      /\ FinalReport.ord_status = "filled" <=> left = 0
  BY <1>5 DEF FinalReport, emit_execution_report
<1>9. \A j \in DOMAIN us : us[j].type # "trade"
  BY <1>6, <1>7, <1>8
<1>10. /\ Traded(events') = Traded(events)
       /\ TradesOf(events') = T
       /\ \A i \in DOMAIN events : i \in DOMAIN events' /\ events'[i] = events[i]
       /\ \A i \in DOMAIN events' \ DOMAIN events : \E j \in DOMAIN us : events'[i] = us[j]
       /\ \A j \in DOMAIN us : \E i \in DOMAIN events' : events'[i] = us[j]
  <2>1. events \in Seq(Event) /\ \E f : Sums(events, f)
    BY <1>2, <1>3 DEF Dealt
  <2>2. SilentlyLonger(events, us, events')
    BY <1>6, <1>9, <2>1, SilentEvents
  <2>3. QED
    BY <2>2 DEF SilentlyLonger
<1>11. Traded(events') = filled /\ request.order_qty - Traded(events') = left
  BY <1>3, <1>4, <1>10 DEF Dealt
<1>12. key = <<request.client_id, request.cl_ord_id>>
  BY <1>3 DEF Dealt, KeyOf
<1>13. IF left > 0 /\ request.price # 0
       THEN key \in DOMAIN index' /\ nodes'[index'[key]].leaves_qty = left
       ELSE key \notin DOMAIN index'
  <2>1. request.price = taker.price
    BY <1>3 DEF Dealt
  <2>2. CASE ShouldPlace
    <3>1. PICK n \in NodeIds \ DOMAIN nodes :
            nodes' = Assign(nodes, n, taker) /\ index' = Emplace(index, key, n)
      BY <1>1, <2>2 DEF PlaceResidual
    <3>2. nodes'[n] = taker /\ key \in DOMAIN index' /\ index'[key] = n
      BY <1>2, <3>1 DEF Assign, Emplace
    <3>3. QED
      BY <2>1, <2>2, <3>2 DEF ShouldPlace
  <2>3. CASE ~ShouldPlace
    <3>1. index' = index
      BY <1>1, <2>3 DEF PlaceResidual
    <3>2. QED
      BY <1>2, <2>1, <2>3, <3>1 DEF ShouldPlace
  <2>4. QED
    BY <2>2, <2>3
<1>14. T # {} => Max(T) \in T
  <2>1. T \subseteq 0 .. Len(events) /\ Len(events) \in Nat
    BY <1>2 DEF TradesOf
  <2> HIDE DEF T
  <2>2. QED
    BY <2>1, MaxProperties
<1>15. T \subseteq DOMAIN events
  BY DEF TradesOf
<1>16. \A i \in T : events'[i] = events[i]
  BY <1>10, <1>15
<1>17. /\ T = {} <=> last_traded = None
       /\ last_traded # None => events[Max(T)].price = last_traded
  BY <1>3 DEF PricedInOrder
<1> HIDE DEF T, left, filled, key
<1>18. T # {} <=> \E i \in DOMAIN events' : events'[i].type = "execution_summary"
  <2>1. ASSUME T # {} PROVE \E i \in DOMAIN events' : events'[i].type = "execution_summary"
    <3>1. PICK j \in DOMAIN us : us[j] = Summary
      BY <1>6, <1>17, <2>1
    <3>2. QED
      BY <1>7, <1>10, <3>1
  <2>2. ASSUME NEW i \in DOMAIN events', events'[i].type = "execution_summary"
        PROVE  T # {}
    <3>1. i \notin DOMAIN events
      BY <1>3, <1>10, <2>2 DEF Unreported
    <3>2. PICK j \in DOMAIN us : events'[i] = us[j]
      BY <1>10, <3>1
    <3>3. last_traded # None
      BY <1>6, <2>2, <3>2
    <3>4. QED
      BY <1>17, <3>3
  <2>3. QED
    BY <2>1, <2>2
<1>19. ASSUME NEW i \in DOMAIN events'
       PROVE  /\ events'[i].type = "execution_summary" =>
                   events'[i].fill_qty = filled /\ events'[i].last_px = events'[Max(T)].price
              /\ events'[i].type = "execution_report" /\ events'[i].exec_type = "trade" =>
                   /\ events'[i].last_qty = filled /\ events'[i].cum_qty = filled
                   /\ events'[i].leaves_qty = left
                   /\ events'[i].ord_status = "filled" <=> left = 0
  <2>1. CASE i \in DOMAIN events
    BY <1>3, <1>10, <2>1 DEF Unreported
  <2>2. CASE i \notin DOMAIN events
    <3>1. PICK j \in DOMAIN us : events'[i] = us[j]
      BY <1>10, <2>2
    <3>2. CASE us[j].type = "mbo_book_update"
      BY <3>1, <3>2
    <3>3. CASE last_traded # None /\ us[j] = Summary
      <4>1. last_traded = events'[Max(T)].price
        BY <1>14, <1>16, <1>17, <3>3
      <4>2. QED
        BY <1>7, <3>1, <3>3, <4>1
    <3>4. CASE us[j] = FinalReport
      BY <1>8, <3>1, <3>4
    <3>5. QED
      BY <1>6, <3>2, <3>3, <3>4
  <2>3. QED
    BY <2>1, <2>2
<1>20. /\ \A i, j \in T : i < j => NoBetter(request.side, events'[j].price, events'[i].price)
       /\ \A i \in T :
            request.price = 0 \/ NoBetter(request.side, request.price, events'[i].price)
  <2>1. /\ \A i, j \in T : i < j => NoBetter(taker.side, events[j].price, events[i].price)
        /\ \A i \in T : taker.price = 0 \/ NoBetter(taker.side, taker.price, events[i].price)
    BY <1>3 DEF PricedInOrder, T
  <2>2. request.side = taker.side /\ request.price = taker.price
    BY <1>3 DEF Dealt
  <2>3. QED
    BY <1>16, <2>1, <2>2
<1>21. AccountedFor'
  BY <1>1, <1>4, <1>10, <1>11, <1>12, <1>13, <1>18, <1>19, <1>20 DEF AccountedFor
<1>22. QED
  BY <1>1, <1>21 DEF AccountInv

\* Every step keeps the account.
LEMMA NextAccount == IndInv /\ AccountInv /\ [Next]_vars /\ IndInv' => AccountInv'
<1> SUFFICES ASSUME IndInv, AccountInv, [Next]_vars, IndInv' PROVE AccountInv'
  OBVIOUS
<1>1. ASSUME pc = "idle", pc' = "done", taker' = taker PROVE AccountInv'
  BY <1>1 DEF AccountInv, AccountedFor
<1>2. ASSUME NEW r \in Requests, Send(r)
      PROVE  AccountInv'
  <2>1. CASE RejectNewOrder(r) \/ CancelMiss(r) \/ RejectReplace(r) \/ Cancel(r) \/ HandleFlush(r)
    BY <1>1, <2>1
    DEF RejectNewOrder, CancelMiss, RejectReplace, Cancel, HandleFlush, ReturnWith
  <2>2. CASE AcceptNewOrder(r)
    <3>1. /\ pc = "idle" /\ r \in NewOrderSingle /\ BeginMatch(r, << >>)
          /\ << >> \in Seq(Event) /\ DOMAIN << >> = {}
      BY <2>2, RequestFields DEF AcceptNewOrder
    <3>2. QED
      BY <3>1, BeginAccount
  <2>3. CASE AcceptReplace(r)
    <3> DEFINE order == nodes[index[OrigKey(r)]]
               emitted == RemovalUpdate(order)
    <3>1. /\ pc = "idle" /\ r \in ReplaceOrder /\ OrigKey(r) \in DOMAIN index
          /\ \/ BeginMatch(r, emitted)
             \/ pc' = "done" /\ taker' = taker
      BY <2>3, RequestFields DEF AcceptReplace
    <3>2. order \in OrderState
      BY <3>1 DEF IndInv, BookOK, NodeMap, Indexed
    <3>3. order.side \in Side /\ order.security_id \in SecurityIds /\ LevelMap(levels')
      BY <3>2 DEF OrderState, IndInv, BookOK
    <3> HIDE DEF order
    <3>4. emitted \in Seq(Event)
      BY <3>3, UpdateType DEF RemovalUpdate
    <3>5. \A j \in DOMAIN emitted : emitted[j].type = "mbo_book_update"
      BY UpdateOnly DEF RemovalUpdate
    <3> HIDE DEF emitted
    <3>6. QED
      BY <1>1, <3>1, <3>4, <3>5, BeginAccount
  <2>4. QED
    BY <1>2, <2>1, <2>2, <2>3 DEF Send
<1>3. CASE Fill
  BY <1>3, FillAccount
<1>4. CASE Settle
  BY <1>4, SettleAccount
<1>5. CASE Return
  BY <1>5 DEF Return, AccountInv, AccountedFor
<1>6. CASE UNCHANGED vars
  BY <1>6
  DEF vars, AccountInv, AccountedFor, Dealt, Unreported, PricedInOrder, Ahead, Prices
<1>7. QED
  BY <1>2, <1>3, <1>4, <1>5, <1>6 DEF Next

\* Between requests there is nothing to account for.
LEMMA InitAccount == Init => AccountInv
BY DEF Init, AccountInv, AccountedFor

-----------------------------------------------------------------------------
(* The theorems *)

\* The invariant of the books holds in every reachable state, inside match() too.
THEOREM BookInvariance == Spec => []BookInv
BY Invariance, InitBook, NextBook, PTL DEF Spec

\* A fill takes from the taker: the maker is an order at rest, which has
\* quantity left.
LEMMA FillProgress ==
  ASSUME IndInv, BookInv, Fill
  PROVE  taker'.leaves_qty \in 0 .. taker.leaves_qty - 1
<1> DEFINE p == Current
           k == EatenLevel(p)
           fifo == levels[k].orders
           n == Head(fifo)
           maker == nodes[n]
           qty == FillQty(maker)
<1>1. /\ pc = "match" /\ CanFill
      /\ taker' = [taker EXCEPT !.leaves_qty = @ - qty]
  BY DEF Fill, EatenLevel
<1>2. /\ NodeMap(nodes) /\ LevelMap(levels)
      /\ Indexed(nodes, index) /\ Linked(nodes, levels)
  BY DEF IndInv, BookOK
<1>3. taker \in OrderState
  BY <1>1 DEF IndInv, TakerInScope
<1>4. p \in Ahead
  <2>1. Ahead # {} /\ Ahead \subseteq Price
    BY <1>1 DEF CanFill, Ahead, Prices
  <2>2. QED
    BY <2>1, FrontInSet DEF Current
<1>5. p \notin consumed /\ k \in DOMAIN levels
  BY <1>4 DEF Ahead, Prices, EatenLevel
<1> HIDE DEF p
<1>6. fifo # << >>
  <2>1. \A q \in consumed : k # EatenLevel(q)
    BY <1>5 DEF EatenLevel
  <2>2. QED
    BY <1>5, <2>1 DEF IndInv, EmptiedLevels
<1>7. fifo \in Seq(NodeIds)
  <2>1. levels[k] \in PriceLevel
    BY <1>2, <1>5 DEF LevelMap
  <2>2. QED
    BY <2>1 DEF PriceLevel
<1> HIDE DEF k
<1>8. 1 \in DOMAIN fifo /\ fifo[1] = n
  BY <1>6, <1>7
<1>9. n \in DOMAIN nodes /\ maker.leaves_qty \in Quantity
  BY <1>2, <1>5, <1>8, LevelQuantities
<1>10. maker.leaves_qty > 0 /\ taker.leaves_qty > 0 /\ taker.leaves_qty \in Quantity
  BY <1>1, <1>3, <1>9 DEF BookInv, Books, Live, CanFill, OrderState
<1>11. qty \in Nat /\ 0 < qty /\ qty <= taker.leaves_qty
  BY <1>9, <1>10 DEF FillQty, Quantity
<1> HIDE DEF qty
<1>12. taker'.leaves_qty = taker.leaves_qty - qty
  BY <1>1, <1>3 DEF OrderState
<1>13. taker.leaves_qty \in Nat
  BY <1>10 DEF Quantity
<1>14. QED
  BY <1>11, <1>12, <1>13

\* match() ends after at most as many trades as its order has quantity, none of
\* them of zero, for every state of the books that the engine can be in
\* (matching.hpp:85-116, 130-163).
THEOREM MatchProgress == Spec => MatchProgresses
<1>1. ASSUME IndInv, BookInv, Next, pc = "match", pc' = "match"
      PROVE  taker'.leaves_qty \in 0 .. taker.leaves_qty - 1
  <2>1. CASE Fill
    BY <1>1, <2>1, FillProgress
  <2>2. CASE Settle \/ Return
    BY <1>1, <2>2 DEF Settle, Return
  <2>3. ASSUME NEW r \in Requests, Send(r) PROVE FALSE
    BY <1>1, <2>3 DEF Send, RejectNewOrder, AcceptNewOrder, CancelMiss, Cancel,
                      RejectReplace, AcceptReplace, HandleFlush
  <2>4. QED
    BY <1>1, <2>1, <2>2, <2>3 DEF Next
<1>2. IndInv /\ BookInv /\ [Next]_vars =>
        [pc = "match" /\ pc' = "match" =>
           taker'.leaves_qty \in 0 .. taker.leaves_qty - 1]_vars
  BY <1>1
<1>3. QED
  BY <1>2, Invariance, BookInvariance, PTL DEF Spec, MatchProgresses

\* Between requests no book of the engine is crossed, has an empty level or a
\* level without a price, or holds an order without remaining quantity: match()
\* and place() leave it so, whatever the requests.
THEOREM BookAtRestHolds == Spec => []BookAtRest
BY Invariance, BookInvariance, BookInvImplies, PTL

\* Every FIFO is in the order of arrival: fills, cancels from the middle and
\* replaces never change the order of the others (order_book.hpp:170-190).
THEOREM ArrivalOrderHolds == Spec => []ArrivalOrder
BY Invariance, BookInvariance, BookInvImplies, PTL

\* total_remaining is the sum of the remaining quantities of its level, modulo
\* the width, after any number of places, cancels and fills that wrap.
THEOREM LevelTotalsHold == Spec => []LevelTotals
BY Invariance, BookInvariance, BookInvImplies, PTL

\* While an order is matched its trades add up to what it has lost, in the
\* order of the prices, and nothing is reported before the end.
THEOREM AccountInvariance == Spec => []AccountInv
<1>1. Init => IndInv /\ AccountInv
  BY InitInv, InitAccount
<1>2. IndInv /\ AccountInv /\ [Next]_vars => (IndInv /\ AccountInv)'
  BY NextInv, NextAccount
<1>3. QED
  BY <1>1, <1>2, PTL DEF Spec

\* No quantity of an order is traded twice, lost or reported differently by the
\* trades, the summary, the trade report and the book, for every sequence of
\* requests; and no trade is outside the limit or out of price priority.
THEOREM AccountedForHolds == Spec => []AccountedFor
<1>1. AccountInv => AccountedFor
  BY DEF AccountInv
<1>2. QED
  BY <1>1, AccountInvariance, PTL

-----------------------------------------------------------------------------
(* The history of the orders at rest *)

\* earlier relates orders at rest only, and never in both directions.
HistoryInv ==
  /\ \A pair \in earlier : pair[1] \in DOMAIN index /\ pair[2] \in DOMAIN index
  /\ \A a, b : <<a, b>> \in earlier => <<b, a>> \notin earlier

\* The engine starts without a history.
LEMMA InitHistory == Init => HistoryInv
BY DEF Init, HistoryInv

\* An order that goes, goes from the history.
LEMMA ForgetHistory ==
  ASSUME HistoryInv, NEW S, earlier' = {pair \in earlier : pair[1] \notin S /\ pair[2] \notin S},
         DOMAIN index' = DOMAIN index \ S
  PROVE  HistoryInv'
BY DEF HistoryInv

\* An order that rests is behind all the others.
LEMMA PlaceHistory ==
  ASSUME HistoryInv, NEW key, key \notin DOMAIN index, DOMAIN index' = DOMAIN index \cup {key},
         earlier' = earlier \cup {<<x, key>> : x \in DOMAIN index}
  PROVE  HistoryInv'
<1>1. \A pair \in earlier' : pair[1] \in DOMAIN index' /\ pair[2] \in DOMAIN index'
  BY DEF HistoryInv
<1>2. \A a, b : <<a, b>> \in earlier => a # key /\ b # key
  BY DEF HistoryInv
<1>3. \A a, b : <<a, b>> \in earlier' <=> <<a, b>> \in earlier \/ (b = key /\ a \in DOMAIN index)
  OBVIOUS
<1>4. \A a, b : <<a, b>> \in earlier' => <<b, a>> \notin earlier'
  BY <1>2, <1>3 DEF HistoryInv
<1>5. QED
  BY <1>1, <1>4 DEF HistoryInv

-----------------------------------------------------------------------------
(* The orders at rest, as the clients see them *)

\* Removing orders from the index and the pool.
LEMMA RestingErase ==
  ASSUME BookOK, NEW S, DOMAIN index' = DOMAIN index \ S,
         \A k \in DOMAIN index' : index'[k] = index[k] /\ nodes'[index[k]] = nodes[index[k]]
  PROVE  Resting' = [k \in DOMAIN Resting \ S |-> Resting[k]]
BY DEF Resting

\* One order that the index names is removed.
LEMMA RestingRemove ==
  ASSUME BookOK, NEW n \in DOMAIN nodes, nodes' = Without(nodes, {n}),
         index' = Without(index, {KeyOf(nodes[n])})
  PROVE  /\ DOMAIN index' = DOMAIN index \ {KeyOf(nodes[n])}
         /\ Resting' = [k \in DOMAIN Resting \ {KeyOf(nodes[n])} |-> Resting[k]]
<1>1. /\ DOMAIN index' = DOMAIN index \ {KeyOf(nodes[n])}
      /\ \A k \in DOMAIN index' : index'[k] = index[k]
  BY DEF Without, Restrict
<1>2. \A m \in DOMAIN nodes : m # n => nodes'[m] = nodes[m]
  BY DEF Without, Restrict
<1>3. \A k \in DOMAIN index' : nodes'[index[k]] = nodes[index[k]]
  BY <1>1, <1>2 DEF BookOK, Indexed
<1>4. QED
  BY <1>1, <1>3, RestingErase

\* A handler that leaves index and pool alone leaves the orders at rest alone.
LEMMA RestingSame ==
  ASSUME nodes' = nodes, index' = index
  PROVE  Resting' = Resting
BY DEF Resting

-----------------------------------------------------------------------------
(* Every step of the engine is a step of the abstract specification *)

\* A handler that changes nothing.
LEMMA IdleStep ==
  ASSUME nodes' = nodes, index' = index, earlier' = earlier, pc # "match", pc' # "match"
  PROVE  UNCHANGED PTP!vars
BY RestingSame DEF PTP!vars

\* Cancel and replace take out the order that they name.
LEMMA RemoveStep ==
  ASSUME IndInv, HistoryInv, NEW key \in DOMAIN index, RemoveResting(key)
  PROVE  /\ PTP!Remove({key})
         /\ HistoryInv'
<1> DEFINE n == index[key]
<1>1. n \in DOMAIN nodes /\ KeyOf(nodes[n]) = key
  BY DEF IndInv, BookOK, Indexed
<1>2. /\ nodes' = Without(nodes, {n}) /\ index' = Without(index, {key})
      /\ earlier' = {pair \in earlier : pair[1] # key /\ pair[2] # key}
  BY DEF RemoveResting
<1> HIDE DEF n
<1>3. DOMAIN index' = DOMAIN index \ {key}
      /\ Resting' = [k \in DOMAIN Resting \ {key} |-> Resting[k]]
  BY <1>1, <1>2, RestingRemove DEF IndInv
<1>4. earlier' = {pair \in earlier : pair[1] \notin {key} /\ pair[2] \notin {key}}
  BY <1>2
<1>5. QED
  BY <1>3, <1>4, ForgetHistory DEF PTP!Remove

\* engine::send, by the alternatives of the request.
LEMMA SendStep ==
  ASSUME IndInv, HistoryInv, NEW r \in Requests, Send(r)
  PROVE  [PTP!Next]_(PTP!vars) /\ HistoryInv'
<1>1. pc = "idle" /\ DOMAIN Resting = DOMAIN index
  BY DEF Send, RejectNewOrder, AcceptNewOrder, CancelMiss, Cancel, RejectReplace,
         AcceptReplace, HandleFlush, Resting
<1>2. CASE RejectNewOrder(r) \/ CancelMiss(r) \/ RejectReplace(r)
  <2>1. nodes' = nodes /\ index' = index /\ earlier' = earlier /\ pc' = "done"
    BY <1>2 DEF RejectNewOrder, CancelMiss, RejectReplace, ReturnWith, book, history
  <2>2. HistoryInv'
    BY <2>1 DEF HistoryInv
  <2>3. QED
    BY <1>1, <2>1, <2>2, IdleStep
<1>3. CASE AcceptNewOrder(r)
  <2>1. /\ r.type = "new_order_single" /\ ~contains(r) /\ r.symbol \in BookSymbols
        /\ pc' = "match" /\ taker' = make_order_state(r)
        /\ nodes' = nodes /\ index' = index /\ earlier' = earlier
    BY <1>3 DEF AcceptNewOrder, BeginMatch, book
  <2>2. HistoryInv'
    BY <2>1 DEF HistoryInv
  <2>3. PTP!Submit(r)
    BY <1>1, <2>1, RestingSame
    DEF PTP!Submit, PTP!KeyOf, PTP!Order, make_order_state, contains
  <2>4. QED
    BY <2>2, <2>3 DEF PTP!Next
<1>4. CASE Cancel(r)
  <2>1. /\ r.type = "cancel_order" /\ OrigKey(r) \in DOMAIN index
        /\ RemoveResting(OrigKey(r)) /\ pc' = "done"
    BY <1>4 DEF Cancel
  <2>2. PTP!Remove({OrigKey(r)}) /\ HistoryInv'
    BY <2>1, RemoveStep
  <2>3. PTP!Withdraw(r)
    BY <1>1, <2>1, <2>2 DEF PTP!Withdraw, OrigKey
  <2>4. QED
    BY <2>2, <2>3 DEF PTP!Next
<1>5. CASE AcceptReplace(r)
  <2>1. /\ r.type = "replace_order" /\ OrigKey(r) \in DOMAIN index /\ ~contains(r)
        /\ RemoveResting(OrigKey(r))
        /\ \/ r.symbol \in BookSymbols /\ pc' = "match" /\ taker' = make_order_state(r)
           \/ r.symbol \notin BookSymbols /\ pc' = "done"
    BY <1>5 DEF AcceptReplace, BeginMatch
  <2>2. PTP!Remove({OrigKey(r)}) /\ HistoryInv'
    BY <2>1, RemoveStep
  <2>3. PTP!Amend(r)
    BY <1>1, <2>1, <2>2 DEF PTP!Amend, PTP!KeyOf, PTP!Order, make_order_state, OrigKey, contains
  <2>4. QED
    BY <2>2, <2>3 DEF PTP!Next
<1>6. CASE HandleFlush(r)
  <2> DEFINE drained == UNION {Range(levels[k].orders) : k \in DOMAIN levels}
             keys == {KeyOf(nodes[n]) : n \in drained}
  <2>1. /\ r.type = "flush" /\ pc' = "done" /\ index' = Without(index, keys)
        /\ earlier' = {pair \in earlier : pair[1] \notin keys /\ pair[2] \notin keys}
    BY <1>6 DEF HandleFlush
  <2>2. DOMAIN index \subseteq keys
    <3>1. ASSUME NEW key \in DOMAIN index
          PROVE  key \in keys
      <4>1. index[key] \in DOMAIN nodes /\ KeyOf(nodes[index[key]]) = key
        BY DEF IndInv, BookOK, Indexed
      <4>2. PICK k \in DOMAIN levels : Holds(levels[k].orders, index[key])
        BY <4>1 DEF IndInv, BookOK, Linked
      <4>3. index[key] \in Range(levels[k].orders)
        BY <4>2 DEF Holds, Range
      <4>4. index[key] \in drained
        BY <4>3
      <4>5. QED
        BY <4>1, <4>4
    <3>2. QED
      BY <3>1
  <2> HIDE DEF keys
  <2>3. DOMAIN index' = {}
    BY <2>1, <2>2 DEF Without, Restrict
  <2>4. earlier' = {} /\ {pair \in earlier : pair[1] \notin DOMAIN index /\ pair[2] \notin DOMAIN index} = {}
    BY <2>1, <2>2 DEF HistoryInv
  <2>5. HistoryInv'
    BY <2>3, <2>4 DEF HistoryInv
  <2>6. Resting' = [k \in DOMAIN Resting \ DOMAIN Resting |-> Resting[k]]
    <3>1. DOMAIN Resting \ DOMAIN Resting = {}
      OBVIOUS
    <3>2. QED
      BY <2>3, <3>1 DEF Resting
  <2>7. PTP!Clear(r)
    BY <1>1, <2>1, <2>4, <2>6 DEF PTP!Clear, PTP!Remove
  <2>8. QED
    BY <2>5, <2>7 DEF PTP!Next
<1>7. QED
  BY <1>2, <1>3, <1>4, <1>5, <1>6 DEF Send

-----------------------------------------------------------------------------
(* match() picks the order that the priority rule picks *)

\* Prices are numbers, and an order of the pool has the fields of an order.
LEMMA RestingFields ==
  ASSUME IndInv, NEW l \in DOMAIN index
  PROVE  /\ index[l] \in DOMAIN nodes /\ nodes[index[l]] \in OrderState
         /\ KeyOf(nodes[index[l]]) = l
         /\ nodes[index[l]].price \in Price /\ nodes[index[l]].price \in Nat
         /\ nodes[index[l]].side \in Side /\ nodes[index[l]].leaves_qty \in Quantity
<1>1. index[l] \in DOMAIN nodes /\ KeyOf(nodes[index[l]]) = l
  BY DEF IndInv, BookOK, Indexed
<1>2. nodes[index[l]] \in OrderState
  BY <1>1 DEF IndInv, BookOK, NodeMap
<1>3. Price \subseteq Nat
  BY WidthAssumption DEF Price
<1> DEFINE o == nodes[index[l]]
<1>4. o.price \in Price /\ o.side \in Side /\ o.leaves_qty \in Quantity
  <2> o \in OrderState
    BY <1>2
  <2> HIDE DEF o
  <2>1. QED
    BY DEF OrderState
<1>5. QED
  BY <1>1, <1>2, <1>3, <1>4

\* The taker has the fields of an order, and an order is no empty optional.
LEMMA TakerFields ==
  ASSUME IndInv, pc = "match"
  PROVE  /\ taker \in OrderState /\ taker # None /\ KeyOf(taker) \notin DOMAIN index
         /\ taker.price \in Nat /\ taker.side \in Side /\ taker.leaves_qty \in Quantity
<1>1. taker \in OrderState /\ KeyOf(taker) \notin DOMAIN index
  BY DEF IndInv, TakerInScope
<1>2. Price \subseteq Nat
  BY WidthAssumption DEF Price
<1>3. taker.price \in Price /\ taker.side \in Side /\ taker.leaves_qty \in Quantity
  BY <1>1 DEF OrderState
<1>4. QED
  BY <1>1, <1>2, <1>3, NoneAssumption

\* The side of a book that the taker eats.
Facing(l) ==
  nodes[index[l]].symbol = taker.symbol /\ nodes[index[l]].side # taker.side

\* crosses() is the price condition of the rule.
LEMMA TradableCrosses ==
  ASSUME IndInv, pc = "match", NEW l \in DOMAIN index
  PROVE  PTP!Tradable(l) <=> Facing(l) /\ crosses(taker, nodes[index[l]].price)
<1> DEFINE o == nodes[index[l]]
<1>1. o.price \in Nat /\ taker.price \in Nat
  BY RestingFields, TakerFields
<1>2. Resting[l] = o
  BY DEF Resting
<1> HIDE DEF o
<1>3. PTP!Tradable(l) <=>
        /\ o.symbol = taker.symbol
        /\ o.side # taker.side
        /\ \/ taker.price = 0
           \/ taker.side = "buy" /\ o.price <= taker.price
           \/ taker.side = "sell" /\ o.price >= taker.price
  BY <1>2 DEF PTP!Tradable
<1>4. Facing(l) <=> o.symbol = taker.symbol /\ o.side # taker.side
  BY DEF Facing, o
<1>5. crosses(taker, o.price) <=>
        \/ taker.price = 0
        \/ taker.side = "buy" /\ o.price <= taker.price
        \/ taker.side = "sell" /\ o.price >= taker.price
  BY <1>1 DEF crosses
<1>6. QED
  BY <1>3, <1>4, <1>5 DEF o

\* match()'s iterator has left no order behind: every order of the side is at
\* or behind the current level.
LEMMA FacingIsAhead ==
  ASSUME IndInv, pc = "match", NEW l \in DOMAIN index, Facing(l)
  PROVE  /\ LevelOf(nodes[index[l]]) = EatenLevel(nodes[index[l]].price)
         /\ Ahead # {} /\ Current \in Nat
         /\ taker.side = "sell" => nodes[index[l]].price <= Current
         /\ taker.side = "buy" => Current <= nodes[index[l]].price
<1> DEFINE n == index[l]
           o == nodes[n]
<1>1. /\ n \in DOMAIN nodes /\ o.price \in Price /\ o.side \in Side /\ taker.side \in Side
  BY RestingFields, TakerFields
<1>2. LevelOf(o) = EatenLevel(o.price)
  BY <1>1 DEF LevelOf, EatenLevel, Opposite, Side, Facing
<1>3. LevelOf(o) \in DOMAIN levels /\ levels[LevelOf(o)].orders # << >>
  <2>1. LevelOf(o) \in DOMAIN levels /\ Holds(levels[LevelOf(o)].orders, n)
    BY <1>1 DEF IndInv, BookOK, Linked
  <2>2. QED
    BY <2>1 DEF Holds
<1>4. o.price \notin consumed
  BY <1>2, <1>3 DEF IndInv, EmptiedLevels
<1>5. o.price \in Ahead
  BY <1>1, <1>2, <1>3, <1>4 DEF Ahead, Prices, EatenLevel
<1>6. Ahead # {} /\ Ahead \subseteq Price
  BY <1>5 DEF Ahead, Prices
<1>7. Current \in Price
  BY <1>6, FrontInSet DEF Current
<1>8. IF Opposite(taker.side) = "buy" THEN o.price <= Current ELSE Current <= o.price
  BY <1>5, <1>6, FrontIsBest DEF Current
<1>9. Price \subseteq Nat
  BY WidthAssumption DEF Price
<1> HIDE DEF o, n
<1>10. /\ taker.side = "sell" => o.price <= Current
       /\ taker.side = "buy" => Current <= o.price
  BY <1>8 DEF Opposite
<1>11. QED
  BY <1>2, <1>6, <1>7, <1>9, <1>10 DEF o, n

\* The head of the current level: the rule lets the taker trade with it, and
\* no other order it may trade with comes first.
LEMMA HeadIsFirst ==
  ASSUME IndInv, BookInv, HistoryInv, pc = "match", CanFill,
         NEW n, n = Head(levels[EatenLevel(Current)].orders)
  PROVE  /\ n \in DOMAIN nodes /\ KeyOf(nodes[n]) \in DOMAIN index
         /\ index[KeyOf(nodes[n])] = n
         /\ PTP!Tradable(KeyOf(nodes[n]))
         /\ \A l \in DOMAIN index : PTP!Tradable(l) => ~PTP!Precedes(l, KeyOf(nodes[n]))
<1> DEFINE p == Current
           k == EatenLevel(p)
           fifo == levels[k].orders
           key == KeyOf(nodes[n])
<1>1. p \in Ahead
  <2>1. Ahead # {} /\ Ahead \subseteq Price
    BY DEF CanFill, Ahead, Prices
  <2>2. QED
    BY <2>1, FrontInSet DEF Current
<1>2. p \in Price /\ p \in Nat /\ p \notin consumed /\ k \in DOMAIN levels
  BY <1>1, WidthAssumption DEF Ahead, Prices, EatenLevel, Price
<1>3. crosses(taker, p)
  BY DEF CanFill
<1>4. n = Head(fifo)
  OBVIOUS
<1> HIDE DEF p
<1>5. fifo # << >>
  <2>1. \A q \in consumed : k # EatenLevel(q)
    BY <1>2 DEF EatenLevel
  <2>2. QED
    BY <1>2, <2>1 DEF IndInv, EmptiedLevels
<1>6. fifo \in Seq(NodeIds)
  <2>1. levels[k] \in PriceLevel
    BY <1>2 DEF IndInv, BookOK, LevelMap
  <2>2. QED
    BY <2>1 DEF PriceLevel
<1>7. 1 \in DOMAIN fifo /\ fifo[1] = n
  BY <1>4, <1>5, <1>6
<1>8. n \in DOMAIN nodes /\ LevelOf(nodes[n]) = k
  BY <1>2, <1>7 DEF IndInv, BookOK, Linked, Holds
<1>9. key \in DOMAIN index /\ index[key] = n
  BY <1>8 DEF IndInv, BookOK, Indexed
<1>10. nodes[n].symbol = taker.symbol /\ nodes[n].side = Opposite(taker.side) /\ nodes[n].price = p
  BY <1>8 DEF LevelOf, EatenLevel
<1>11. Facing(key)
  BY <1>9, <1>10, TakerFields DEF Facing, Opposite, Side
<1>12. PTP!Tradable(key)
  BY <1>3, <1>9, <1>10, <1>11, TradableCrosses
<1>13. ASSUME NEW l \in DOMAIN index, PTP!Tradable(l)
       PROVE  ~PTP!Precedes(l, key)
  <2> DEFINE m == index[l]
             o == nodes[m]
  <2>1. Facing(l)
    BY <1>13, TradableCrosses
  <2>2. /\ LevelOf(o) = EatenLevel(o.price)
        /\ taker.side = "sell" => o.price <= p
        /\ taker.side = "buy" => p <= o.price
    BY <2>1, FacingIsAhead DEF p
  <2>3. m \in DOMAIN nodes /\ KeyOf(o) = l /\ o.price \in Nat
    BY RestingFields
  <2>4. Resting[l] = o /\ Resting[key] = nodes[n]
    BY <1>9 DEF Resting
  <2>5. o.price = p => <<l, key>> \notin earlier
    <3>1. SUFFICES ASSUME o.price = p PROVE <<l, key>> \notin earlier
      OBVIOUS
    <3>2. Holds(fifo, m)
      BY <2>2, <2>3, <3>1 DEF IndInv, BookOK, Linked
    <3>3. PICK j \in DOMAIN fifo : fifo[j] = m
      BY <3>2 DEF Holds
    <3>4. CASE j = 1
      BY <1>7, <2>3, <3>3, <3>4 DEF HistoryInv
    <3>5. CASE j # 1
      <4>1. 1 < j
        BY <1>6, <3>5
      <4>2. <<KeyOf(nodes[fifo[1]]), KeyOf(nodes[fifo[j]])>> \in earlier
        BY <1>2, <1>7, <4>1 DEF BookInv, Books, Ordered, InOrder
      <4>3. <<key, l>> \in earlier
        BY <1>7, <2>3, <3>3, <4>2
      <4>4. QED
        BY <4>3 DEF HistoryInv
    <3>6. QED
      BY <3>4, <3>5
  <2> HIDE DEF o, key
  <2>6. PTP!Precedes(l, key) <=>
          \/ taker.side = "buy" /\ o.price < p
          \/ taker.side = "sell" /\ o.price > p
          \/ o.price = p /\ <<l, key>> \in earlier
    BY <1>10, <2>4 DEF PTP!Precedes
  <2>7. QED
    BY <1>2, <2>2, <2>3, <2>5, <2>6
<1>14. QED
  BY <1>8, <1>9, <1>12, <1>13

-----------------------------------------------------------------------------
(* The steps of match() *)

\* One iteration of consume_level is one trade of the rule.
LEMMA FillStep ==
  ASSUME IndInv, BookInv, HistoryInv, Fill
  PROVE  PTP!Execute /\ HistoryInv'
<1> DEFINE n == Head(levels[EatenLevel(Current)].orders)
           maker == nodes[n]
           key == KeyOf(maker)
           qty == FillQty(maker)
           whole == maker.leaves_qty = qty
           shrunk == [maker EXCEPT !.leaves_qty = @ - qty]
<1>1. /\ pc = "match" /\ pc' = "match" /\ CanFill
      /\ taker' = [taker EXCEPT !.leaves_qty = @ - qty]
      /\ \/ /\ whole /\ nodes' = Without(nodes, {n}) /\ index' = Without(index, {key})
            /\ earlier' = {pair \in earlier : pair[1] # key /\ pair[2] # key}
         \/ /\ ~whole /\ nodes' = Assign(nodes, n, shrunk)
            /\ index' = index /\ earlier' = earlier
  BY DEF Fill, EatenLevel
<1>2. /\ n \in DOMAIN nodes /\ key \in DOMAIN index /\ index[key] = n
      /\ PTP!Tradable(key)
      /\ \A l \in DOMAIN index : PTP!Tradable(l) => ~PTP!Precedes(l, key)
  BY <1>1, HeadIsFirst
<1> HIDE DEF n
<1>3. /\ taker \in OrderState /\ taker # None /\ taker.leaves_qty \in Quantity
      /\ taker.leaves_qty > 0
  BY <1>1, TakerFields DEF CanFill
<1>4. maker \in OrderState /\ maker.leaves_qty \in Quantity
  BY <1>2, RestingFields
<1>5. maker.leaves_qty \in Nat /\ taker.leaves_qty \in Nat
  BY <1>3, <1>4, WidthAssumption DEF Quantity
<1> HIDE DEF maker
<1>6. /\ whole <=> maker.leaves_qty <= taker.leaves_qty
      /\ whole => qty = maker.leaves_qty
      /\ ~whole => qty = taker.leaves_qty
  BY <1>5 DEF FillQty
<1>7. DOMAIN Resting = DOMAIN index /\ Resting[key] = maker
  BY <1>2 DEF Resting, maker
<1> DEFINE Rule(k) ==
      \/ /\ Resting[k].leaves_qty <= taker.leaves_qty
         /\ PTP!Remove({k})
         /\ taker' = [taker EXCEPT !.leaves_qty = taker.leaves_qty - Resting[k].leaves_qty]
      \/ /\ Resting[k].leaves_qty > taker.leaves_qty
         /\ Resting' = [Resting EXCEPT ![k].leaves_qty = Resting[k].leaves_qty - taker.leaves_qty]
         /\ taker' = [taker EXCEPT !.leaves_qty = 0]
         /\ earlier' = earlier
<1>8. ASSUME whole PROVE Rule(key) /\ HistoryInv'
  <2>1. /\ nodes' = Without(nodes, {n}) /\ index' = Without(index, {key})
        /\ earlier' = {pair \in earlier : pair[1] \notin {key} /\ pair[2] \notin {key}}
    BY <1>1, <1>8
  <2>2. /\ DOMAIN index' = DOMAIN index \ {key}
        /\ Resting' = [k \in DOMAIN Resting \ {key} |-> Resting[k]]
    BY <1>2, <2>1, RestingRemove DEF IndInv, maker
  <2>3. HistoryInv'
    BY <2>1, <2>2, ForgetHistory
  <2>4. PTP!Remove({key})
    BY <2>1, <2>2 DEF PTP!Remove
  <2>5. Rule(key)
    BY <1>1, <1>6, <1>7, <1>8, <2>4
  <2>6. QED
    BY <2>3, <2>5
<1>9. ASSUME ~whole PROVE Rule(key) /\ HistoryInv'
  <2>1. nodes' = Assign(nodes, n, shrunk) /\ index' = index /\ earlier' = earlier
    BY <1>1, <1>9
  <2>2. HistoryInv'
    BY <2>1 DEF HistoryInv
  <2>3. taker.leaves_qty - qty = 0 /\ maker.leaves_qty > taker.leaves_qty
    BY <1>5, <1>6, <1>9
  <2>4. shrunk = [maker EXCEPT !.leaves_qty = maker.leaves_qty - taker.leaves_qty]
    BY <1>6, <1>9
  <2> HIDE DEF shrunk, qty
  <2>5. \A l \in DOMAIN index : l # key => index[l] \in DOMAIN nodes /\ index[l] # n
    BY <1>2 DEF IndInv, BookOK, Indexed, maker
  <2>6. Resting' = [Resting EXCEPT ![key] = shrunk]
    <3>1. \A l \in DOMAIN index : nodes'[index[l]] = IF l = key THEN shrunk ELSE nodes[index[l]]
      BY <1>2, <2>1, <2>5 DEF Assign
    <3>2. QED
      BY <1>2, <2>1, <3>1 DEF Resting
  <2>7. Rule(key)
    <3>1. Resting' = [Resting EXCEPT ![key].leaves_qty = Resting[key].leaves_qty - taker.leaves_qty]
      BY <1>7, <2>4, <2>6
    <3>2. QED
      BY <1>1, <1>7, <2>1, <2>3, <3>1
  <2>8. QED
    BY <2>2, <2>7
<1>10. PTP!Execute
  <2>1. Rule(key)
    BY <1>8, <1>9
  <2>2. \E k \in DOMAIN Resting :
          /\ PTP!Tradable(k)
          /\ \A l \in DOMAIN Resting : PTP!Tradable(l) => ~PTP!Precedes(l, k)
          /\ Rule(k)
    BY <1>2, <1>7, <2>1
  <2>3. QED
    BY <1>1, <1>3, <2>2 DEF PTP!Execute
<1>11. QED
  BY <1>8, <1>9, <1>10

\* When the loop ends the taker is exhausted or no order at rest may trade with it.
LEMMA NothingLeft ==
  ASSUME IndInv, pc = "match", ~CanFill, taker.leaves_qty # 0, NEW l \in DOMAIN index
  PROVE  ~PTP!Tradable(l)
<1> DEFINE q == nodes[index[l]].price
<1>1. SUFFICES ASSUME Facing(l) PROVE ~crosses(taker, q)
  BY TradableCrosses
<1>2. /\ Ahead # {} /\ Current \in Nat
      /\ taker.side = "sell" => q <= Current
      /\ taker.side = "buy" => Current <= q
  BY <1>1, FacingIsAhead
<1>3. q \in Nat /\ taker.price \in Nat
  BY RestingFields, TakerFields
<1>4. ~crosses(taker, Current)
  BY <1>2, TakerFields, WidthAssumption DEF CanFill, Quantity
<1> HIDE DEF q
<1>5. QED
  BY <1>2, <1>3, <1>4 DEF crosses

\* Everything after match(): the remainder of a limit order comes to rest.
LEMMA SettleStep ==
  ASSUME IndInv, HistoryInv, Settle
  PROVE  PTP!Finish /\ HistoryInv'
<1> DEFINE key == KeyOf(taker)
<1>1. pc = "match" /\ pc' = "done" /\ ~CanFill /\ PlaceResidual(BulkErase(levels))
  BY DEF Settle
<1>2. taker # None /\ taker.leaves_qty \in Nat /\ key \notin DOMAIN index
  BY <1>1, TakerFields, WidthAssumption DEF Quantity
<1>3. DOMAIN Resting = DOMAIN index
  BY DEF Resting
<1>4. taker.leaves_qty = 0 \/ \A l \in DOMAIN index : ~PTP!Tradable(l)
  BY <1>1, NothingLeft
<1>5. CASE ~ShouldPlace
  <2>1. nodes' = nodes /\ index' = index /\ earlier' = earlier
    BY <1>1, <1>5 DEF PlaceResidual
  <2>2. HistoryInv'
    BY <2>1 DEF HistoryInv
  <2>3. taker.leaves_qty = 0 \/ taker.price = 0
    BY <1>2, <1>5 DEF ShouldPlace
  <2>4. PTP!Finish
    BY <1>1, <1>2, <1>3, <1>4, <2>1, <2>3, RestingSame DEF PTP!Finish
  <2>5. QED
    BY <2>2, <2>4
<1>6. CASE ShouldPlace
  <2>1. PICK n \in NodeIds \ DOMAIN nodes :
          nodes' = Assign(nodes, n, taker) /\ index' = Emplace(index, key, n)
    BY <1>1, <1>6 DEF PlaceResidual
  <2>2. earlier' = earlier \cup {<<k, key>> : k \in DOMAIN index}
    BY <1>1, <1>6 DEF PlaceResidual
  <2>3. taker.leaves_qty > 0 /\ taker.price # 0
    BY <1>6 DEF ShouldPlace
  <2>4. PTP!KeyOf(taker) = key
    BY DEF PTP!KeyOf, KeyOf
  <2> HIDE DEF key
  <2>5. /\ DOMAIN index' = DOMAIN index \cup {key} /\ index'[key] = n
        /\ \A l \in DOMAIN index : index'[l] = index[l]
    BY <1>2, <2>1 DEF Emplace, Assign
  <2>6. HistoryInv'
    BY <1>2, <2>2, <2>5, PlaceHistory
  <2>7. nodes'[n] = taker /\ \A l \in DOMAIN index : nodes'[index[l]] = nodes[index[l]]
    BY <2>1 DEF Assign, IndInv, BookOK, Indexed
  <2>8. Resting' = [k \in DOMAIN Resting \cup {key} |-> IF k = key THEN taker ELSE Resting[k]]
    BY <1>2, <1>3, <2>5, <2>7 DEF Resting
  <2>9. PTP!Finish
    BY <1>1, <1>2, <1>3, <1>4, <2>2, <2>3, <2>4, <2>8 DEF PTP!Finish
  <2>10. QED
    BY <2>6, <2>9
<1>7. QED
  BY <1>5, <1>6

-----------------------------------------------------------------------------
(* The theorems *)

\* The engine starts where the rule starts.
LEMMA InitStep == Init => PTP!Init
<1> SUFFICES ASSUME Init PROVE PTP!Init
  OBVIOUS
<1>1. index = << >> /\ earlier = {} /\ pc = "idle"
  BY DEF Init
<1>2. Resting = << >>
  BY <1>1 DEF Resting
<1>3. QED
  BY <1>1, <1>2 DEF PTP!Init

\* Every step of the engine is a step of the rule, or changes nothing it sees.
LEMMA NextStep ==
  IndInv /\ BookInv /\ HistoryInv /\ [Next]_vars => [PTP!Next]_(PTP!vars) /\ HistoryInv'
<1> SUFFICES ASSUME IndInv, BookInv, HistoryInv, [Next]_vars
             PROVE  [PTP!Next]_(PTP!vars) /\ HistoryInv'
  OBVIOUS
<1>1. CASE \E r \in Requests : Send(r)
  BY <1>1, SendStep
<1>2. CASE Fill
  BY <1>2, FillStep DEF PTP!Next
<1>3. CASE Settle
  BY <1>3, SettleStep DEF PTP!Next
<1>4. CASE Return
  <2>1. nodes' = nodes /\ index' = index /\ earlier' = earlier /\ pc = "done" /\ pc' = "idle"
    BY <1>4 DEF Return, book
  <2>2. QED
    BY <2>1, IdleStep DEF HistoryInv
<1>5. CASE UNCHANGED vars
  <2>1. nodes' = nodes /\ index' = index /\ earlier' = earlier /\ pc' = pc /\ taker' = taker
    BY <1>5 DEF vars
  <2>2. Resting' = Resting
    BY <2>1, RestingSame
  <2>3. QED
    BY <2>1, <2>2 DEF HistoryInv, PTP!vars
<1>6. QED
  BY <1>1, <1>2, <1>3, <1>4, <1>5 DEF Next

\* The history of arrivals orders the orders at rest, and only them.
THEOREM HistoryInvariance == Spec => []HistoryInv
BY Invariance, BookInvariance, InitHistory, NextStep, PTL DEF Spec

\* The engine of engine.cpp and matching.hpp implements matching by price and
\* time: every fill is with the order that the rule picks, a remainder rests
\* behind all others, and no handler touches an order that the rule does not
\* name - for every set of requests, width of the integers and size of the pool.
THEOREM Refinement == Spec => ImplementsPriceTime
BY Invariance, BookInvariance, HistoryInvariance, InitStep, NextStep, PTL
DEF Spec, ImplementsPriceTime, PTP!Spec

-----------------------------------------------------------------------------
(* What a reject says of the original order *)

NoReject(es) == \A i \in DOMAIN es : es[i].type # "cancel_reject"

\* The original is gone although the replace was refused only if the replacement
\* is for a symbol without a book.
Excused(e) ==
  e.type = "cancel_reject" /\ e.reject_reason # "unknown_order" =>
    \/ <<e.client_id, e.orig_cl_ord_id>> \in DOMAIN index
    \/ /\ e.reject_reason = "unknown_symbol"
       /\ request.type = "replace_order" /\ request.symbol \notin BookSymbols

\* A handler that has returned has left a rejected original alone, but for a
\* replacement for a symbol without a book.
OnlyWithoutBook == pc = "done" => \A i \in DOMAIN events : Excused(events[i])

RejectInv ==
  /\ pc = "idle" => events = << >>
  /\ pc = "match" => NoReject(events)
  /\ OnlyWithoutBook

\* One more event.
LEMMA NoRejectAppend ==
  ASSUME NEW es \in Seq(Event), NEW e \in Event, NoReject(es)
  PROVE  /\ e.type # "cancel_reject" => NoReject(Append(es, e))
         /\ \A i \in DOMAIN Append(es, e) : Append(es, e)[i].type = "cancel_reject" =>
                                              Append(es, e)[i] = e
<1> DEFINE a == Append(es, e)
<1> HIDE DEF Event
<1>1. \A i \in DOMAIN a : (i \in DOMAIN es /\ a[i] = es[i]) \/ a[i] = e
  OBVIOUS
<1> HIDE DEF a
<1>2. (e.type # "cancel_reject" => NoReject(a))
  BY <1>1 DEF NoReject
<1>3. \A i \in DOMAIN a : a[i].type = "cancel_reject" => a[i] = e
  BY <1>1 DEF NoReject
<1>4. QED
  BY <1>2, <1>3 DEF a

\* More events.
LEMMA NoRejectConcat ==
  ASSUME NEW es \in Seq(Event), NEW us \in Seq(Event), NoReject(es), NoReject(us)
  PROVE  NoReject(es \o us)
<1> HIDE DEF Event
<1>1. \A i \in DOMAIN (es \o us) : \/ i \in DOMAIN es /\ (es \o us)[i] = es[i]
                                  \/ \E j \in DOMAIN us : (es \o us)[i] = us[j]
  <2>1. \A i \in DOMAIN (es \o us) : i \in 1 .. Len(es) + Len(us)
    OBVIOUS
  <2>2. SUFFICES ASSUME NEW i \in 1 .. Len(es) + Len(us)
                 PROVE  \/ i \in DOMAIN es /\ (es \o us)[i] = es[i]
                        \/ \E j \in DOMAIN us : (es \o us)[i] = us[j]
    BY <2>1
  <2>3. CASE i <= Len(es)
    BY <2>3
  <2>4. CASE ~(i <= Len(es))
    <3>1. i - Len(es) \in DOMAIN us /\ (es \o us)[i] = us[i - Len(es)]
      BY <2>4
    <3>2. QED
      BY <3>1
  <2>5. QED
    BY <2>3, <2>4
<1>2. QED
  BY <1>1 DEF NoReject

\* A book update is no reject.
LEMMA NoRejectRemoval ==
  ASSUME NEW order
  PROVE  NoReject(RemovalUpdate(order))
BY UpdateOnly DEF NoReject, RemovalUpdate

\* Without a reject there is nothing to excuse.
LEMMA NoRejectExcused ==
  ASSUME pc' = "done", NoReject(events')
  PROVE  RejectInv'
BY DEF RejectInv, OnlyWithoutBook, Excused, NoReject

\* One answer that is excused.
LEMMA OneExcused ==
  ASSUME pc' = "done", NEW e, events' = <<e>>, Excused(e)'
  PROVE  RejectInv'
BY DEF RejectInv, OnlyWithoutBook

\* Every action keeps the invariant.
LEMMA NextReject == IndInv /\ IndInv' /\ RejectInv /\ [Next]_vars => RejectInv'
<1>1. SUFFICES ASSUME IndInv, IndInv', RejectInv, [Next]_vars PROVE RejectInv'
  OBVIOUS
<1>2. events \in Seq(Event) /\ events' \in Seq(Event)
  BY <1>1 DEF IndInv, LocalsOK
<1>3. NoReject(<< >>)
  BY DEF NoReject
<1>4. ASSUME NEW r \in Requests, Send(r) PROVE RejectInv'
  <2>1. r \in Request
    BY RequestAssumption
  <2>2. ASSUME NEW es \in Seq(Event), NoReject(es), BeginMatch(r, es) PROVE RejectInv'
    <3> DEFINE e == emit_execution_report(make_order_state(r), next_exec_id, "new_order",
                                          "new_order", None, None, None)
    <3>1. pc' = "match" /\ events' = Append(es, e)
      BY <2>2 DEF BeginMatch
    <3>2. e.type # "cancel_reject"
      BY DEF emit_execution_report
    <3> HIDE DEF e
    <3>3. e \in Event
      <4>1. Len(es) + 1 \in DOMAIN events' /\ events'[Len(es) + 1] = e
        BY <2>2, <3>1
      <4> HIDE DEF Event
      <4>2. QED
        BY <1>2, <4>1
    <3>4. NoReject(events')
      BY <2>2, <3>1, <3>2, <3>3, NoRejectAppend
    <3>5. QED
      BY <3>1, <3>4 DEF RejectInv, OnlyWithoutBook
  <2>3. CASE RejectNewOrder(r)
    <3>1. pc' = "done" /\ events' = << >>
      BY <2>3 DEF RejectNewOrder, ReturnWith
    <3>2. QED
      BY <1>3, <3>1, NoRejectExcused
  <2>4. CASE AcceptNewOrder(r)
    <3>1. BeginMatch(r, << >>) /\ << >> \in Seq(Event)
      BY <2>4 DEF AcceptNewOrder
    <3>2. QED
      BY <1>3, <2>2, <3>1
  <2>5. CASE CancelMiss(r)
    <3> DEFINE e == emit_cancel_reject(r, "unknown_order")
    <3>1. pc' = "done" /\ events' = <<e>>
      BY <2>5 DEF CancelMiss, ReturnWith
    <3>2. e.reject_reason = "unknown_order"
      BY DEF emit_cancel_reject
    <3> HIDE DEF e
    <3>3. Excused(e)'
      BY <3>2 DEF Excused
    <3>4. QED
      BY <3>1, <3>3, OneExcused
  <2>6. CASE Cancel(r)
    <3> DEFINE resting == nodes[index[OrigKey(r)]]
               e == emit_execution_report(resting, next_exec_id, "canceled",
                                          "canceled", r.orig_cl_ord_id, None, None)
               us == RemovalUpdate(resting)
    <3>1. pc' = "done" /\ events' = <<e>> \o us /\ e.type # "cancel_reject"
      BY <2>6 DEF Cancel, emit_execution_report
    <3>2. pc = "idle" /\ OrigKey(r) \in DOMAIN index /\ RemoveResting(OrigKey(r))
      BY <2>6 DEF Cancel
    <3>3. us \in Seq(Event)
      BY <1>1, <3>2, RemoveRestingInv
    <3>4. NoReject(us)
      BY NoRejectRemoval
    <3> HIDE DEF e, us
    <3>5. e \in Event
      <4> HIDE DEF Event
      <4>1. 1 \in DOMAIN events' /\ events'[1] = e
        BY <3>1, <3>3
      <4>2. QED
        BY <1>2, <4>1
    <3>6. <<e>> \in Seq(Event) /\ NoReject(<<e>>)
      BY <3>1, <3>5 DEF NoReject
    <3>7. NoReject(events')
      BY <3>1, <3>3, <3>4, <3>6, NoRejectConcat
    <3>8. QED
      BY <3>1, <3>7, NoRejectExcused
  <2>7. CASE RejectReplace(r)
    <3>1. PICK reason \in {"unknown_order", "duplicate_order"} :
            /\ ReturnWith(r, <<emit_cancel_reject(r, reason)>>)
            /\ reason = "unknown_order" \/ OrigKey(r) \in DOMAIN index
      BY <2>7 DEF RejectReplace
    <3> DEFINE e == emit_cancel_reject(r, reason)
    <3>2. pc' = "done" /\ events' = <<e>> /\ index' = index
      BY <3>1 DEF ReturnWith, book
    <3>3. /\ e.reject_reason = reason
          /\ <<e.client_id, e.orig_cl_ord_id>> = OrigKey(r)
      BY DEF emit_cancel_reject, OrigKey
    <3> HIDE DEF e
    <3>4. Excused(e)'
      BY <3>1, <3>2, <3>3 DEF Excused
    <3>5. QED
      BY <3>2, <3>4, OneExcused
  <2>8. CASE AcceptReplace(r)
    <3> DEFINE us == RemovalUpdate(nodes[index[OrigKey(r)]])
               e == emit_cancel_reject(r, "unknown_symbol")
    <3>1. /\ OrigKey(r) \in DOMAIN index /\ RemoveResting(OrigKey(r))
          /\ pc = "idle" /\ r.type = "replace_order"
          /\ \/ BeginMatch(r, us)
             \/ /\ r.symbol \notin BookSymbols /\ events' = Append(us, e)
                /\ pc' = "done" /\ request' = r
      BY <2>8 DEF AcceptReplace
    <3>2. us \in Seq(Event)
      BY <1>1, <3>1, RemoveRestingInv
    <3>3. NoReject(us)
      BY NoRejectRemoval
    <3>4. e.reject_reason = "unknown_symbol"
      BY DEF emit_cancel_reject
    <3> HIDE DEF us, e
    <3>5. CASE BeginMatch(r, us)
      BY <2>2, <3>2, <3>3, <3>5
    <3>6. CASE /\ r.symbol \notin BookSymbols /\ events' = Append(us, e)
               /\ pc' = "done" /\ request' = r
      <4>1. e \in Event
        <5> HIDE DEF Event
        <5>1. Len(us) + 1 \in DOMAIN events' /\ events'[Len(us) + 1] = e
          BY <3>2, <3>6
        <5>2. QED
          BY <1>2, <5>1
      <4>2. \A i \in DOMAIN events' : events'[i].type = "cancel_reject" => events'[i] = e
        BY <3>2, <3>3, <3>6, <4>1, NoRejectAppend
      <4>3. Excused(e)'
        BY <3>1, <3>4, <3>6 DEF Excused
      <4>4. \A i \in DOMAIN events' : Excused(events[i])'
        BY <4>2, <4>3 DEF Excused
      <4>5. QED
        BY <3>6, <4>4 DEF RejectInv, OnlyWithoutBook
    <3>7. QED
      BY <3>1, <3>5, <3>6
  <2>9. CASE HandleFlush(r)
    <3>1. pc' = "done" /\ events' = events /\ events = << >>
      BY <1>1, <2>9 DEF HandleFlush, RejectInv
    <3>2. QED
      BY <1>3, <3>1, NoRejectExcused
  <2>10. QED
    BY <1>4, <2>3, <2>4, <2>5, <2>6, <2>7, <2>8, <2>9 DEF Send
<1>5. CASE Fill
  <2> DEFINE maker == nodes[Head(levels[EatenLevel(Current)].orders)]
             e == make_trade(taker, maker, Current, FillQty(maker), next_trade_id)
  <2>1. pc = "match" /\ pc' = "match" /\ events' = Append(events, e) /\ e.type = "trade"
    <3>1. pc = "match" /\ pc' = "match" /\ events' = Append(events, e)
      BY <1>5 DEF Fill, EatenLevel
    <3>2. e.type = "trade"
      BY DEF make_trade
    <3>3. QED
      BY <3>1, <3>2
  <2> HIDE DEF e
  <2>2. e \in Event
    <3> HIDE DEF Event
    <3>1. Len(events) + 1 \in DOMAIN events' /\ events'[Len(events) + 1] = e
      BY <1>2, <2>1
    <3>2. QED
      BY <1>2, <3>1
  <2>3. NoReject(events')
    BY <1>1, <1>2, <2>1, <2>2, NoRejectAppend DEF RejectInv
  <2>4. QED
    BY <2>1, <2>3 DEF RejectInv, OnlyWithoutBook
<1>6. CASE Settle
  <2>1. pc = "match" /\ pc' = "done" /\ NoReject(events)
    BY <1>1, <1>6 DEF Settle, RejectInv
  <2>2. PICK us \in Seq(Event) :
          /\ events' = events \o us
          /\ \A j \in DOMAIN us : \/ us[j].type = "mbo_book_update"
                                  \/ last_traded # None /\ us[j] \in {Summary, FinalReport}
    BY <1>1, <1>6, SettleEvents
  <2>3. Summary.type = "execution_summary" /\ FinalReport.type = "execution_report"
    BY DEF Summary, FinalReport, emit_execution_report
  <2>4. NoReject(us)
    BY <2>2, <2>3 DEF NoReject
  <2>5. NoReject(events')
    BY <1>2, <2>1, <2>2, <2>4, NoRejectConcat
  <2>6. QED
    BY <2>1, <2>5, NoRejectExcused
<1>7. CASE Return
  BY <1>7 DEF Return, RejectInv, OnlyWithoutBook
<1>8. CASE UNCHANGED vars
  BY <1>1, <1>8 DEF vars, book, locals, history, RejectInv, OnlyWithoutBook, Excused, NoReject
<1>9. QED
  BY <1>1, <1>4, <1>5, <1>6, <1>7, <1>8 DEF Next

\* The finding about replaces is complete: RejectedReplaceKeepsOriginal fails only
\* where the replacement names a symbol without a book (engine.cpp:305-348).
THEOREM RejectedOnlyWithoutBook == Spec => []OnlyWithoutBook
<1>1. Init => RejectInv
  BY DEF Init, RejectInv, OnlyWithoutBook
<1>2. RejectInv => OnlyWithoutBook
  BY DEF RejectInv
<1>3. QED
  BY <1>1, <1>2, Invariance, NextReject, PTL DEF Spec

=============================================================================
