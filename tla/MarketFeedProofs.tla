--------------------------- MODULE MarketFeedProofs ---------------------------
(***************************************************************************)
(* What subscribers know of the books: the engine's book updates, the only *)
(* ones there are, keep a subscriber's picture of every top true, for all  *)
(* requests, prices and books; the encodings of the feeds lose nothing of  *)
(* it, and a subscriber may attach at any time.                            *)
(***************************************************************************)
EXTENDS MarketFeed, BookProofs, FiniteSetTheorems

-----------------------------------------------------------------------------
(* The invariant of the engine's updates *)

Top(symbol, side) == best_level(levels, symbol, side)

\* Every order has the security_id of a request for its book.
Sourced ==
  /\ \A n \in DOMAIN nodes : nodes[n].symbol \in BooksUnder(nodes[n].security_id)
  /\ pc = "match" => taker.symbol \in BooksUnder(taker.security_id)

\* The locals begin afresh, and the iterator has moved only if there was a trade.
FreshLocals ==
  /\ pc = "idle" => last_traded = None /\ events = << >>
  /\ pc = "match" => request.type # "flush"
  /\ pc = "match" /\ last_traded = None => consumed = {}

\* What a subscriber knows once it has read the events so far.
Latest(k) ==
  IF UpdatesOf(k, events) = {} THEN view[k] ELSE events[Max(UpdatesOf(k, events))].top

\* Flushed, with no update since.
Hushed(k) ==
  /\ k \in flushed \/ (pc = "done" /\ request.type = "flush")
  /\ UpdatesOf(k, events) = {}

\* match() is at work on this side: its update is still to come.
BeingEaten(symbol, side) ==
  /\ pc = "match" /\ last_traded # None
  /\ symbol = taker.symbol /\ side = Opposite(taker.side)

\* A security_id of one book only: the picture is exact.
ExactView ==
  \A pair \in Identified, side \in Side :
    ~BeingEaten(pair[2], side) =>
      IF Hushed(<<pair[1], side>>) THEN Top(pair[2], side) = None
      ELSE Latest(<<pair[1], side>>) = Top(pair[2], side)

\* A security_id of several books: the picture is that of one of them.
SharedView ==
  OneIdPerBook => \A id \in SecurityIds, side \in Side :
    /\ BooksUnder(id) # {}
    /\ \A symbol \in BooksUnder(id) : ~BeingEaten(symbol, side)
    => IF Hushed(<<id, side>>)
       THEN \A symbol \in BooksUnder(id) : Top(symbol, side) = None
       ELSE \E symbol \in BooksUnder(id) : Latest(<<id, side>>) = Top(symbol, side)

ViewInv == Sourced /\ FreshLocals /\ ExactView /\ SharedView

-----------------------------------------------------------------------------
(* The top of a side *)

\* The maps differ at most in the level of one price.
SameElsewhere(lv, lv2, symbol, side, price) ==
  \A X, s, p : ~(X = symbol /\ s = side /\ p = price) =>
    /\ <<X, s, p>> \in DOMAIN lv2 <=> <<X, s, p>> \in DOMAIN lv
    /\ <<X, s, p>> \in DOMAIN lv => lv2[<<X, s, p>>] = lv[<<X, s, p>>]

\* A side with the same levels has the same top.
LEMMA SameSide ==
  ASSUME NEW lv, NEW lv2, NEW X, NEW s,
         \A p : <<X, s, p>> \in DOMAIN lv2 <=> <<X, s, p>> \in DOMAIN lv,
         \A p : <<X, s, p>> \in DOMAIN lv => lv2[<<X, s, p>>] = lv[<<X, s, p>>]
  PROVE  best_level(lv2, X, s) = best_level(lv, X, s)
<1>1. Prices(lv2, X, s) = Prices(lv, X, s)
  BY DEF Prices
<1>2. CASE Prices(lv, X, s) = {}
  BY <1>1, <1>2 DEF best_level
<1>3. CASE Prices(lv, X, s) # {}
  <2>1. Prices(lv, X, s) \subseteq Price
    BY DEF Prices
  <2>2. Front(s, Prices(lv, X, s)) \in Prices(lv, X, s)
    BY <1>3, <2>1, FrontInSet
  <2>3. <<X, s, Front(s, Prices(lv, X, s))>> \in DOMAIN lv
    BY <2>2 DEF Prices
  <2>4. lv2[<<X, s, Front(s, Prices(lv, X, s))>>] = lv[<<X, s, Front(s, Prices(lv, X, s))>>]
    BY <2>3
  <2>5. QED
    BY <1>1, <1>3, <2>4 DEF best_level
<1>4. QED
  BY <1>2, <1>3

\* A change of one level is seen on no other side of no other book.
LEMMA OtherSides ==
  ASSUME NEW lv, NEW lv2, NEW symbol, NEW side, NEW price,
         SameElsewhere(lv, lv2, symbol, side, price),
         NEW X, NEW s, ~(X = symbol /\ s = side)
  PROVE  best_level(lv2, X, s) = best_level(lv, X, s)
BY SameSide DEF SameElsewhere

\* There is one best price.
LEMMA FrontUnique ==
  ASSUME NEW side, NEW S, S \subseteq Price, NEW f \in S,
         \A p \in S : IF side = "buy" THEN p <= f ELSE f <= p
  PROVE  Front(side, S) = f
<1>1. S # {} /\ Front(side, S) \in S
  BY FrontInSet
<1>2. IF side = "buy" THEN f <= Front(side, S) ELSE Front(side, S) <= f
  BY <1>1, FrontIsBest
<1>3. IF side = "buy" THEN Front(side, S) <= f ELSE f <= Front(side, S)
  BY <1>1
<1>4. Price \subseteq Nat
  BY WidthAssumption DEF Price
<1> DEFINE g == Front(side, S)
<1>5. f \in Nat /\ g \in Nat /\ (f <= g /\ g <= f)
  BY <1>1, <1>2, <1>3, <1>4
<1> HIDE DEF g
<1>6. g = f
  BY <1>5
<1>7. QED
  BY <1>6 DEF g

\* A change behind the best price is not seen: small is big, possibly without the
\* level, which is not the best of big.
LEMMA BehindTop ==
  ASSUME NEW big, NEW small, NEW symbol, NEW side, NEW price,
         SameElsewhere(big, small, symbol, side, price),
         price \in Prices(big, symbol, side), best(big, symbol, side) # price
  PROVE  best_level(small, symbol, side) = best_level(big, symbol, side)
<1> DEFINE B == Prices(big, symbol, side)
           S == Prices(small, symbol, side)
           f == Front(side, B)
<1>1. B \subseteq Price /\ S \subseteq Price /\ B # {}
  BY DEF Prices
<1>2. f \in B /\ f # price
  BY <1>1, FrontInSet DEF best
<1>3. <<symbol, side, f>> \in DOMAIN big /\ f \in Price
  BY <1>1, <1>2 DEF Prices
<1>4. S \subseteq B
  BY DEF Prices, SameElsewhere
<1> HIDE DEF f
<1>5. f \in S /\ small[<<symbol, side, f>>] = big[<<symbol, side, f>>]
  BY <1>2, <1>3 DEF Prices, SameElsewhere
<1>6. \A p \in S : IF side = "buy" THEN p <= f ELSE f <= p
  BY <1>1, <1>4, FrontIsBest DEF f
<1> HIDE DEF S, B
<1>7. Front(side, S) = f
  BY <1>1, <1>5, <1>6, FrontUnique
<1>8. S # {}
  BY <1>5
<1>9. QED
  BY <1>1, <1>5, <1>7, <1>8 DEF best_level, f, S, B

-----------------------------------------------------------------------------
(* The updates among a handler's events *)

\* The book updates of a sequence of events.
Updates(es) == {es[i] : i \in {j \in DOMAIN es : es[j].type = "mbo_book_update"}}

\* The updates of a side are those with its key.
KeyOfUpdate(u) == <<u.security_id, u.side>>

\* Without events there are none.
LEMMA NoUpdates == /\ Updates(<< >>) = {}
                   /\ \A k : UpdatesOf(k, << >>) = {}
<1>1. DOMAIN << >> = {}
  OBVIOUS
<1>2. QED
  BY <1>1 DEF Updates, UpdatesOf

\* One event is an update or it is not.
LEMMA OneUpdate ==
  ASSUME NEW e
  PROVE  Updates(<<e>>) = IF e.type = "mbo_book_update" THEN {e} ELSE {}
<1>1. DOMAIN <<e>> = {1} /\ <<e>>[1] = e
  OBVIOUS
<1>2. QED
  BY <1>1 DEF Updates

\* Nothing but a book update is one.
LEMMA SilentEvent ==
  ASSUME NEW e \in Event, e.type # "mbo_book_update"
  PROVE  <<e>> \in Seq(Event) /\ Updates(<<e>>) = {}
<1>1. <<e>> \in Seq(Event)
  OBVIOUS
<1>2. Updates(<<e>>) = {}
  BY OneUpdate
<1>3. QED
  BY <1>1, <1>2

\* The updates of two sequences in a row.
LEMMA MoreUpdates ==
  ASSUME NEW S, NEW a \in Seq(S), NEW b \in Seq(S)
  PROVE  Updates(a \o b) = Updates(a) \cup Updates(b)
<1> DEFINE c == a \o b
<1>1. /\ Len(a) \in Nat /\ Len(b) \in Nat
      /\ DOMAIN a = 1 .. Len(a) /\ DOMAIN b = 1 .. Len(b)
      /\ DOMAIN c = 1 .. Len(a) + Len(b)
  OBVIOUS
<1>2. /\ \A i \in 1 .. Len(a) : c[i] = a[i]
      /\ \A i \in 1 .. Len(b) : c[Len(a) + i] = b[i]
  OBVIOUS
<1> DEFINE m == Len(a)
           n == Len(b)
<1> HIDE DEF c, m, n
<1>3. /\ m \in Nat /\ n \in Nat /\ DOMAIN a = 1 .. m /\ DOMAIN b = 1 .. n
      /\ DOMAIN c = 1 .. m + n
      /\ \A i \in 1 .. m : c[i] = a[i]
      /\ \A i \in 1 .. n : c[m + i] = b[i]
  BY <1>1, <1>2 DEF m, n
<1>4. \A i \in DOMAIN a : i \in DOMAIN c /\ c[i] = a[i]
  BY <1>3
<1>5. \A i \in DOMAIN b : m + i \in DOMAIN c /\ c[m + i] = b[i]
  BY <1>3
<1>6. \A i \in DOMAIN c : \/ i \in DOMAIN a /\ c[i] = a[i]
                          \/ \E j \in DOMAIN b : c[i] = b[j]
  <2> SUFFICES ASSUME NEW i \in DOMAIN c, i \notin DOMAIN a
               PROVE  \E j \in DOMAIN b : c[i] = b[j]
    BY <1>4
  <2>1. i - m \in 1 .. n /\ m + (i - m) = i
    BY <1>3
  <2>2. QED
    BY <1>3, <2>1
<1>7. Updates(c) \subseteq Updates(a) \cup Updates(b)
  BY <1>6 DEF Updates
<1>8. Updates(a) \subseteq Updates(c)
  BY <1>4 DEF Updates
<1>9. Updates(b) \subseteq Updates(c)
  BY <1>5 DEF Updates
<1>10. QED
  BY <1>7, <1>8, <1>9 DEF c

\* Two events are one after the other.
LEMMA TwoInARow ==
  ASSUME NEW S, NEW a \in S, NEW b \in S
  PROVE  <<a, b>> = <<a>> \o <<b>>
<1> DEFINE s == <<a>>
           t == <<b>>
           c == s \o t
           d == <<a, b>>
<1>1. s \in Seq(S) /\ t \in Seq(S) /\ Len(s) = 1 /\ Len(t) = 1 /\ s[1] = a /\ t[1] = b
  OBVIOUS
<1>2. d \in Seq(S) /\ Len(d) = 2 /\ d[1] = a /\ d[2] = b
  OBVIOUS
<1> HIDE DEF s, t, d
<1>3. c \in Seq(S) /\ Len(c) = 2 /\ c[1] = a /\ c[2] = b
  <2>1. s \in Seq(S) /\ t \in Seq(S)
    BY <1>1
  <2>2. /\ c \in Seq(S) /\ Len(c) = Len(s) + Len(t)
        /\ \A i \in 1 .. Len(s) + Len(t) :
             c[i] = IF i <= Len(s) THEN s[i] ELSE t[i - Len(s)]
    BY <2>1, ConcatProperties
  <2> HIDE DEF c
  <2>3. QED
    BY <1>1, <2>2
<1> HIDE DEF c
<1>4. \A i \in 1 .. 2 : c[i] = d[i]
  BY <1>2, <1>3
<1>5. c = d
  BY <1>2, <1>3, <1>4, SeqEqual
<1>6. QED
  BY <1>5 DEF c, d, s, t

\* What was latest is kept until the next update of the side.
LEMMA LatestKept ==
  ASSUME NEW a \in Seq(Event), NEW b \in Seq(Event), NEW k,
         \A u \in Updates(b) : KeyOfUpdate(u) # k
  PROVE  /\ UpdatesOf(k, a \o b) = UpdatesOf(k, a)
         /\ \A i \in UpdatesOf(k, a) : (a \o b)[i] = a[i]
<1> DEFINE c == a \o b
           m == Len(a)
           n == Len(b)
<1>1. /\ m \in Nat /\ n \in Nat /\ DOMAIN a = 1 .. m /\ DOMAIN b = 1 .. n
      /\ DOMAIN c = 1 .. m + n
      /\ \A i \in 1 .. m : c[i] = a[i]
      /\ \A i \in 1 .. n : c[m + i] = b[i]
  OBVIOUS
<1> HIDE DEF c, m, n
<1>2. \A i \in DOMAIN a : i \in DOMAIN c /\ c[i] = a[i]
  BY <1>1
<1>3. ASSUME NEW i \in DOMAIN c, i \notin DOMAIN a
      PROVE  \E j \in DOMAIN b : c[i] = b[j]
  <2>1. i - m \in 1 .. n /\ m + (i - m) = i
    BY <1>1, <1>3
  <2>2. QED
    BY <1>1, <2>1
<1>4. \A j \in DOMAIN b : b[j].type = "mbo_book_update" => <<b[j].security_id, b[j].side>> # k
  BY DEF Updates, KeyOfUpdate
<1>5. UpdatesOf(k, c) = UpdatesOf(k, a)
  BY <1>2, <1>3, <1>4 DEF UpdatesOf
<1>6. QED
  BY <1>2, <1>5 DEF UpdatesOf, c

\* An update of the side is the latest one, whatever was before.
LEMMA LatestComes ==
  ASSUME NEW a \in Seq(Event), NEW b \in Seq(Event), NEW k,
         NEW u \in Updates(b), KeyOfUpdate(u) = k
  PROVE  /\ UpdatesOf(k, a \o b) # {}
         /\ \E v \in Updates(b) :
              KeyOfUpdate(v) = k /\ (a \o b)[Max(UpdatesOf(k, a \o b))] = v
<1> DEFINE c == a \o b
           m == Len(a)
           n == Len(b)
           U == UpdatesOf(k, c)
<1>1. /\ m \in Nat /\ n \in Nat /\ DOMAIN a = 1 .. m /\ DOMAIN b = 1 .. n
      /\ DOMAIN c = 1 .. m + n
      /\ \A i \in 1 .. m : c[i] = a[i]
      /\ \A i \in 1 .. n : c[m + i] = b[i]
  OBVIOUS
<1> HIDE DEF c, m, n
<1>2. PICK j \in DOMAIN b : b[j] = u /\ u.type = "mbo_book_update"
  BY DEF Updates
<1>3. m + j \in DOMAIN c /\ c[m + j] = u /\ m + j > m
  BY <1>1, <1>2
<1>4. m + j \in U
  BY <1>2, <1>3 DEF UpdatesOf, KeyOfUpdate
<1>5. U \subseteq DOMAIN c /\ U \subseteq 0 .. m + n /\ m + n \in Nat
  BY <1>1 DEF UpdatesOf
<1>6. Max(U) \in U /\ Max(U) >= m + j
  BY <1>4, <1>5, MaxProperties
<1> DEFINE x == Max(U)
<1>7. x \in DOMAIN c /\ c[x].type = "mbo_book_update" /\ KeyOfUpdate(c[x]) = k
  BY <1>6 DEF UpdatesOf, KeyOfUpdate
<1>8. x \in 1 .. m + n /\ x > m
  <2>1. x \in 1 .. m + n
    BY <1>1, <1>7
  <2>2. x >= m + j /\ j \in 1 .. n
    BY <1>1, <1>2, <1>6
  <2> HIDE DEF x
  <2>3. QED
    BY <1>1, <2>1, <2>2
<1> HIDE DEF x
<1>9. x - m \in 1 .. n /\ m + (x - m) = x
  BY <1>1, <1>8
<1>10. x - m \in DOMAIN b /\ c[x] = b[x - m]
  BY <1>1, <1>9
<1>11. b[x - m] \in Updates(b)
  BY <1>7, <1>10 DEF Updates
<1>12. QED
  BY <1>4, <1>7, <1>10, <1>11 DEF c, x

-----------------------------------------------------------------------------
(* What a step of the engine reports *)

\* The updates that a step emits show tops of the books as it leaves them, and
\* every side that it changes is reported, unless match() is still at work on it.
Reported(us) ==
  /\ \A u \in Updates(us) :
       /\ u.security_id \in SecurityIds /\ u.side \in Side
       /\ \E X \in BooksUnder(u.security_id) : u.top = best_level(levels', X, u.side)
  /\ \A X \in BookSymbols, s \in Side :
       \/ BeingEaten(X, s)'
       \/ best_level(levels', X, s) = best_level(levels, X, s) /\ ~BeingEaten(X, s)
       \/ \E u \in Updates(us) : u.side = s /\ X \in BooksUnder(u.security_id)

\* A step of a handler that returns later, or one that is not a flush.
Reports ==
  /\ pc \in {"idle", "match"} /\ pc' # "idle"
  /\ request'.type # "flush"
  /\ view' = view /\ flushed' = flushed
  /\ \E us \in Seq(Event) : events' = events \o us /\ Reported(us)

\* Such a step keeps the picture true.
LEMMA ReportsKeep ==
  ASSUME IndInv, ViewInv, Reports
  PROVE  ExactView' /\ SharedView'
<1>1. PICK us \in Seq(Event) : events' = events \o us /\ Reported(us)
  BY DEF Reports
<1>2. events \in Seq(Event)
  BY DEF IndInv, LocalsOK
<1>3. ASSUME NEW k, \A u \in Updates(us) : KeyOfUpdate(u) # k
      PROVE  Latest(k)' = Latest(k) /\ (Hushed(k)' <=> Hushed(k))
  <2>1. /\ UpdatesOf(k, events') = UpdatesOf(k, events)
        /\ \A i \in UpdatesOf(k, events) : events'[i] = events[i]
    BY <1>1, <1>2, <1>3, LatestKept
  <2>2. UpdatesOf(k, events) # {} => Max(UpdatesOf(k, events)) \in UpdatesOf(k, events)
    <3>1. Len(events) \in Nat /\ UpdatesOf(k, events) \subseteq 0 .. Len(events)
      BY <1>2 DEF UpdatesOf
    <3>2. QED
      BY <3>1, MaxProperties
  <2>3. Latest(k)' = Latest(k)
    BY <2>1, <2>2 DEF Latest, Reports
  <2>4. Hushed(k)' <=> Hushed(k)
    BY <2>1 DEF Hushed, Reports, ViewInv, FreshLocals
  <2>5. QED
    BY <2>3, <2>4
<1>4. ASSUME NEW k, NEW u \in Updates(us), KeyOfUpdate(u) = k
      PROVE  /\ ~Hushed(k)'
             /\ \E v \in Updates(us) : KeyOfUpdate(v) = k /\ Latest(k)' = v.top
  <2>1. /\ UpdatesOf(k, events') # {}
        /\ \E v \in Updates(us) :
             KeyOfUpdate(v) = k /\ events'[Max(UpdatesOf(k, events'))] = v
    BY <1>1, <1>2, <1>4, LatestComes
  <2>2. QED
    BY <2>1 DEF Hushed, Latest
<1>5. ExactView'
  <2>1. SUFFICES ASSUME NEW pair \in Identified, NEW s \in Side, ~BeingEaten(pair[2], s)'
                 PROVE  IF Hushed(<<pair[1], s>>)' THEN Top(pair[2], s)' = None
                        ELSE Latest(<<pair[1], s>>)' = Top(pair[2], s)'
    BY DEF ExactView
  <2> DEFINE id == pair[1]
             X == pair[2]
             k == <<id, s>>
  <2>2. id \in SecurityIds /\ X \in BookSymbols
    BY DEF Identified
  <2>3. \A Y, i : Y \in BooksUnder(i) => (Y = X <=> i = id)
    BY DEF Identified, BooksUnder
  <2> HIDE DEF id, X
  <2>4. CASE \E u \in Updates(us) : KeyOfUpdate(u) = k
    <3>1. PICK v \in Updates(us) : KeyOfUpdate(v) = k /\ Latest(k)' = v.top
      BY <1>4, <2>4
    <3>2. PICK Y \in BooksUnder(v.security_id) : v.top = best_level(levels', Y, v.side)
      BY <1>1 DEF Reported
    <3>3. v.security_id = id /\ v.side = s /\ Y = X
      BY <2>3, <3>1, <3>2 DEF KeyOfUpdate
    <3>4. ~Hushed(k)'
      BY <1>4, <2>4
    <3>5. QED
      BY <3>1, <3>2, <3>3, <3>4 DEF Top, id, X
  <2>5. CASE \A u \in Updates(us) : KeyOfUpdate(u) # k
    <3>1. ~\E u \in Updates(us) : u.side = s /\ X \in BooksUnder(u.security_id)
      BY <2>3, <2>5 DEF KeyOfUpdate
    <3>2. Top(X, s)' = Top(X, s) /\ ~BeingEaten(X, s)
      BY <1>1, <2>1, <2>2, <3>1 DEF Reported, Top, X
    <3>3. Latest(k)' = Latest(k) /\ (Hushed(k)' <=> Hushed(k))
      BY <1>3, <2>5
    <3>4. IF Hushed(k) THEN Top(X, s) = None ELSE Latest(k) = Top(X, s)
      BY <3>2 DEF ViewInv, ExactView, id, X
    <3>5. QED
      BY <3>2, <3>3, <3>4 DEF id, X
  <2>6. QED
    BY <2>4, <2>5
<1>6. SharedView'
  <2>1. SUFFICES ASSUME OneIdPerBook, NEW id \in SecurityIds, NEW s \in Side,
                        BooksUnder(id) # {},
                        \A X \in BooksUnder(id) : ~BeingEaten(X, s)'
                 PROVE  IF Hushed(<<id, s>>)'
                        THEN \A X \in BooksUnder(id) : Top(X, s)' = None
                        ELSE \E X \in BooksUnder(id) : Latest(<<id, s>>)' = Top(X, s)'
    BY DEF SharedView
  <2> DEFINE k == <<id, s>>
  <2>2. BooksUnder(id) \subseteq BookSymbols
    BY DEF BooksUnder
  <2>3. CASE \E u \in Updates(us) : KeyOfUpdate(u) = k
    <3>1. PICK v \in Updates(us) : KeyOfUpdate(v) = k /\ Latest(k)' = v.top
      BY <1>4, <2>3
    <3>2. PICK Y \in BooksUnder(v.security_id) : v.top = best_level(levels', Y, v.side)
      BY <1>1 DEF Reported
    <3>3. v.security_id = id /\ v.side = s
      BY <3>1 DEF KeyOfUpdate
    <3>4. ~Hushed(k)'
      BY <1>4, <2>3
    <3>5. QED
      BY <3>1, <3>2, <3>3, <3>4 DEF Top
  <2>4. CASE \A u \in Updates(us) : KeyOfUpdate(u) # k
    <3>1. ASSUME NEW X \in BooksUnder(id)
          PROVE  Top(X, s)' = Top(X, s) /\ ~BeingEaten(X, s)
      <4>1. ~\E u \in Updates(us) : u.side = s /\ X \in BooksUnder(u.security_id)
        BY <1>1, <2>1, <2>4 DEF Reported, OneIdPerBook, KeyOfUpdate
      <4>2. QED
        BY <1>1, <2>1, <2>2, <4>1 DEF Reported, Top
    <3>2. Latest(k)' = Latest(k) /\ (Hushed(k)' <=> Hushed(k))
      BY <1>3, <2>4
    <3>3. IF Hushed(k) THEN \A X \in BooksUnder(id) : Top(X, s) = None
          ELSE \E X \in BooksUnder(id) : Latest(k) = Top(X, s)
      BY <2>1, <3>1 DEF ViewInv, SharedView
    <3>4. QED
      BY <3>1, <3>2, <3>3
  <2>5. QED
    BY <2>3, <2>4
<1>7. QED
  BY <1>5, <1>6

\* Assigning a level changes nothing elsewhere,
LEMMA AssignElsewhere ==
  ASSUME NEW lv, NEW symbol, NEW side, NEW price, NEW level
  PROVE  /\ SameElsewhere(lv, Assign(lv, <<symbol, side, price>>, level), symbol, side, price)
         /\ <<symbol, side, price>> \in DOMAIN Assign(lv, <<symbol, side, price>>, level)
<1> DEFINE k == <<symbol, side, price>>
           lv2 == Assign(lv, k, level)
<1>1. /\ DOMAIN lv2 = DOMAIN lv \cup {k}
      /\ \A x \in DOMAIN lv : x # k => lv2[x] = lv[x]
  BY DEF Assign
<1>2. \A X, s, p : ~(X = symbol /\ s = side /\ p = price) => <<X, s, p>> # k
  OBVIOUS
<1> HIDE DEF k, lv2
<1>3. SameElsewhere(lv, lv2, symbol, side, price) /\ k \in DOMAIN lv2
  BY <1>1, <1>2 DEF SameElsewhere
<1>4. QED
  BY <1>3 DEF k, lv2

\* nor does erasing one.
LEMMA WithoutElsewhere ==
  ASSUME NEW lv, NEW symbol, NEW side, NEW price
  PROVE  SameElsewhere(lv, Without(lv, {<<symbol, side, price>>}), symbol, side, price)
<1> DEFINE k == <<symbol, side, price>>
           lv2 == Without(lv, {k})
<1>1. DOMAIN lv2 = DOMAIN lv \ {k} /\ \A x \in DOMAIN lv2 : lv2[x] = lv[x]
  BY DEF Without, Restrict
<1>2. \A X, s, p : ~(X = symbol /\ s = side /\ p = price) => <<X, s, p>> # k
  OBVIOUS
<1> HIDE DEF k, lv2
<1>3. SameElsewhere(lv, lv2, symbol, side, price)
  BY <1>1, <1>2 DEF SameElsewhere
<1>4. QED
  BY <1>3 DEF k, lv2

\* book::cancel and book::place touch the level of the order only.
LEMMA CancelElsewhere ==
  ASSUME NEW lv, NEW n, NEW order
  PROVE  SameElsewhere(lv, cancel(lv, n, order), order.symbol, order.side, order.price)
BY AssignElsewhere, WithoutElsewhere DEF cancel, LevelOf

\* Placing changes at most the level of the order's own price.
LEMMA PlaceElsewhere ==
  ASSUME NEW lv, NEW n, NEW order
  PROVE  /\ SameElsewhere(lv, place(lv, n, order), order.symbol, order.side, order.price)
         /\ LevelOf(order) \in DOMAIN place(lv, n, order)
BY AssignElsewhere DEF place, LevelOf

\* The updates of UpdateIf.
LEMMA UpdatesIf ==
  ASSUME NEW condition, NEW lv, NEW symbol, NEW side, NEW id
  PROVE  Updates(UpdateIf(condition, lv, symbol, side, id))
           = IF condition THEN {emit_mbo_book_update(lv, symbol, side, id)} ELSE {}
<1> DEFINE e == emit_mbo_book_update(lv, symbol, side, id)
<1>1. e.type = "mbo_book_update"
  BY DEF emit_mbo_book_update
<1> HIDE DEF e
<1>2. Updates(<<e>>) = {e}
  BY <1>1, OneUpdate
<1>3. QED
  BY <1>2, NoUpdates DEF UpdateIf, e

\* Removing an order reports its side, if it can be seen there.
LEMMA RemovalReports ==
  ASSUME IndInv, Sourced, pc = "idle", NEW key \in DOMAIN index, RemoveResting(key)
  PROVE  LET us == Updates(RemovalUpdate(nodes[index[key]]))
         IN /\ \A u \in us :
                 /\ u.security_id \in SecurityIds /\ u.side \in Side
                 /\ \E X \in BooksUnder(u.security_id) : u.top = best_level(levels', X, u.side)
            /\ \A X \in BookSymbols, s \in Side :
                 \/ best_level(levels', X, s) = best_level(levels, X, s)
                 \/ \E u \in us : u.side = s /\ X \in BooksUnder(u.security_id)
<1> DEFINE n == index[key]
           o == nodes[n]
           us == Updates(RemovalUpdate(o))
           e == emit_mbo_book_update(levels', o.symbol, o.side, o.security_id)
           seen == best(levels, o.symbol, o.side) = o.price
<1>1. n \in DOMAIN nodes /\ levels' = cancel(levels, n, o)
  BY DEF IndInv, BookOK, Indexed, RemoveResting
<1>2. LevelOf(o) \in DOMAIN levels
  BY <1>1 DEF IndInv, BookOK, Linked
<1>3. o \in OrderState
  BY <1>1 DEF IndInv, BookOK, NodeMap
<1>4. o.side \in Side /\ o.security_id \in SecurityIds /\ o.price \in Price
  BY <1>3 DEF OrderState
<1>5. o.symbol \in BooksUnder(o.security_id)
  BY <1>1 DEF Sourced
<1> HIDE DEF n, o
<1>6. us = IF seen THEN {e} ELSE {}
  BY UpdatesIf DEF RemovalUpdate
<1>7. /\ e.security_id = o.security_id /\ e.side = o.side
      /\ e.top = best_level(levels', o.symbol, o.side)
  BY DEF emit_mbo_book_update
<1>8. SameElsewhere(levels, levels', o.symbol, o.side, o.price)
  BY <1>1, CancelElsewhere
<1>9. o.price \in Prices(levels, o.symbol, o.side)
  BY <1>2, <1>4 DEF Prices, LevelOf
<1> HIDE DEF us, e
<1>10. \A u \in us : /\ u.security_id \in SecurityIds /\ u.side \in Side
                     /\ \E X \in BooksUnder(u.security_id) : u.top = best_level(levels', X, u.side)
  BY <1>4, <1>5, <1>6, <1>7
<1>11. ASSUME NEW X \in BookSymbols, NEW s \in Side
       PROVE  \/ best_level(levels', X, s) = best_level(levels, X, s)
              \/ \E u \in us : u.side = s /\ X \in BooksUnder(u.security_id)
  <2>1. CASE ~(X = o.symbol /\ s = o.side)
    BY <1>8, <2>1, OtherSides
  <2>2. CASE X = o.symbol /\ s = o.side /\ seen
    BY <1>5, <1>6, <1>7, <2>2
  <2>3. CASE X = o.symbol /\ s = o.side /\ ~seen
    BY <1>8, <1>9, <2>3, BehindTop
  <2>4. QED
    BY <2>1, <2>2, <2>3
<1>12. QED
  BY <1>10, <1>11 DEF us, o, n

\* A handler that changes nothing and emits no update.
LEMMA ReturnReports ==
  ASSUME IndInv, ViewInv, pc = "idle", NEW r, r.type # "flush",
         NEW emitted \in Seq(Event), Updates(emitted) = {}, ReturnWith(r, emitted)
  PROVE  Reports
<1>1. /\ events = << >> /\ events' = emitted /\ pc' = "done" /\ request' = r
      /\ levels' = levels /\ view' = view /\ flushed' = flushed
  BY DEF ViewInv, FreshLocals, ReturnWith, book, history
<1>2. events' = events \o emitted
  BY <1>1
<1>3. Reported(emitted)
  BY <1>1 DEF Reported, BeingEaten
<1>4. QED
  BY <1>1, <1>2, <1>3 DEF Reports

\* A new order, refused or accepted, has not touched the books yet.
LEMMA NewOrderReports ==
  ASSUME IndInv, IndInv', ViewInv, NEW r \in Requests, RejectNewOrder(r) \/ AcceptNewOrder(r)
  PROVE  Reports
<1>1. CASE RejectNewOrder(r)
  <2>1. << >> \in Seq(Event) /\ r.type # "flush" /\ pc = "idle" /\ ReturnWith(r, << >>)
    BY <1>1 DEF RejectNewOrder
  <2>2. QED
    BY <2>1, NoUpdates, ReturnReports
<1>2. CASE AcceptNewOrder(r)
  <2> DEFINE report == emit_execution_report(make_order_state(r), next_exec_id, "new_order",
                                             "new_order", None, None, None)
  <2>1. /\ pc = "idle" /\ pc' = "match" /\ request' = r /\ r.type # "flush"
        /\ events' = Append(<< >>, report)
        /\ levels' = levels /\ last_traded' = last_traded /\ view' = view /\ flushed' = flushed
    BY <1>2 DEF AcceptNewOrder, BeginMatch, book
  <2>2. report.type # "mbo_book_update"
    BY DEF emit_execution_report
  <2>3. events = << >> /\ last_traded = None
    BY <2>1 DEF ViewInv, FreshLocals
  <2> HIDE DEF report
  <2>4. events' = events \o <<report>> /\ events' = <<report>>
    BY <2>1, <2>3
  <2>5. events' \in Seq(Event)
    BY DEF IndInv, LocalsOK
  <2>6. Updates(<<report>>) = {}
    BY <2>2, OneUpdate
  <2>7. Reported(<<report>>)
    BY <2>1, <2>3, <2>6 DEF Reported, BeingEaten
  <2>8. QED
    BY <2>1, <2>4, <2>5, <2>7 DEF Reports
<1>3. QED
  BY <1>1, <1>2

\* A cancel, of an order or of nothing.
LEMMA CancelReports ==
  ASSUME IndInv, ViewInv, NEW r \in Requests, CancelMiss(r) \/ Cancel(r)
  PROVE  Reports
<1>0. r \in CancelOrder
  BY RequestFields DEF CancelMiss, Cancel
<1>1. CASE CancelMiss(r)
  <2> DEFINE reject == emit_cancel_reject(r, "unknown_order")
  <2>1. r.type # "flush" /\ pc = "idle" /\ ReturnWith(r, <<reject>>)
    BY <1>1 DEF CancelMiss
  <2>2. reject \in Event
    BY <1>0, RejectType
  <2>3. reject.type # "mbo_book_update"
    BY DEF emit_cancel_reject
  <2> HIDE DEF reject
  <2>4. <<reject>> \in Seq(Event) /\ Updates(<<reject>>) = {}
    BY <2>2, <2>3, SilentEvent
  <2>5. QED
    BY <2>1, <2>4, ReturnReports
<1>2. CASE Cancel(r)
  <2> DEFINE key == OrigKey(r)
             resting == nodes[index[key]]
             report == emit_execution_report(resting, next_exec_id, "canceled",
                         "canceled", r.orig_cl_ord_id, None, None)
             removal == RemovalUpdate(resting)
             one == <<report>>
             us == one \o removal
  <2>1. /\ pc = "idle" /\ key \in DOMAIN index /\ RemoveResting(key) /\ r.type # "flush"
        /\ events' = us /\ pc' = "done" /\ request' = r /\ view' = view /\ flushed' = flushed
    BY <1>2 DEF Cancel
  <2>2. resting \in OrderState /\ removal \in Seq(Event)
    <3> HIDE DEF key
    <3>1. QED
      BY <2>1, RemoveRestingInv
  <2>3. /\ \A u \in Updates(removal) :
             /\ u.security_id \in SecurityIds /\ u.side \in Side
             /\ \E X \in BooksUnder(u.security_id) : u.top = best_level(levels', X, u.side)
        /\ \A X \in BookSymbols, s \in Side :
             \/ best_level(levels', X, s) = best_level(levels, X, s)
             \/ \E u \in Updates(removal) : u.side = s /\ X \in BooksUnder(u.security_id)
    <3> HIDE DEF key
    <3>1. QED
      BY <2>1, RemovalReports DEF ViewInv
  <2> HIDE DEF resting, removal
  <2>4. report \in Event
    <3>1. r.orig_cl_ord_id \in ClOrdIds
      BY <1>0 DEF CancelOrder
    <3>2. QED
      BY <2>2, <3>1, ReportType DEF IndInv, CountersOK
  <2>5. report.type # "mbo_book_update"
    BY DEF emit_execution_report
  <2> HIDE DEF report
  <2>6. one \in Seq(Event) /\ Updates(one) = {}
    BY <2>4, <2>5, SilentEvent
  <2> HIDE DEF one
  <2>7. us \in Seq(Event) /\ Updates(us) = Updates(removal)
    <3>1. us \in Seq(Event)
      BY <2>2, <2>6, ConcatProperties
    <3>2. one \in Seq(Event)
      BY <2>6
    <3>3. removal \in Seq(Event)
      BY <2>2
    <3>4. Updates(us) = Updates(one) \cup Updates(removal)
      BY <3>2, <3>3, MoreUpdates
    <3>5. QED
      BY <2>6, <3>1, <3>4
  <2> HIDE DEF us
  <2>8. events' = events \o us
    <3>1. events = << >>
      BY <2>1 DEF ViewInv, FreshLocals
    <3>2. QED
      BY <2>1, <2>7, <3>1
  <2>9. Reported(us)
    BY <2>1, <2>3, <2>7 DEF Reported, BeingEaten
  <2>10. QED
    BY <2>1, <2>7, <2>8, <2>9 DEF Reports
<1>3. QED
  BY <1>1, <1>2

\* A replace reports the removal of the original, whatever becomes of it then.
LEMMA ReplaceReports ==
  ASSUME IndInv, IndInv', ViewInv, NEW r \in Requests, RejectReplace(r) \/ AcceptReplace(r)
  PROVE  Reports
<1>0. r \in ReplaceOrder /\ r.type # "flush"
  BY RequestFields DEF RejectReplace, AcceptReplace
<1>1. CASE RejectReplace(r)
  <2>1. PICK reason \in {"unknown_order", "duplicate_order"} :
          pc = "idle" /\ ReturnWith(r, <<emit_cancel_reject(r, reason)>>)
    BY <1>1 DEF RejectReplace
  <2> DEFINE reject == emit_cancel_reject(r, reason)
  <2>2. reject \in Event
    BY <1>0, RejectType
  <2>3. reject.type # "mbo_book_update"
    BY DEF emit_cancel_reject
  <2>4. ReturnWith(r, <<reject>>)
    BY <2>1
  <2> HIDE DEF reject
  <2>5. <<reject>> \in Seq(Event) /\ Updates(<<reject>>) = {}
    BY <2>2, <2>3, SilentEvent
  <2>6. QED
    BY <1>0, <2>1, <2>4, <2>5, ReturnReports
<1>2. CASE AcceptReplace(r)
  <2> DEFINE key == OrigKey(r)
             removal == RemovalUpdate(nodes[index[key]])
  <2>1. /\ pc = "idle" /\ key \in DOMAIN index /\ RemoveResting(key)
        /\ pc' \in {"match", "done"} /\ request' = r /\ last_traded' = last_traded
        /\ view' = view /\ flushed' = flushed
    BY <1>2 DEF AcceptReplace, BeginMatch
  <2>2. PICK last : events' = Append(removal, last) /\ last.type # "mbo_book_update"
    BY <1>2 DEF AcceptReplace, BeginMatch, emit_execution_report, emit_cancel_reject
  <2>3. removal \in Seq(Event)
    <3> HIDE DEF key
    <3>1. QED
      BY <2>1, RemoveRestingInv
  <2>4. /\ \A u \in Updates(removal) :
             /\ u.security_id \in SecurityIds /\ u.side \in Side
             /\ \E X \in BooksUnder(u.security_id) : u.top = best_level(levels', X, u.side)
        /\ \A X \in BookSymbols, s \in Side :
             \/ best_level(levels', X, s) = best_level(levels, X, s)
             \/ \E u \in Updates(removal) : u.side = s /\ X \in BooksUnder(u.security_id)
    <3> HIDE DEF key
    <3>1. QED
      BY <2>1, RemovalReports DEF ViewInv
  <2> HIDE DEF removal
  <2>5. events' \in Seq(Event)
    BY DEF IndInv, LocalsOK
  <2>6. events = << >> /\ last_traded = None
    BY <2>1 DEF ViewInv, FreshLocals
  <2>7. Updates(events') = Updates(removal)
    <3> DEFINE U == Event \cup {last}
    <3>1. removal \in Seq(U) /\ <<last>> \in Seq(U) /\ events' = removal \o <<last>>
      BY <2>2, <2>3
    <3>2. Updates(events') = Updates(removal) \cup Updates(<<last>>)
      BY <3>1, MoreUpdates
    <3>3. QED
      BY <2>2, <3>2, OneUpdate
  <2>8. events' = events \o events'
    BY <2>5, <2>6
  <2>9. Reported(events')
    BY <2>1, <2>4, <2>6, <2>7 DEF Reported, BeingEaten
  <2>10. QED
    BY <1>0, <2>1, <2>5, <2>8, <2>9 DEF Reports
<1>3. QED
  BY <1>1, <1>2

\* A fill emits a trade; the side it eats is being worked on.
LEMMA FillReports ==
  ASSUME IndInv, ViewInv, Fill
  PROVE  Reports
<1> DEFINE p == Current
           side == Opposite(taker.side)
           k == <<taker.symbol, side, p>>
           node == Head(levels[k].orders)
           qty == FillQty(nodes[node])
           trade == make_trade(taker, nodes[node], p, qty, next_trade_id)
<1>1. /\ pc = "match" /\ CanFill /\ events' = Append(events, trade)
      /\ last_traded' = p /\ pc' = "match" /\ request' = request
      /\ view' = view /\ flushed' = flushed
  BY DEF Fill
<1>2. PICK level : levels' = Assign(levels, k, level)
  BY DEF Fill
<1>3. taker \in OrderState /\ taker' = [taker EXCEPT !.leaves_qty = @ - qty]
  BY <1>1 DEF IndInv, TakerInScope, Fill
<1>4. taker'.symbol = taker.symbol /\ taker'.side = taker.side
  BY <1>3 DEF OrderState
<1>5. p # None
  <2>1. Ahead # {} /\ Ahead \subseteq Price
    BY <1>1 DEF CanFill, Ahead, Prices
  <2>2. p \in Price
    BY <2>1, FrontInSet DEF Current
  <2>3. Price \subseteq Nat
    BY WidthAssumption DEF Price
  <2>4. QED
    BY <2>2, <2>3, NoneAssumption
<1>6. trade.type # "mbo_book_update"
  BY DEF make_trade
<1> HIDE DEF trade
<1>7. events' = events \o <<trade>>
  <2>1. events \in Seq(Event)
    BY DEF IndInv, LocalsOK
  <2>2. QED
    BY <1>1, <2>1
<1>8. trade \in Event
  <2>1. IndInv'
    BY FillInv
  <2>2. events \in Seq(Event) /\ events' \in Seq(Event)
    BY <2>1 DEF IndInv, LocalsOK
  <2>3. Len(events) + 1 \in DOMAIN events' /\ events'[Len(events) + 1] = trade
    BY <1>1, <2>2
  <2>4. QED
    BY <2>2, <2>3
<1>9. <<trade>> \in Seq(Event) /\ Updates(<<trade>>) = {}
  BY <1>6, <1>8, SilentEvent
<1>10. SameElsewhere(levels, levels', taker.symbol, side, p)
  BY <1>2, AssignElsewhere
<1>11. ASSUME NEW X, NEW s
       PROVE  \/ BeingEaten(X, s)'
              \/ best_level(levels', X, s) = best_level(levels, X, s) /\ ~BeingEaten(X, s)
  <2>1. CASE X = taker.symbol /\ s = side
    BY <1>1, <1>4, <1>5, <2>1 DEF BeingEaten
  <2>2. CASE ~(X = taker.symbol /\ s = side)
    BY <1>10, <2>2, OtherSides DEF BeingEaten
  <2>3. QED
    BY <2>1, <2>2
<1>12. Reported(<<trade>>)
  BY <1>9, <1>11 DEF Reported
<1>13. request.type # "flush"
  BY <1>1 DEF ViewInv, FreshLocals
<1>14. QED
  BY <1>1, <1>7, <1>9, <1>12, <1>13 DEF Reports

\* The end of a new order reports both sides, if it has changed them.
LEMMA SettleReports ==
  ASSUME IndInv, IndInv', ViewInv, Settle
  PROVE  Reports
<1> DEFINE eaten == Opposite(taker.side)
           S == {<<taker.symbol, eaten, p>> : p \in consumed}
           lv == Without(levels, S)
           id == taker.security_id
           shown == ShouldPlace /\ best(levels', taker.symbol, taker.side) = taker.price
           A == UpdateIf(last_traded # None, levels', taker.symbol, eaten, id)
           B == UpdateIf(shown, levels', taker.symbol, taker.side, id)
           a == emit_mbo_book_update(levels', taker.symbol, eaten, id)
           b == emit_mbo_book_update(levels', taker.symbol, taker.side, id)
<1>1. /\ pc = "match" /\ PlaceResidual(lv) /\ pc' = "done" /\ request' = request
      /\ view' = view /\ flushed' = flushed
      /\ \/ /\ last_traded # None
            /\ events' = (events \o TradeEvents) \o (A \o B)
         \/ events' = events \o (A \o B)
  BY DEF Settle, BulkErase, ClosingUpdates, locals
<1>2. taker \in OrderState /\ request.type # "flush" /\ taker.symbol \in BooksUnder(id)
  BY <1>1 DEF IndInv, TakerInScope, ViewInv, FreshLocals, Sourced
<1>3. taker.side \in Side /\ eaten \in Side /\ taker.side # eaten /\ id \in SecurityIds
      /\ taker.price \in Price
  BY <1>2 DEF OrderState, Opposite, Side
<1>4. LevelMap(levels')
  BY DEF IndInv, BookOK
<1>5. A \in Seq(Event) /\ Updates(A) = IF last_traded # None THEN {a} ELSE {}
  <2>1. A \in Seq(Event)
    BY <1>3, <1>4, UpdateType
  <2>2. Updates(A) = IF last_traded # None THEN {a} ELSE {}
    BY UpdatesIf
  <2>3. QED
    BY <2>1, <2>2
<1>6. B \in Seq(Event) /\ Updates(B) = IF shown THEN {b} ELSE {}
  <2>1. B \in Seq(Event)
    BY <1>3, <1>4, UpdateType
  <2>2. Updates(B) = IF shown THEN {b} ELSE {}
    BY UpdatesIf
  <2>3. QED
    BY <2>1, <2>2
<1>7. /\ a.security_id = id /\ a.side = eaten
      /\ a.top = best_level(levels', taker.symbol, eaten)
      /\ b.security_id = id /\ b.side = taker.side
      /\ b.top = best_level(levels', taker.symbol, taker.side)
  BY DEF emit_mbo_book_update
<1> HIDE DEF A, B, a, b
<1>8. A \o B \in Seq(Event) /\ Updates(A \o B) = Updates(A) \cup Updates(B)
  BY <1>5, <1>6, MoreUpdates
<1>9. \A u \in Updates(A \o B) :
        /\ u.security_id \in SecurityIds /\ u.side \in Side
        /\ \E X \in BooksUnder(u.security_id) : u.top = best_level(levels', X, u.side)
  BY <1>2, <1>3, <1>5, <1>6, <1>7, <1>8
<1>10. ASSUME NEW X, NEW s, ~(X = taker.symbol /\ s = eaten) \/ last_traded = None
       PROVE  best_level(lv, X, s) = best_level(levels, X, s)
  <2>1. \A p : <<X, s, p>> \notin S
    <3>1. CASE ~(X = taker.symbol /\ s = eaten)
      BY <3>1
    <3>2. CASE last_traded = None
      BY <1>1, <3>2 DEF ViewInv, FreshLocals
    <3>3. QED
      BY <1>10, <3>1, <3>2
  <2>2. DOMAIN lv = DOMAIN levels \ S /\ \A x \in DOMAIN lv : lv[x] = levels[x]
    BY DEF Without, Restrict
  <2> HIDE DEF lv, S
  <2>3. QED
    BY <2>1, <2>2, SameSide
<1> HIDE DEF lv
<1>11. ASSUME NEW X, NEW s, ~(X = taker.symbol /\ s = taker.side /\ shown)
       PROVE  best_level(levels', X, s) = best_level(lv, X, s)
  <2>1. CASE ~ShouldPlace
    BY <1>1, <2>1 DEF PlaceResidual
  <2>2. CASE ShouldPlace
    <3>1. PICK n : levels' = place(lv, n, taker)
      BY <1>1, <2>2 DEF PlaceResidual
    <3>2. /\ SameElsewhere(lv, levels', taker.symbol, taker.side, taker.price)
          /\ taker.price \in Prices(levels', taker.symbol, taker.side)
      BY <1>3, <3>1, PlaceElsewhere DEF Prices, LevelOf
    <3>3. CASE ~(X = taker.symbol /\ s = taker.side)
      BY <3>2, <3>3, OtherSides
    <3>4. CASE X = taker.symbol /\ s = taker.side
      <4>1. best(levels', taker.symbol, taker.side) # taker.price
        BY <1>11, <2>2, <3>4
      <4>2. SameElsewhere(levels', lv, taker.symbol, taker.side, taker.price)
        BY <3>2 DEF SameElsewhere
      <4>3. QED
        BY <3>2, <3>4, <4>1, <4>2, BehindTop
    <3>5. QED
      BY <3>3, <3>4
  <2>3. QED
    BY <2>1, <2>2
<1>12. ASSUME NEW X \in BookSymbols, NEW s \in Side
       PROVE  \/ best_level(levels', X, s) = best_level(levels, X, s) /\ ~BeingEaten(X, s)
              \/ \E u \in Updates(A \o B) : u.side = s /\ X \in BooksUnder(u.security_id)
  <2>1. CASE X = taker.symbol /\ s = eaten /\ last_traded # None
    BY <1>2, <1>5, <1>7, <1>8, <2>1
  <2>2. CASE X = taker.symbol /\ s = taker.side /\ shown
    BY <1>2, <1>6, <1>7, <1>8, <2>2
  <2>3. CASE /\ ~(X = taker.symbol /\ s = eaten /\ last_traded # None)
             /\ ~(X = taker.symbol /\ s = taker.side /\ shown)
    <3>1. ~BeingEaten(X, s)
      BY <2>3 DEF BeingEaten
    <3>2. QED
      BY <1>10, <1>11, <2>3, <3>1
  <2>4. QED
    BY <2>1, <2>2, <2>3
<1>13. PICK us \in Seq(Event) : events' = events \o us /\ Updates(us) = Updates(A \o B)
  <2>1. CASE events' = events \o (A \o B)
    BY <1>8, <2>1
  <2>2. CASE last_traded # None /\ events' = (events \o TradeEvents) \o (A \o B)
    <3>1. events \in Seq(Event)
      BY DEF IndInv, LocalsOK
    <3>2. TradeEvents \in Seq(Event) /\ Updates(TradeEvents) = {}
      <4> DEFINE filled == Minus(taker.order_qty, taker.leaves_qty, QtyMod)
                 status == IF taker.leaves_qty = 0 THEN "filled" ELSE "partially_filled"
                 summary == [type |-> "execution_summary", security_id |-> taker.security_id,
                             aggressor_side |-> taker.side, last_px |-> last_traded,
                             fill_qty |-> filled]
                 report == emit_execution_report(taker, next_exec_id, "trade", status, None,
                                                 filled, last_traded)
      <4>1. taker.order_qty \in Quantity /\ taker.leaves_qty \in Quantity
        BY <1>2 DEF OrderState
      <4>2. filled \in Quantity /\ last_traded \in Price
        BY <2>2, <4>1, WrapType DEF IndInv, LocalsOK
      <4> HIDE DEF filled
      <4>3. summary \in Event /\ summary.type # "mbo_book_update"
        BY <1>3, <4>2 DEF Event, ExecutionSummary
      <4>4. report \in Event
        BY <1>2, <4>2, ReportType DEF IndInv, CountersOK
      <4>5. report.type # "mbo_book_update"
        BY DEF emit_execution_report
      <4>6. TradeEvents = <<summary, report>>
        BY DEF TradeEvents, filled
      <4> HIDE DEF summary, report
      <4>7. /\ <<summary>> \in Seq(Event) /\ Updates(<<summary>>) = {}
            /\ <<report>> \in Seq(Event) /\ Updates(<<report>>) = {}
        BY <4>3, <4>4, <4>5, SilentEvent
      <4>8. <<summary, report>> = <<summary>> \o <<report>>
        BY <4>3, <4>4, TwoInARow
      <4> DEFINE x == <<summary>>
                 y == <<report>>
      <4>9. x \in Seq(Event) /\ Updates(x) = {} /\ y \in Seq(Event) /\ Updates(y) = {}
        BY <4>7
      <4> HIDE DEF x, y
      <4>10. x \o y \in Seq(Event)
        BY <4>9, ConcatProperties
      <4>11. Updates(x \o y) = Updates(x) \cup Updates(y)
        <5>1. x \in Seq(Event)
          BY <4>9
        <5>2. y \in Seq(Event)
          BY <4>9
        <5>3. QED
          BY <5>1, <5>2, MoreUpdates
      <4>12. TradeEvents = x \o y
        BY <4>6, <4>8 DEF x, y
      <4>13. QED
        BY <4>9, <4>10, <4>11, <4>12
    <3> DEFINE T == TradeEvents
               C == A \o B
    <3>3. T \in Seq(Event) /\ C \in Seq(Event) /\ Updates(T) = {}
      BY <1>8, <3>2
    <3>4. events' = (events \o T) \o C
      BY <2>2
    <3> HIDE DEF T, C
    <3>5. T \in Seq(Event)
      BY <3>3
    <3>6. C \in Seq(Event)
      BY <3>3
    <3>7. T \o C \in Seq(Event)
      BY <3>3, ConcatProperties
    <3>8. Updates(T \o C) = Updates(T) \cup Updates(C)
      BY <3>5, <3>6, MoreUpdates
    <3>9. (events \o T) \o C = events \o (T \o C)
      BY <3>1, <3>5, <3>6, ConcatAssociative
    <3>10. QED
      BY <3>3, <3>4, <3>7, <3>8, <3>9 DEF C
  <2>3. QED
    BY <1>1, <2>1, <2>2
<1>14. Reported(us)
  BY <1>9, <1>12, <1>13 DEF Reported
<1>15. QED
  BY <1>1, <1>2, <1>13, <1>14 DEF Reports

-----------------------------------------------------------------------------
(* Every step keeps the picture true *)

\* Orders come to rest under the security_id of a request for their book.
LEMMA SourcedStep ==
  ASSUME IndInv, Sourced, Next
  PROVE  Sourced'
<1>1. ASSUME NEW r \in Requests, r.type \in {"new_order_single", "replace_order"},
             r.symbol \in BookSymbols, taker' = make_order_state(r)
      PROVE  taker'.symbol \in BooksUnder(taker'.security_id)
  BY <1>1 DEF make_order_state, BooksUnder
<1>2. ASSUME DOMAIN nodes' \subseteq DOMAIN nodes, \A n \in DOMAIN nodes' : nodes'[n] = nodes[n],
             pc' = "match" => taker'.symbol \in BooksUnder(taker'.security_id)
      PROVE  Sourced'
  BY <1>2 DEF Sourced
<1>3. ASSUME NEW S, nodes' = Without(nodes, S)
      PROVE  DOMAIN nodes' \subseteq DOMAIN nodes /\ \A n \in DOMAIN nodes' : nodes'[n] = nodes[n]
  BY <1>3 DEF Without, Restrict
<1>4. ASSUME NEW r \in Requests, Send(r)
      PROVE  Sourced'
  <2>1. CASE RejectNewOrder(r) \/ CancelMiss(r) \/ RejectReplace(r)
    BY <1>2, <2>1 DEF RejectNewOrder, CancelMiss, RejectReplace, ReturnWith, book
  <2>2. CASE AcceptNewOrder(r)
    BY <1>1, <1>2, <2>2 DEF AcceptNewOrder, BeginMatch, book
  <2>3. CASE Cancel(r)
    BY <1>2, <1>3, <2>3 DEF Cancel, RemoveResting
  <2>4. CASE AcceptReplace(r)
    <3>1. /\ nodes' = Without(nodes, {index[OrigKey(r)]})
          /\ pc' = "match" => r.symbol \in BookSymbols /\ taker' = make_order_state(r)
          /\ r.type = "replace_order"
      BY <2>4 DEF AcceptReplace, BeginMatch, RemoveResting
    <3>2. QED
      BY <1>1, <1>2, <1>3, <3>1
  <2>5. CASE HandleFlush(r)
    BY <1>2, <1>3, <2>5 DEF HandleFlush
  <2>6. QED
    BY <1>4, <2>1, <2>2, <2>3, <2>4, <2>5 DEF Send
<1>5. CASE Fill
  <2> DEFINE node == Head(levels[EatenLevel(Current)].orders)
             maker == nodes[node]
             qty == FillQty(maker)
  <2>1. /\ pc = "match" /\ pc' = "match" /\ taker' = [taker EXCEPT !.leaves_qty = @ - qty]
        /\ \/ nodes' = Without(nodes, {node})
           \/ nodes' = Assign(nodes, node, [maker EXCEPT !.leaves_qty = @ - qty])
    BY <1>5 DEF Fill, EatenLevel
  <2>2. node \in DOMAIN nodes
    <3>1. Ahead # {} /\ Ahead \subseteq Price
      BY <1>5 DEF Fill, CanFill, Ahead, Prices
    <3>2. Current \in Ahead
      BY <3>1, FrontInSet DEF Current
    <3>3. EatenLevel(Current) \in DOMAIN levels /\ Current \notin consumed
      BY <3>2 DEF Ahead, Prices, EatenLevel
    <3>4. levels[EatenLevel(Current)].orders # << >>
      BY <2>1, <3>3 DEF IndInv, EmptiedLevels, EatenLevel
    <3>5. levels[EatenLevel(Current)] \in PriceLevel
      BY <3>3 DEF IndInv, BookOK, LevelMap
    <3>6. levels[EatenLevel(Current)].orders \in Seq(NodeIds)
      BY <3>5 DEF PriceLevel
    <3>7. Holds(levels[EatenLevel(Current)].orders, node)
      BY <3>4, <3>6 DEF Holds
    <3>8. QED
      BY <3>3, <3>7 DEF IndInv, BookOK, Linked
  <2> HIDE DEF node
  <2>3. taker \in OrderState /\ maker \in OrderState
    BY <2>1, <2>2 DEF IndInv, TakerInScope, BookOK, NodeMap
  <2>4. taker'.symbol = taker.symbol /\ taker'.security_id = taker.security_id
    BY <2>1, <2>3 DEF OrderState
  <2>5. taker'.symbol \in BooksUnder(taker'.security_id)
    BY <2>1, <2>4 DEF Sourced
  <2>6. CASE nodes' = Without(nodes, {node})
    BY <1>2, <1>3, <2>5, <2>6
  <2>7. CASE nodes' = Assign(nodes, node, [maker EXCEPT !.leaves_qty = @ - qty])
    <3> DEFINE shrunk == [maker EXCEPT !.leaves_qty = @ - qty]
    <3>1. shrunk.symbol = maker.symbol /\ shrunk.security_id = maker.security_id
      BY <2>3 DEF OrderState
    <3> HIDE DEF shrunk
    <3>2. DOMAIN nodes' = DOMAIN nodes \cup {node}
          /\ \A n \in DOMAIN nodes' : nodes'[n] = IF n = node THEN shrunk ELSE nodes[n]
      BY <2>7 DEF Assign, shrunk
    <3>3. ASSUME NEW n \in DOMAIN nodes'
          PROVE  nodes'[n].symbol \in BooksUnder(nodes'[n].security_id)
      BY <2>2, <3>1, <3>2 DEF Sourced
    <3>4. QED
      BY <2>5, <3>3 DEF Sourced
  <2>8. QED
    BY <2>1, <2>6, <2>7
<1>6. CASE Settle
  <2>1. /\ pc = "match" /\ pc' = "done"
        /\ \/ nodes' = nodes
           \/ \E n : nodes' = Assign(nodes, n, taker)
    BY <1>6 DEF Settle, PlaceResidual
  <2>2. taker.symbol \in BooksUnder(taker.security_id)
    BY <2>1 DEF Sourced
  <2>3. \A n \in DOMAIN nodes' : \/ nodes'[n] = taker
                                 \/ n \in DOMAIN nodes /\ nodes'[n] = nodes[n]
    BY <2>1 DEF Assign
  <2>4. QED
    BY <2>1, <2>2, <2>3 DEF Sourced
<1>7. CASE Return
  BY <1>2, <1>7 DEF Return, book
<1>8. QED
  BY <1>4, <1>5, <1>6, <1>7 DEF Next

\* The locals of a handler.
LEMMA LocalsStep ==
  ASSUME IndInv, FreshLocals, Next
  PROVE  FreshLocals'
<1>1. ASSUME NEW r \in Requests, Send(r)
      PROVE  FreshLocals'
  <2>1. pc = "idle" /\ pc' # "idle"
    BY <1>1
    DEF Send, RejectNewOrder, AcceptNewOrder, CancelMiss, Cancel, RejectReplace, AcceptReplace,
        HandleFlush, ReturnWith, BeginMatch
  <2>2. consumed = {} /\ consumed' = consumed
    BY <1>1, <2>1
    DEF IndInv, TakerInScope, Send, RejectNewOrder, AcceptNewOrder, CancelMiss, Cancel,
        RejectReplace, AcceptReplace, HandleFlush, ReturnWith, BeginMatch
  <2>3. pc' = "match" => request' = r /\ r.type # "flush"
    BY <1>1
    DEF Send, RejectNewOrder, AcceptNewOrder, CancelMiss, Cancel, RejectReplace, AcceptReplace,
        HandleFlush, ReturnWith, BeginMatch
  <2>4. QED
    BY <2>1, <2>2, <2>3 DEF FreshLocals
<1>2. CASE Fill
  <2>1. /\ pc = "match" /\ pc' = "match" /\ last_traded' = Current /\ request' = request
        /\ Ahead # {}
    BY <1>2 DEF Fill, CanFill
  <2>2. Current \in Price
    BY <2>1, FrontInSet DEF Current, Ahead, Prices
  <2>3. Price \subseteq Nat
    BY WidthAssumption DEF Price
  <2>4. QED
    BY <2>1, <2>2, <2>3, NoneAssumption DEF FreshLocals
<1>3. CASE Settle
  BY <1>3 DEF Settle, FreshLocals
<1>4. CASE Return
  BY <1>4 DEF Return, FreshLocals
<1>5. QED
  BY <1>1, <1>2, <1>3, <1>4 DEF Next

\* A flush is silent: every side is hushed, and every book is empty.
LEMMA FlushKeeps ==
  ASSUME IndInv, ViewInv, NEW r \in Requests, HandleFlush(r)
  PROVE  ExactView' /\ SharedView'
<1>1. /\ pc = "idle" /\ pc' = "done" /\ request' = r /\ r.type = "flush"
      /\ levels' = << >> /\ events' = events
  BY DEF HandleFlush
<1>2. events' = << >>
  BY <1>1 DEF ViewInv, FreshLocals
<1>3. \A k : Hushed(k)'
  BY <1>1, <1>2, NoUpdates DEF Hushed
<1>4. \A X, s : Top(X, s)' = None
  <2>1. DOMAIN levels' = {}
    BY <1>1
  <2>2. QED
    BY <2>1 DEF Top, best_level, Prices
<1>5. QED
  BY <1>3, <1>4 DEF ExactView, SharedView

\* At the end of a handler the subscriber has read its events.
LEMMA ReturnKeeps ==
  ASSUME IndInv, ViewInv, Return
  PROVE  ExactView' /\ SharedView'
<1>1. /\ pc = "done" /\ pc' = "idle" /\ events' = << >> /\ levels' = levels
      /\ view' = Apply(view, events)
      /\ flushed' = {k \in DOMAIN view : /\ k \in flushed \/ request.type = "flush"
                                         /\ UpdatesOf(k, events) = {}}
  BY DEF Return, book
<1>2. DOMAIN view = SecurityIds \X Side
  BY DEF IndInv, HistoryOK
<1>3. ASSUME NEW id \in SecurityIds, NEW s \in Side
      PROVE  Latest(<<id, s>>)' = Latest(<<id, s>>) /\ (Hushed(<<id, s>>)' <=> Hushed(<<id, s>>))
  <2> DEFINE k == <<id, s>>
  <2>1. k \in DOMAIN view /\ UpdatesOf(k, events') = {}
    BY <1>1, <1>2, NoUpdates
  <2> HIDE DEF k
  <2>2. Latest(k)' = Latest(k)
    BY <1>1, <2>1 DEF Latest, Apply
  <2>3. Hushed(k)' <=> Hushed(k)
    BY <1>1, <2>1 DEF Hushed
  <2>4. QED
    BY <2>2, <2>3 DEF k
<1>4. \A X, s : ~BeingEaten(X, s) /\ ~BeingEaten(X, s)'
  BY <1>1 DEF BeingEaten
<1>5. \A X, s : Top(X, s)' = Top(X, s)
  BY <1>1 DEF Top
<1>6. ExactView'
  <2>1. SUFFICES ASSUME NEW pair \in Identified, NEW s \in Side
                 PROVE  IF Hushed(<<pair[1], s>>)' THEN Top(pair[2], s)' = None
                        ELSE Latest(<<pair[1], s>>)' = Top(pair[2], s)'
    BY DEF ExactView
  <2>2. pair[1] \in SecurityIds
    BY DEF Identified
  <2>3. IF Hushed(<<pair[1], s>>) THEN Top(pair[2], s) = None
        ELSE Latest(<<pair[1], s>>) = Top(pair[2], s)
    BY <1>4 DEF ViewInv, ExactView
  <2>4. QED
    BY <1>3, <1>5, <2>2, <2>3
<1>7. SharedView'
  <2>1. SUFFICES ASSUME OneIdPerBook, NEW id \in SecurityIds, NEW s \in Side,
                        BooksUnder(id) # {}
                 PROVE  IF Hushed(<<id, s>>)'
                        THEN \A X \in BooksUnder(id) : Top(X, s)' = None
                        ELSE \E X \in BooksUnder(id) : Latest(<<id, s>>)' = Top(X, s)'
    BY DEF SharedView
  <2>2. IF Hushed(<<id, s>>) THEN \A X \in BooksUnder(id) : Top(X, s) = None
        ELSE \E X \in BooksUnder(id) : Latest(<<id, s>>) = Top(X, s)
    BY <1>4, <2>1 DEF ViewInv, SharedView
  <2>3. QED
    BY <1>3, <1>5, <2>2
<1>8. QED
  BY <1>6, <1>7

\* At first the books are empty, and that is what a subscriber takes them for.
LEMMA InitView == Init => ViewInv
<1> SUFFICES ASSUME Init PROVE ViewInv
  OBVIOUS
<1>1. /\ nodes = << >> /\ levels = << >> /\ pc = "idle" /\ last_traded = None
      /\ events = << >> /\ flushed = {} /\ DOMAIN << >> = {}
      /\ view = [k \in SecurityIds \X Side |-> None]
  BY DEF Init
<1>2. Sourced /\ FreshLocals
  BY <1>1 DEF Sourced, FreshLocals
<1>3. \A X, s : Top(X, s) = None
  BY <1>1 DEF Top, best_level, Prices
<1>4. \A id \in SecurityIds, s \in Side : ~Hushed(<<id, s>>) /\ Latest(<<id, s>>) = None
  BY <1>1, NoUpdates DEF Hushed, Latest
<1>5. ExactView
  BY <1>3, <1>4 DEF ExactView, Identified
<1>6. SharedView
  BY <1>3, <1>4 DEF SharedView
<1>7. QED
  BY <1>2, <1>5, <1>6 DEF ViewInv

\* Every step of the engine keeps the picture true.
LEMMA NextView == IndInv /\ ViewInv /\ [Next]_vars => ViewInv'
<1> SUFFICES ASSUME IndInv, ViewInv, [Next]_vars PROVE ViewInv'
  OBVIOUS
<1>1. IndInv'
  BY NextInv
<1>2. CASE UNCHANGED vars
  BY <1>2
  DEF vars, ViewInv, Sourced, FreshLocals, ExactView, SharedView, Top, Latest, Hushed, BeingEaten
<1>3. CASE Next
  <2>1. Sourced' /\ FreshLocals'
    BY <1>3, SourcedStep, LocalsStep DEF ViewInv
  <2>2. ASSUME NEW r \in Requests, Send(r)
        PROVE  Reports \/ HandleFlush(r)
    BY <1>1, <2>2, NewOrderReports, CancelReports, ReplaceReports DEF Send
  <2>3. Reports \/ (\E r \in Requests : HandleFlush(r)) \/ Return
    BY <1>1, <1>3, <2>2, FillReports, SettleReports DEF Next
  <2>4. ExactView' /\ SharedView'
    BY <2>3, ReportsKeep, FlushKeeps, ReturnKeeps
  <2>5. QED
    BY <2>1, <2>4 DEF ViewInv
<1>4. QED
  BY <1>2, <1>3

\* At rest nothing is eaten and nothing is unread.
LEMMA ViewInvImplies == IndInv /\ ViewInv => ViewIsTop
<1> SUFFICES ASSUME IndInv, ViewInv, pc = "idle",
                    NEW pair \in Identified, NEW s \in Side
             PROVE  IF <<pair[1], s>> \in flushed THEN best_level(levels, pair[2], s) = None
                    ELSE view[<<pair[1], s>>] = best_level(levels, pair[2], s)
  BY DEF ViewIsTop
<1>1. events = << >> /\ ~BeingEaten(pair[2], s)
  BY DEF ViewInv, FreshLocals, BeingEaten
<1>2. /\ Latest(<<pair[1], s>>) = view[<<pair[1], s>>]
      /\ Hushed(<<pair[1], s>>) <=> <<pair[1], s>> \in flushed
  BY <1>1, NoUpdates DEF Latest, Hushed
<1>3. QED
  BY <1>1, <1>2 DEF ViewInv, ExactView, Top

\* The invariant of the engine's updates holds in every reachable state.
THEOREM ViewInvariance == Spec => []ViewInv
BY Invariance, InitView, NextView, PTL DEF Spec

\* A subscriber that applies every update of the engine knows the true top of
\* each side of each identified book after every request, although the handlers
\* only report the changes that they take for relevant.
THEOREM ViewIsTopHolds == Spec => []ViewIsTop
BY Invariance, ViewInvariance, ViewInvImplies, PTL

-----------------------------------------------------------------------------
(* The encodings *)

MessageTypes ==
  {"security_definition", "security_status", "execution_summary", "trade", "mbo_book_update"}

\* The two headers agree on the fields, and the two encoders on the members, which
\* are all the fields, and on the tokens.
LEMMA SameTables ==
  /\ DOMAIN MD!Fields = MessageTypes
  /\ \A t \in MessageTypes : MD!mmd_fields[t] = MD!Fields[t] /\ "message_type" \notin MD!Fields[t]
  /\ \A t \in MessageTypes : MD!json_members[t] = MD!Fields[t]
  /\ MD!mmd_json_members = MD!json_members
  /\ MD!mmd_token = MD!token
<1>1. DOMAIN MD!Fields = MessageTypes
  BY DEF MD!Fields, MessageTypes
<1>2. \A t \in MessageTypes : MD!mmd_fields[t] = MD!Fields[t] /\ "message_type" \notin MD!Fields[t]
  BY DEF MD!Fields, MD!mmd_fields, MessageTypes
<1>3. MD!mmd_token = MD!token
  BY DEF MD!token, MD!mmd_token
<1>4. \A t \in MessageTypes : MD!json_members[t] = MD!Fields[t]
  BY DEF MD!Fields, MD!json_members, MessageTypes
<1>5. MD!mmd_json_members = MD!json_members
  BY DEF MD!json_members, MD!mmd_json_members
<1>6. QED
  BY <1>1, <1>2, <1>3, <1>4, <1>5

\* A message goes through the normalized form unchanged, and so does its record,
\* which has all its fields.
LEMMA ThroughNormalized ==
  ASSUME NEW m, MD!IsMessage(m)
  PROVE  /\ MD!to_mmd(m) = m
         /\ MD!encode(m) = MD!mmd_encode(MD!to_mmd(m))
         /\ MD!to_market_data(MD!to_mmd(m)) = m
         /\ DOMAIN MD!encode(m) = DOMAIN m
<1>1. PICK t \in MessageTypes : /\ m = [f \in MD!Fields[t] \cup {"message_type"} |-> m[f]]
                                /\ m["message_type"] = t
  BY SameTables DEF MD!IsMessage
<1>2. MD!to_mmd(m) = m
  BY <1>1, SameTables DEF MD!to_mmd
<1>3. MD!to_market_data(m) = m
  BY <1>1 DEF MD!to_market_data
<1>4. MD!mmd_encode(m) = MD!encode(m)
  BY SameTables DEF MD!mmd_encode, MD!encode
<1>5. DOMAIN MD!encode(m) = DOMAIN m
  BY <1>1, SameTables DEF MD!encode
<1>6. QED
  BY <1>2, <1>3, <1>4, <1>5

IsUpdate(m) == m["message_type"] = "mbo_book_update"
KeyIn(m) == <<m["security_id"], m["side"]>>

\* The top that a book update shows.
TopIn(m) ==
  IF m["update_action"] = "delete_order" THEN None
  ELSE [price |-> m["price"], total_quantity |-> m["quantity"]]

\* What every subscriber does with a message.
Read(tops, m) ==
  [k \in BookSide |-> IF IsUpdate(m) /\ k = KeyIn(m) THEN TopIn(m) ELSE tops[k]]

\* The fields of a book update.
LEMMA UpdateFields ==
  ASSUME NEW m, MD!IsMessage(m), IsUpdate(m)
  PROVE  /\ DOMAIN m = {"security_id", "update_action", "side", "resting_order_id", "price",
                        "quantity", "previous_quantity", "transact_time", "message_type"}
         /\ m["security_id"] # None
         /\ m["side"] # None /\ m["side"] \in Side
         /\ m["update_action"] # None
         /\ m["update_action"] \in {"new_order", "change", "delete_order"}
<1> DEFINE t == "mbo_book_update"
           F == {"security_id", "update_action", "side", "resting_order_id", "price",
                 "quantity", "previous_quantity", "transact_time"}
<1>1. MD!Fields[t] = F
  BY DEF MD!Fields
<1>2. /\ m = [f \in MD!Fields[t] \cup {"message_type"} |-> m[f]]
      /\ \A f \in MD!Fields[t] :
           \/ /\ m[f] = None
              /\ f \in MD!Nullable \/ (t = "mbo_book_update" /\ f \in {"price", "quantity"})
           \/ /\ m[f] # None
              /\ f \in DOMAIN MD!Enumerators => m[f] \in MD!Enumerators[f]
              /\ f \notin DOMAIN MD!Enumerators \cup MD!Strings => m[f] \in Nat
  BY DEF MD!IsMessage, IsUpdate
<1>3. DOMAIN m = F \cup {"message_type"}
  BY <1>1, <1>2
<1>4. m["security_id"] # None /\ m["side"] # None /\ m["update_action"] # None
  BY <1>1, <1>2 DEF MD!Nullable
<1>5. /\ "side" \in DOMAIN MD!Enumerators /\ MD!Enumerators["side"] = {"buy", "sell"}
      /\ "update_action" \in DOMAIN MD!Enumerators
      /\ MD!Enumerators["update_action"] = {"new_order", "change", "delete_order"}
  BY DEF MD!Enumerators
<1>6. m["side"] \in MD!Enumerators["side"] /\ m["update_action"] \in MD!Enumerators["update_action"]
  BY <1>1, <1>2, <1>4, <1>5
<1>7. QED
  BY <1>3, <1>4, <1>5, <1>6 DEF Side

\* A subscriber to the JSON lines reads what was in the message.
LEMMA ReadsJson ==
  ASSUME NEW m, MD!IsMessage(m), NEW tops
  PROVE  ReadJson(tops, MD!encode(m)) = Read(tops, m)
<1> DEFINE line == MD!encode(m)
<1>1. DOMAIN line = DOMAIN m
  BY ThroughNormalized
<1>2. line["message_type"] = <<"string", m["message_type"]>>
  BY DEF MD!encode
<1>3. line["message_type"] = <<"string", "mbo_book_update">> <=> IsUpdate(m)
  BY <1>2 DEF IsUpdate
<1>4. ASSUME IsUpdate(m)
      PROVE  /\ line["security_id"][2] = m["security_id"] /\ line["side"][2] = m["side"]
             /\ line["price"][2] = m["price"] /\ line["quantity"][2] = m["quantity"]
             /\ line["update_action"] = <<"string", m["update_action"]>>
  <2>1. \A f \in {"security_id", "side", "price", "quantity", "update_action"} :
          line[f] = MD!json_value(f, m[f], MD!token)
    BY <1>1, <1>4, UpdateFields DEF MD!encode
  <2>2. /\ DOMAIN MD!token = {"side", "aggressor_side", "update_action", "security_trading_status",
                              "security_trading_event", "trade_condition", "trade_sub_type"}
        /\ \A v \in Side : MD!token["side"][v] = v
        /\ \A v \in {"new_order", "change", "delete_order"} : MD!token["update_action"][v] = v
    BY DEF MD!token, Side
  <2>3. \A f \in {"security_id", "price", "quantity"} : f \notin DOMAIN MD!token /\ f \notin MD!Strings
    BY <2>2 DEF MD!Strings
  <2> HIDE DEF line
  <2>4. \A f \in {"security_id", "price", "quantity"} : line[f][2] = m[f]
    <3> SUFFICES ASSUME NEW f \in {"security_id", "price", "quantity"}
                 PROVE  MD!json_value(f, m[f], MD!token)[2] = m[f]
      BY <2>1
    <3>1. f \notin DOMAIN MD!token /\ f \notin MD!Strings
      BY <2>3
    <3>2. CASE m[f] = None
      BY <3>2 DEF MD!json_value
    <3>3. CASE m[f] # None
      <4>1. MD!json_value(f, m[f], MD!token) = <<"number", m[f]>>
        BY <3>1, <3>3 DEF MD!json_value
      <4>2. QED
        BY <4>1
    <3>4. QED
      BY <3>2, <3>3
  <2>5. line["side"] = <<"string", m["side"]>>
    BY <1>4, <2>1, <2>2, UpdateFields DEF MD!json_value
  <2>6. line["update_action"] = <<"string", m["update_action"]>>
    BY <1>4, <2>1, <2>2, UpdateFields DEF MD!json_value
  <2>7. QED
    BY <2>4, <2>5, <2>6
<1> HIDE DEF line
<1>5. CASE ~IsUpdate(m)
  BY <1>3, <1>5 DEF ReadJson, Read, line
<1>6. CASE IsUpdate(m)
  <2>1. (line["update_action"] = <<"string", "delete_order">>) <=> m["update_action"] = "delete_order"
    BY <1>4, <1>6
  <2>2. ReadJson(tops, line) = Read(tops, m)
    BY <1>3, <1>4, <1>6, <2>1 DEF ReadJson, Read, KeyIn, TopIn
  <2>3. QED
    BY <2>2 DEF line
<1>7. QED
  BY <1>5, <1>6

\* So does one to the FIX-shaped messages, although they keep fewer fields.
LEMMA ReadsFix ==
  ASSUME NEW m, MD!IsMessage(m), NEW tops
  PROVE  ReadFix(tops, m) = Read(tops, m)
<1>1. CASE ~IsUpdate(m)
  BY <1>1 DEF ReadFix, Read, IsUpdate
<1>2. CASE IsUpdate(m)
  <2> DEFINE g == MD!to_fix(m)
  <2>1. MD!fix_fields["mbo_book_update"]
          = {"security_id", "side", "update_action", "price", "quantity", "transact_time"}
    BY DEF MD!fix_fields
  <2>2. \A f \in {"security_id", "side", "update_action", "price", "quantity"} : g[f] = m[f]
    BY <1>2, <2>1 DEF MD!to_fix, IsUpdate
  <2>3. /\ \A v \in Side : MD!normalize["side"][v] = "0" <=> v = "buy"
        /\ \A v \in {"new_order", "change", "delete_order"} :
             MD!normalize["update_action"][v] = "2" <=> v = "delete_order"
    BY DEF MD!normalize, Side
  <2> HIDE DEF g
  <2>4. /\ (MD!normalize["side"][g["side"]] = "0") <=> m["side"] = "buy"
        /\ (MD!normalize["update_action"][g["update_action"]] = "2")
             <=> m["update_action"] = "delete_order"
    BY <1>2, <2>2, <2>3, UpdateFields
  <2>5. ASSUME NEW k \in BookSide
        PROVE  k[1] = g["security_id"] /\ ((k[2] = "buy") = (MD!normalize["side"][g["side"]] = "0"))
                 <=> k = KeyIn(m)
    <3>1. k = <<k[1], k[2]>> /\ k[2] \in Side
      BY DEF BookSide
    <3>2. m["side"] \in Side
      BY <1>2, UpdateFields
    <3>3. QED
      BY <2>2, <2>4, <3>1, <3>2 DEF KeyIn, Side
  <2>6. QED
    BY <1>2, <2>2, <2>4, <2>5 DEF ReadFix, Read, TopIn, IsUpdate, g
<1>3. QED
  BY <1>1, <1>2

-----------------------------------------------------------------------------
(* The messages that are posted *)

Posts == {MessageOf(e) : e \in {x \in Event : IsMarketData(x)}} \cup Announcements

\* The events by their type.
LEMMA EventTypes ==
  ASSUME NEW e \in Event
  PROVE  /\ e.type = "mbo_book_update" => e \in MboBookUpdate
         /\ e.type = "trade" => e \in Trade
         /\ e.type = "execution_summary" => e \in ExecutionSummary
BY DEF Event, Trade, ExecutionSummary, MboBookUpdate, ExecutionReport, CancelReject

\* Prices, quantities and identifiers are numbers, and none of them is None.
LEMMA Numbers ==
  /\ Price \subseteq Nat /\ Quantity \subseteq Nat /\ Id \subseteq Nat
  /\ SecurityIds \subseteq Nat /\ ClOrdIds \subseteq Nat
  /\ None \notin Nat
BY WidthAssumption, NoneAssumption, FeedAssumption DEF Price, Quantity, Id

\* No enumerator is None.
LEMMA Words ==
  None \notin {"buy", "sell", "new_order", "change", "delete_order", "regular", "20260522"}
<1>1. /\ MD!Enumerators["side"] = {"buy", "sell"}
      /\ MD!Enumerators["update_action"] = {"new_order", "change", "delete_order"}
      /\ MD!Enumerators["trade_condition"] = {"regular"}
      /\ {"side", "update_action", "trade_condition"} \subseteq DOMAIN MD!Enumerators
  BY DEF MD!Enumerators
<1>2. QED
  BY <1>1, FeedAssumption

\* A book update of the engine is a message that shows the event's top.
LEMMA BookUpdateMessage ==
  ASSUME NEW e \in MboBookUpdate
  PROVE  LET m == BookUpdate(e)
         IN /\ MD!IsMessage(m)
            /\ IsUpdate(m) /\ KeyIn(m) = <<e.security_id, e.side>> /\ TopIn(m) = e.top
<1> DEFINE m == BookUpdate(e)
           t == "mbo_book_update"
           F == {"security_id", "update_action", "side", "resting_order_id", "price",
                 "quantity", "previous_quantity", "transact_time"}
<1>1. e.security_id \in SecurityIds /\ e.side \in Side /\ e.top \in LevelSnapshot \cup {None}
  BY DEF MboBookUpdate
<1>2. e.top # None => e.top.price \in Nat /\ e.top.total_quantity \in Nat
  BY <1>1, Numbers DEF LevelSnapshot
<1>3. update_action(e.top) \in {"change", "delete_order"}
  BY DEF update_action
<1>4. /\ m = [f \in DOMAIN m |-> m[f]]
      /\ DOMAIN m = F \cup {"message_type"} /\ m["message_type"] = t
  BY DEF BookUpdate
<1>5. /\ m["security_id"] = e.security_id /\ m["update_action"] = update_action(e.top)
      /\ m["side"] = e.side /\ m["resting_order_id"] = 0 /\ m["transact_time"] = 0
      /\ m["previous_quantity"] = None
      /\ m["price"] = IF e.top = None THEN None ELSE e.top.price
      /\ m["quantity"] = IF e.top = None THEN None ELSE e.top.total_quantity
  BY DEF BookUpdate
<1>6. t \in DOMAIN MD!Fields /\ MD!Fields[t] = F
  BY DEF MD!Fields
<1>7. /\ DOMAIN MD!Enumerators = {"side", "aggressor_side", "update_action",
           "security_trading_status", "security_trading_event", "trade_condition",
           "trade_sub_type"}
      /\ MD!Enumerators["side"] = {"buy", "sell"}
      /\ MD!Enumerators["update_action"] = {"new_order", "change", "delete_order"}
  BY DEF MD!Enumerators
<1> HIDE DEF m
<1>8. ASSUME NEW f \in F
      PROVE  \/ /\ m[f] = None
                /\ f \in MD!Nullable \/ (t = "mbo_book_update" /\ f \in {"price", "quantity"})
             \/ /\ m[f] # None
                /\ f \in DOMAIN MD!Enumerators => m[f] \in MD!Enumerators[f]
                /\ f \notin DOMAIN MD!Enumerators \cup MD!Strings => m[f] \in Nat
  <2>1. CASE f \in {"security_id", "resting_order_id", "transact_time"}
    <3>0. e.security_id \in Nat /\ 0 \in Nat
      BY <1>1, Numbers
    <3>1. m[f] \in Nat
      BY <1>5, <2>1, <3>0
    <3>2. f \notin DOMAIN MD!Enumerators
      BY <1>7, <2>1
    <3>3. m[f] # None
      BY <3>1, Numbers
    <3>4. QED
      BY <3>1, <3>2, <3>3
  <2>2. CASE f = "previous_quantity"
    BY <1>5, <2>2 DEF MD!Nullable
  <2>3. CASE f \in {"price", "quantity"}
    BY <1>2, <1>5, <1>7, <2>3, Numbers
  <2>4. CASE f = "side"
    <3>1. m[f] \in {"buy", "sell"}
      BY <1>1, <1>5, <2>4 DEF Side
    <3>2. m[f] # None
      BY <3>1, Words
    <3>3. QED
      BY <1>7, <2>4, <3>1, <3>2
  <2>5. CASE f = "update_action"
    <3>1. m[f] \in {"change", "delete_order"}
      BY <1>3, <1>5, <2>5
    <3>2. m[f] # None
      BY <3>1, Words
    <3>3. QED
      BY <1>7, <2>5, <3>1, <3>2
  <2>6. QED
    BY <2>1, <2>2, <2>3, <2>4, <2>5
<1>9. MD!IsMessage(m)
  BY <1>4, <1>6, <1>8 DEF MD!IsMessage
<1>10. TopIn(m) = e.top
  <2>1. CASE e.top = None
    BY <1>5, <2>1 DEF TopIn, update_action
  <2>2. CASE e.top # None
    <3>1. e.top = [price |-> e.top.price, total_quantity |-> e.top.total_quantity]
      BY <1>1, <2>2 DEF LevelSnapshot
    <3>2. QED
      BY <1>5, <2>2, <3>1 DEF TopIn, update_action
  <2>3. QED
    BY <2>1, <2>2
<1>11. QED
  BY <1>4, <1>5, <1>9, <1>10 DEF m, IsUpdate, KeyIn

\* So are its trades and summaries, which show none.
LEMMA TradeMessages ==
  ASSUME NEW e \in Trade
  PROVE  MD!IsMessage(TradeMessage(e)) /\ ~IsUpdate(TradeMessage(e))
<1> DEFINE m == TradeMessage(e)
           t == "trade"
           F == {"security_id", "trade_id", "price", "quantity", "buyer", "seller",
                 "trade_condition", "trade_sub_type", "trade_date", "transact_time"}
<1>1. /\ e.security_id \in Nat /\ e.trade_id \in Nat /\ e.price \in Nat /\ e.quantity \in Nat
      /\ e.buyer \in Nat /\ e.seller \in Nat
  BY Numbers DEF Trade
<1>2. /\ m = [f \in DOMAIN m |-> m[f]]
      /\ DOMAIN m = F \cup {"message_type"} /\ m["message_type"] = t
  BY DEF TradeMessage
<1>3. /\ \A f \in {"security_id", "trade_id", "price", "quantity", "buyer", "seller",
                   "transact_time"} : m[f] \in Nat
      /\ m["trade_condition"] = "regular" /\ m["trade_sub_type"] = None
      /\ m["trade_date"] = "20260522"
  BY <1>1 DEF TradeMessage
<1>4. t \in DOMAIN MD!Fields /\ MD!Fields[t] = F
  BY DEF MD!Fields
<1>5. /\ DOMAIN MD!Enumerators = {"side", "aggressor_side", "update_action",
           "security_trading_status", "security_trading_event", "trade_condition",
           "trade_sub_type"}
      /\ MD!Enumerators["trade_condition"] = {"regular"}
  BY DEF MD!Enumerators
<1> HIDE DEF m
<1>6. ASSUME NEW f \in F
      PROVE  \/ /\ m[f] = None
                /\ f \in MD!Nullable \/ (t = "mbo_book_update" /\ f \in {"price", "quantity"})
             \/ /\ m[f] # None
                /\ f \in DOMAIN MD!Enumerators => m[f] \in MD!Enumerators[f]
                /\ f \notin DOMAIN MD!Enumerators \cup MD!Strings => m[f] \in Nat
  <2>1. CASE f \in {"security_id", "trade_id", "price", "quantity", "buyer", "seller",
                    "transact_time"}
    BY <1>3, <1>5, <2>1, Numbers
  <2>2. CASE f = "trade_sub_type"
    BY <1>3, <2>2 DEF MD!Nullable
  <2>3. CASE f = "trade_condition"
    <3>1. m[f] = "regular" /\ m[f] # None
      BY <1>3, <2>3, Words
    <3>2. QED
      BY <1>5, <2>3, <3>1
  <2>4. CASE f = "trade_date"
    <3>1. m[f] # None
      BY <1>3, <2>4, Words
    <3>2. f \notin DOMAIN MD!Enumerators /\ f \in MD!Strings
      BY <1>5, <2>4 DEF MD!Strings
    <3>3. QED
      BY <3>1, <3>2
  <2>5. QED
    BY <2>1, <2>2, <2>3, <2>4
<1>7. MD!IsMessage(m)
  BY <1>2, <1>4, <1>6 DEF MD!IsMessage
<1>8. QED
  BY <1>2, <1>7 DEF m, IsUpdate

\* The message of an execution summary is not an update.
LEMMA SummaryMessages ==
  ASSUME NEW e \in ExecutionSummary
  PROVE  MD!IsMessage(SummaryMessage(e)) /\ ~IsUpdate(SummaryMessage(e))
<1> DEFINE m == SummaryMessage(e)
           t == "execution_summary"
           F == {"security_id", "aggressor_side", "last_px", "fill_qty", "traded_hidden_qty",
                 "cancel_qty", "aggressor_time", "transact_time"}
<1>1. /\ e.security_id \in Nat /\ e.last_px \in Nat /\ e.fill_qty \in Nat
      /\ e.aggressor_side \in Side
  BY Numbers DEF ExecutionSummary
<1>2. /\ m = [f \in DOMAIN m |-> m[f]]
      /\ DOMAIN m = F \cup {"message_type"} /\ m["message_type"] = t
  BY DEF SummaryMessage
<1>3. /\ \A f \in {"security_id", "last_px", "fill_qty", "aggressor_time", "transact_time"} :
           m[f] \in Nat
      /\ m["aggressor_side"] \in Side
      /\ m["traded_hidden_qty"] = None /\ m["cancel_qty"] = None
  BY <1>1 DEF SummaryMessage
<1>4. t \in DOMAIN MD!Fields /\ MD!Fields[t] = F
  BY DEF MD!Fields
<1>5. /\ DOMAIN MD!Enumerators = {"side", "aggressor_side", "update_action",
           "security_trading_status", "security_trading_event", "trade_condition",
           "trade_sub_type"}
      /\ MD!Enumerators["aggressor_side"] = {"buy", "sell"}
  BY DEF MD!Enumerators
<1> HIDE DEF m
<1>6. ASSUME NEW f \in F
      PROVE  \/ /\ m[f] = None
                /\ f \in MD!Nullable \/ (t = "mbo_book_update" /\ f \in {"price", "quantity"})
             \/ /\ m[f] # None
                /\ f \in DOMAIN MD!Enumerators => m[f] \in MD!Enumerators[f]
                /\ f \notin DOMAIN MD!Enumerators \cup MD!Strings => m[f] \in Nat
  <2>1. CASE f \in {"security_id", "last_px", "fill_qty", "aggressor_time", "transact_time"}
    BY <1>3, <1>5, <2>1, Numbers
  <2>2. CASE f \in {"traded_hidden_qty", "cancel_qty"}
    BY <1>3, <2>2 DEF MD!Nullable
  <2>3. CASE f = "aggressor_side"
    <3>1. m[f] \in {"buy", "sell"}
      BY <1>3, <2>3 DEF Side
    <3>2. m[f] # None
      BY <3>1, Words
    <3>3. QED
      BY <1>5, <2>3, <3>1, <3>2
  <2>4. QED
    BY <2>1, <2>2, <2>3
<1>7. MD!IsMessage(m)
  BY <1>2, <1>4, <1>6 DEF MD!IsMessage
<1>8. QED
  BY <1>2, <1>7 DEF m, IsUpdate

\* What the engine's events become.
LEMMA EngineMessage ==
  ASSUME NEW e \in Event, IsMarketData(e)
  PROVE  /\ MD!IsMessage(MessageOf(e))
         /\ IsUpdate(MessageOf(e)) <=> e.type = "mbo_book_update"
         /\ e.type = "mbo_book_update" =>
              KeyIn(MessageOf(e)) = <<e.security_id, e.side>> /\ TopIn(MessageOf(e)) = e.top
<1>1. CASE e.type = "mbo_book_update"
  <2>1. e \in MboBookUpdate /\ MessageOf(e) = BookUpdate(e)
    BY <1>1, EventTypes DEF MessageOf
  <2>2. QED
    BY <1>1, <2>1, BookUpdateMessage
<1>2. CASE e.type = "trade"
  <2>1. e \in Trade /\ MessageOf(e) = TradeMessage(e)
    BY <1>2, EventTypes DEF MessageOf
  <2>2. QED
    BY <1>2, <2>1, TradeMessages
<1>3. CASE e.type = "execution_summary"
  <2>1. e \in ExecutionSummary /\ MessageOf(e) = SummaryMessage(e)
    BY <1>3, EventTypes DEF MessageOf
  <2>2. QED
    BY <1>3, <2>1, SummaryMessages
<1>4. QED
  BY <1>1, <1>2, <1>3 DEF IsMarketData

\* Whatever is posted is a message, and shows a top of the engine if it is about
\* one of its books.
LEMMA PostedMessage ==
  ASSUME NEW m \in Posts
  PROVE  /\ MD!IsMessage(m)
         /\ IsUpdate(m) /\ KeyIn(m) \in BookSide => TopIn(m) \in LevelSnapshot \cup {None}
<1>1. CASE m \in Announcements
  <2>1. /\ MD!IsMessage(m)
        /\ IsUpdate(m) => m["security_id"] \notin SecurityIds
    BY <1>1, FeedAssumption DEF IsUpdate
  <2>2. QED
    BY <2>1 DEF KeyIn, BookSide
<1>2. CASE m \notin Announcements
  <2>1. PICK e \in Event : IsMarketData(e) /\ m = MessageOf(e)
    BY <1>2 DEF Posts
  <2>2. e.type = "mbo_book_update" => e.top \in LevelSnapshot \cup {None}
    BY EventTypes DEF MboBookUpdate
  <2>3. QED
    BY <2>1, <2>2, EngineMessage
<1>3. QED
  BY <1>1, <1>2

-----------------------------------------------------------------------------
(* Queues of messages *)

\* The updates of a book side in a queue.
UpdatesIn(q, k) == {i \in DOMAIN q : IsUpdate(q[i]) /\ KeyIn(q[i]) = k}

\* The last of them, if there is one, shows this top.
Tells(q, k, top) ==
  \A i \in UpdatesIn(q, k) : (\A j \in UpdatesIn(q, k) : j <= i) => TopIn(q[i]) = top

\* Messages about other things make no difference.
LEMMA SilentTail ==
  ASSUME NEW S, NEW q \in Seq(S), NEW n \in Seq(S), NEW k, NEW top, UpdatesIn(n, k) = {}
  PROVE  /\ UpdatesIn(q \o n, k) = UpdatesIn(q, k)
         /\ Tells(q, k, top) => Tells(q \o n, k, top)
<1> DEFINE c == q \o n
           x == Len(q)
           y == Len(n)
<1>1. /\ x \in Nat /\ y \in Nat /\ DOMAIN q = 1 .. x /\ DOMAIN n = 1 .. y
      /\ DOMAIN c = 1 .. x + y
      /\ \A i \in 1 .. x : c[i] = q[i]
      /\ \A i \in 1 .. y : c[x + i] = n[i]
  OBVIOUS
<1> HIDE DEF c, x, y
<1>2. \A i \in DOMAIN q : i \in DOMAIN c /\ c[i] = q[i]
  BY <1>1
<1>3. ASSUME NEW i \in DOMAIN c, i \notin DOMAIN q
      PROVE  \E j \in DOMAIN n : c[i] = n[j]
  <2>1. i - x \in 1 .. y /\ x + (i - x) = i
    BY <1>1, <1>3
  <2>2. QED
    BY <1>1, <2>1
<1>4. UpdatesIn(c, k) = UpdatesIn(q, k)
  BY <1>2, <1>3 DEF UpdatesIn
<1>5. \A i \in UpdatesIn(q, k) : c[i] = q[i]
  BY <1>2 DEF UpdatesIn
<1>6. Tells(q, k, top) => Tells(c, k, top)
  BY <1>4, <1>5 DEF Tells
<1>7. QED
  BY <1>4, <1>6 DEF c

\* The last word is in what comes last.
LEMMA TellingTail ==
  ASSUME NEW S, NEW q \in Seq(S), NEW n \in Seq(S), NEW k, NEW top,
         UpdatesIn(n, k) # {}, Tells(n, k, top)
  PROVE  UpdatesIn(q \o n, k) # {} /\ Tells(q \o n, k, top)
<1> DEFINE c == q \o n
           x == Len(q)
           y == Len(n)
<1>1. /\ x \in Nat /\ y \in Nat /\ DOMAIN q = 1 .. x /\ DOMAIN n = 1 .. y
      /\ DOMAIN c = 1 .. x + y
      /\ \A i \in 1 .. x : c[i] = q[i]
      /\ \A i \in 1 .. y : c[x + i] = n[i]
  OBVIOUS
<1> HIDE DEF c, x, y
<1>2. \A j \in UpdatesIn(n, k) : j \in 1 .. y /\ x + j \in UpdatesIn(c, k)
  BY <1>1 DEF UpdatesIn
<1>3. UpdatesIn(c, k) # {}
  BY <1>2
<1>4. ASSUME NEW i \in UpdatesIn(c, k), \A j \in UpdatesIn(c, k) : j <= i
      PROVE  TopIn(c[i]) = top
  <2>1. PICK j0 \in UpdatesIn(n, k) : TRUE
    OBVIOUS
  <2>2. x + j0 <= i /\ j0 \in 1 .. y
    BY <1>2, <1>4, <2>1
  <2>3. i \in 1 .. x + y
    BY <1>1 DEF UpdatesIn
  <2>4. i - x \in 1 .. y /\ x + (i - x) = i
    BY <1>1, <2>2, <2>3
  <2>5. c[i] = n[i - x]
    BY <1>1, <2>4
  <2>6. i - x \in UpdatesIn(n, k)
    BY <1>1, <2>4, <2>5 DEF UpdatesIn
  <2>7. ASSUME NEW j \in UpdatesIn(n, k)
        PROVE  j <= i - x
    <3>1. x + j <= i /\ j \in 1 .. y
      BY <1>2, <1>4
    <3>2. QED
      BY <1>1, <2>3, <3>1
  <2>8. QED
    BY <2>5, <2>6, <2>7 DEF Tells
<1>5. QED
  BY <1>3, <1>4 DEF Tells, c

\* Taking the first message off.
LEMMA TakenOff ==
  ASSUME NEW S, NEW q \in Seq(S), q # << >>, NEW k, NEW top, Tells(q, k, top)
  PROVE  /\ Tells(Tail(q), k, top)
         /\ UpdatesIn(Tail(q), k) = {} =>
              IF IsUpdate(Head(q)) /\ KeyIn(Head(q)) = k THEN TopIn(Head(q)) = top
              ELSE UpdatesIn(q, k) = {}
<1> DEFINE c == Tail(q)
           x == Len(q)
<1>1. /\ x \in Nat \ {0} /\ DOMAIN q = 1 .. x /\ DOMAIN c = 1 .. x - 1
      /\ \A i \in 1 .. x - 1 : c[i] = q[i + 1]
      /\ Head(q) = q[1]
  OBVIOUS
<1> HIDE DEF c, x
<1>2. \A i \in UpdatesIn(c, k) : i \in 1 .. x - 1 /\ i + 1 \in UpdatesIn(q, k) /\ c[i] = q[i + 1]
  BY <1>1 DEF UpdatesIn
<1>3. \A j \in UpdatesIn(q, k) : j \in 1 .. x /\ (j # 1 => j - 1 \in UpdatesIn(c, k))
  <2> SUFFICES ASSUME NEW j \in UpdatesIn(q, k)
               PROVE  j \in 1 .. x /\ (j # 1 => j - 1 \in UpdatesIn(c, k))
    OBVIOUS
  <2>1. j \in 1 .. x
    BY <1>1 DEF UpdatesIn
  <2>2. ASSUME j # 1
        PROVE  j - 1 \in UpdatesIn(c, k)
    <3>1. j - 1 \in 1 .. x - 1 /\ (j - 1) + 1 = j
      BY <1>1, <2>1, <2>2
    <3>2. c[j - 1] = q[j]
      BY <1>1, <3>1
    <3>3. QED
      BY <1>1, <3>1, <3>2 DEF UpdatesIn
  <2>3. QED
    BY <2>1, <2>2
<1>4. Tells(c, k, top)
  <2> SUFFICES ASSUME NEW i \in UpdatesIn(c, k), \A j \in UpdatesIn(c, k) : j <= i
               PROVE  TopIn(c[i]) = top
    BY DEF Tells
  <2>1. i \in 1 .. x - 1 /\ i + 1 \in UpdatesIn(q, k) /\ c[i] = q[i + 1]
    BY <1>2
  <2>2. ASSUME NEW j \in UpdatesIn(q, k)
        PROVE  j <= i + 1
    <3>1. CASE j = 1
      BY <1>1, <2>1, <3>1
    <3>2. CASE j # 1
      <4>1. j \in 1 .. x /\ j - 1 <= i
        BY <1>3, <3>2
      <4>2. QED
        BY <1>1, <2>1, <4>1
    <3>3. QED
      BY <3>1, <3>2
  <2>3. QED
    BY <2>1, <2>2 DEF Tells
<1>5. ASSUME UpdatesIn(c, k) = {}
      PROVE  IF IsUpdate(Head(q)) /\ KeyIn(Head(q)) = k THEN TopIn(Head(q)) = top
             ELSE UpdatesIn(q, k) = {}
  <2>1. \A j \in UpdatesIn(q, k) : j = 1
    BY <1>3, <1>5
  <2>2. 1 \in UpdatesIn(q, k) <=> IsUpdate(Head(q)) /\ KeyIn(Head(q)) = k
    BY <1>1 DEF UpdatesIn
  <2>3. CASE 1 \in UpdatesIn(q, k)
    <3>1. \A j \in UpdatesIn(q, k) : j <= 1
      BY <2>1
    <3>2. TopIn(q[1]) = top
      BY <2>3, <3>1 DEF Tells
    <3>3. QED
      BY <1>1, <2>2, <2>3, <3>2
  <2>4. CASE 1 \notin UpdatesIn(q, k)
    BY <2>1, <2>2, <2>4
  <2>5. QED
    BY <2>3, <2>4
<1>6. QED
  BY <1>4, <1>5 DEF c

\* A function on an initial interval is a sequence.
LEMMA FunctionIsSeq ==
  ASSUME NEW S, NEW len \in Nat, NEW f \in [1 .. len -> S]
  PROVE  f \in Seq(S)
<1>1. [1 .. len -> S] \in {[1 .. z -> S] : z \in Nat}
  OBVIOUS
<1>2. f \in UNION {[1 .. z -> S] : z \in Nat}
  BY <1>1, Zenon
<1>3. QED
  BY <1>2, SeqDef, Zenon

\* The messages of the events at the given positions.
MessagesAt(c, at) == [i \in DOMAIN at |-> MessageOf(c[at[i]])]

\* The messages n posted when the events c have grown by b.
RightlyPosted(n, b, c, k) ==
  /\ n \in Seq(Posts)
  /\ (\A u \in Updates(b) : KeyOfUpdate(u) # k) => UpdatesIn(n, k) = {}
  /\ (\E u \in Updates(b) : KeyOfUpdate(u) = k) =>
       UpdatesIn(n, k) # {} /\ Tells(n, k, c[Max(UpdatesOf(k, c))].top)

\* What a step posts: whole messages, and the last one about a book side shows
\* what the last event does.
LEMMA PostedInOrder ==
  \A a, b \in Seq(Event) : \A at \in Listings(Posted(a, a \o b)) : \A k :
    RightlyPosted(MessagesAt(a \o b, at), b, a \o b, k)
<1> TAKE a, b \in Seq(Event)
<1> TAKE at \in Listings(Posted(a, a \o b))
<1> TAKE k
<1> PICK c : c = a \o b
  OBVIOUS
<1> PICK n : n = [i \in DOMAIN at |-> MessageOf(c[at[i]])]
  OBVIOUS
<1> SUFFICES /\ n \in Seq(Posts)
             /\ (\A u \in Updates(b) : KeyOfUpdate(u) # k) => UpdatesIn(n, k) = {}
             /\ (\E u \in Updates(b) : KeyOfUpdate(u) = k) =>
                  UpdatesIn(n, k) # {} /\ Tells(n, k, c[Max(UpdatesOf(k, c))].top)
  BY DEF RightlyPosted, MessagesAt
<1> at \in Listings(Posted(a, c))
  OBVIOUS
<1> DEFINE P == Posted(a, c)
           x == Len(a)
           y == Len(b)
           C == Cardinality(P)
<1>1. /\ x \in Nat /\ y \in Nat /\ DOMAIN b = 1 .. y
      /\ DOMAIN c = 1 .. x + y /\ \A i \in 1 .. y : c[x + i] = b[i]
      /\ c \in Seq(Event)
  OBVIOUS
<1> HIDE DEF x, y
<1>2. P \subseteq 1 .. x + y /\ \A i \in P : i > x /\ IsMarketData(c[i]) /\ c[i] \in Event
  <2>1. \A i \in DOMAIN c : c[i] \in Event
    BY <1>1
  <2>2. QED
    BY <1>1, <2>1 DEF Posted, x
<1>3. C \in Nat
  <2>1. IsFiniteSet(1 .. x + y)
    BY <1>1, FS_Interval
  <2>2. IsFiniteSet(P)
    BY <1>2, <2>1, FS_Subset
  <2>3. QED
    BY <2>2, FS_CardinalityType
<1>4. /\ at \in [1 .. C -> P]
      /\ \A i, j \in 1 .. C : i < j => at[i] < at[j]
      /\ \A p \in P : \E i \in 1 .. C : at[i] = p
  BY DEF Listings
<1> HIDE DEF P, C
<1>5. /\ DOMAIN n = 1 .. C
      /\ \A i \in 1 .. C : n[i] = MessageOf(c[at[i]]) /\ at[i] \in P
  BY <1>4
<1>6. \A i \in 1 .. C : c[at[i]] \in Event /\ IsMarketData(c[at[i]])
  BY <1>2, <1>5
<1>7. n \in Seq(Posts)
  <2>1. \A i \in 1 .. C : n[i] \in Posts
    BY <1>5, <1>6 DEF Posts
  <2>2. n \in [1 .. C -> Posts]
    BY <1>4, <1>5, <2>1
  <2>3. QED
    BY <1>3, <2>2, FunctionIsSeq
<1>8. ASSUME NEW i \in 1 .. C
      PROVE  i \in UpdatesIn(n, k) <=> at[i] \in UpdatesOf(k, c)
  <2>1. /\ IsUpdate(n[i]) <=> c[at[i]].type = "mbo_book_update"
        /\ c[at[i]].type = "mbo_book_update" =>
             KeyIn(n[i]) = <<c[at[i]].security_id, c[at[i]].side>>
    BY <1>5, <1>6, EngineMessage
  <2>2. at[i] \in DOMAIN c
    BY <1>1, <1>2, <1>5
  <2>3. i \in UpdatesIn(n, k) <=> IsUpdate(n[i]) /\ KeyIn(n[i]) = k
    BY <1>5 DEF UpdatesIn
  <2>4. at[i] \in UpdatesOf(k, c) <=>
          c[at[i]].type = "mbo_book_update" /\ <<c[at[i]].security_id, c[at[i]].side>> = k
    BY <2>2 DEF UpdatesOf
  <2>5. QED
    BY <2>1, <2>3, <2>4
<1>9. ASSUME NEW p \in DOMAIN c, p > x
      PROVE  \E j \in DOMAIN b : c[p] = b[j]
  <2>1. p - x \in 1 .. y /\ x + (p - x) = p
    BY <1>1, <1>9
  <2>2. QED
    BY <1>1, <2>1
<1>10. ASSUME \A u \in Updates(b) : KeyOfUpdate(u) # k
       PROVE  UpdatesIn(n, k) = {}
  <2>1. SUFFICES ASSUME NEW i \in UpdatesIn(n, k) PROVE FALSE
    OBVIOUS
  <2>2. i \in 1 .. C /\ at[i] \in UpdatesOf(k, c)
    BY <1>5, <1>8 DEF UpdatesIn
  <2>3. at[i] \in P
    BY <1>5, <2>2
  <2>4. at[i] \in DOMAIN c /\ at[i] > x
    BY <1>2, <2>2, <2>3 DEF UpdatesOf
  <2>5. PICK j \in DOMAIN b : c[at[i]] = b[j]
    BY <1>9, <2>4
  <2>6. b[j].type = "mbo_book_update" /\ KeyOfUpdate(b[j]) = k
    BY <2>2, <2>5 DEF UpdatesOf, KeyOfUpdate
  <2>7. b[j] \in Updates(b)
    BY <2>6 DEF Updates
  <2>8. QED
    BY <1>10, <2>6, <2>7
<1>11. ASSUME NEW u \in Updates(b), KeyOfUpdate(u) = k
       PROVE  UpdatesIn(n, k) # {} /\ Tells(n, k, c[Max(UpdatesOf(k, c))].top)
  <2> DEFINE U == UpdatesOf(k, c)
             p == Max(U)
  <2>1. PICK j \in DOMAIN b : b[j] = u /\ u.type = "mbo_book_update"
    BY DEF Updates
  <2>2. x + j \in DOMAIN c /\ c[x + j] = u /\ x + j > x
    BY <1>1, <2>1
  <2>3. x + j \in U
    BY <1>11, <2>1, <2>2 DEF UpdatesOf, KeyOfUpdate
  <2>4. U \subseteq 1 .. x + y /\ U \subseteq 0 .. x + y /\ x + y \in Nat
    BY <1>1 DEF UpdatesOf
  <2>5. p \in U /\ \A z \in U : p >= z
    BY <2>3, <2>4, MaxProperties
  <2> HIDE DEF p
  <2>6. p \in 1 .. x + y /\ p > x
    <3>1. p \in 1 .. x + y /\ p >= x + j /\ j \in 1 .. y
      BY <1>1, <2>1, <2>3, <2>4, <2>5
    <3>2. QED
      BY <1>1, <3>1
  <2>7. c[p].type = "mbo_book_update"
    BY <2>5 DEF UpdatesOf
  <2>8. p \in P
    BY <1>1, <2>6, <2>7 DEF P, Posted, IsMarketData, x
  <2>9. PICK i \in 1 .. C : at[i] = p
    BY <1>4, <2>8
  <2>10. i \in UpdatesIn(n, k)
    BY <1>8, <2>5, <2>9
  <2>11. TopIn(n[i]) = c[p].top
    BY <1>5, <1>6, <2>7, <2>9, EngineMessage
  <2>12. ASSUME NEW l \in UpdatesIn(n, k), \A z \in UpdatesIn(n, k) : z <= l
         PROVE  l = i
    <3>1. l \in 1 .. C /\ at[l] \in U
      BY <1>5, <1>8 DEF UpdatesIn
    <3>2. at[l] <= p /\ at[l] \in 1 .. x + y
      BY <2>4, <2>5, <3>1
    <3>3. ~(at[i] < at[l])
      BY <1>1, <2>6, <2>9, <3>2
    <3>4. ~(i < l)
      BY <1>4, <3>1, <3>3
    <3>5. i <= l
      BY <2>10, <2>12
    <3>6. QED
      BY <1>3, <3>1, <3>4, <3>5
  <2>13. Tells(n, k, c[p].top)
    BY <2>11, <2>12 DEF Tells
  <2>14. QED
    BY <2>10, <2>13 DEF p
<1>12. QED
  BY <1>7, <1>10, <1>11

-----------------------------------------------------------------------------
(* The invariant of the feeds *)

\* A subscriber knows the latest top, or the last update on its way to it shows
\* it; one that has read from the start and knows nothing is right that nothing
\* has happened.
Keeps(feed, k) ==
  /\ UpdatesIn(pending, k) = {} =>
       IF known[feed][k] = Unknown THEN late \/ Latest(k) = None
       ELSE known[feed][k] = Latest(k)
  /\ Tells(pending, k, Latest(k))

FeedInv ==
  /\ pending \in Seq(Posts)
  /\ known \in [Feeds -> [BookSide -> LevelSnapshot \cup {None, Unknown}]]
  /\ late \in BOOLEAN
  /\ \A feed \in Feeds, k \in BookSide : Keeps(feed, k)

\* What is known of a book side is the top of a level, or that there is none.
LEMMA LatestType ==
  ASSUME IndInv, NEW k \in BookSide
  PROVE  Latest(k) \in LevelSnapshot \cup {None}
<1>1. /\ view \in [SecurityIds \X Side -> LevelSnapshot \cup {None}] /\ events \in Seq(Event)
      /\ k \in SecurityIds \X Side
  BY DEF IndInv, HistoryOK, LocalsOK, BookSide
<1>2. Apply(view, events) \in [SecurityIds \X Side -> LevelSnapshot \cup {None}]
  BY <1>1, ApplyType
<1>3. Latest(k) = Apply(view, events)[k]
  BY <1>1 DEF Latest, Apply
<1>4. QED
  BY <1>1, <1>2, <1>3

\* A step of a handler only adds to its events.
LEMMA EventsGrow ==
  ASSUME IndInv, ViewInv, (\E r \in Requests : Send(r)) \/ Fill \/ Settle
  PROVE  view' = view /\ \E us \in Seq(Event) : events' = events \o us
<1>1. IndInv'
  BY NextInv DEF Next
<1>2. ASSUME NEW r \in Requests, Send(r)
      PROVE  Reports \/ HandleFlush(r)
  BY <1>1, <1>2, NewOrderReports, CancelReports, ReplaceReports DEF Send
<1>3. Reports \/ (\E r \in Requests : HandleFlush(r))
  BY <1>1, <1>2, FillReports, SettleReports
<1>4. CASE Reports
  BY <1>4 DEF Reports
<1>5. CASE \E r \in Requests : HandleFlush(r)
  <2>1. events' = events /\ view' = view
    BY <1>5 DEF HandleFlush
  <2>2. events \in Seq(Event) /\ << >> \in Seq(Event)
    BY DEF IndInv, LocalsOK
  <2>3. events' = events \o << >>
    BY <2>1, <2>2
  <2>4. QED
    BY <2>1, <2>2, <2>3
<1>6. QED
  BY <1>3, <1>4, <1>5

\* The engine posts what it has emitted.
LEMMA EngineFeed ==
  ASSUME IndInv, ViewInv, FeedInv, EngineStep
  PROVE  FeedInv'
<1>1. PICK us \in Seq(Event) : events' = events \o us
  BY EventsGrow DEF EngineStep
<1>2. PICK at \in Listings(Posted(events, events')) :
        pending' = pending \o [i \in DOMAIN at |-> MessageOf(events'[at[i]])]
  BY DEF EngineStep
<1> DEFINE n == [i \in DOMAIN at |-> MessageOf(events'[at[i]])]
<1>3. /\ pending' = pending \o n /\ known' = known /\ late' = late /\ view' = view
      /\ events \in Seq(Event) /\ pending \in Seq(Posts)
  BY <1>2, EventsGrow DEF EngineStep, IndInv, LocalsOK, FeedInv
<1>4. \A k : /\ n \in Seq(Posts)
             /\ (\A u \in Updates(us) : KeyOfUpdate(u) # k) => UpdatesIn(n, k) = {}
             /\ (\E u \in Updates(us) : KeyOfUpdate(u) = k) =>
                  UpdatesIn(n, k) # {} /\ Tells(n, k, events'[Max(UpdatesOf(k, events'))].top)
  <2>1. n = MessagesAt(events', at) /\ events \in Seq(Event)
    BY <1>3 DEF MessagesAt
  <2>2. \A k : RightlyPosted(MessagesAt(events \o us, at), us, events \o us, k)
    BY <1>1, <1>2, <2>1, PostedInOrder, Zenon
  <2>3. QED
    BY <1>1, <2>1, <2>2 DEF RightlyPosted
<1> HIDE DEF n
<1>5. n \in Seq(Posts)
  BY <1>4
<1>6. pending' \in Seq(Posts)
  BY <1>3, <1>5, ConcatProperties
<1>7. ASSUME NEW feed \in Feeds, NEW k \in BookSide
      PROVE  Keeps(feed, k)'
  <2>1. Keeps(feed, k)
    BY DEF FeedInv
  <2>2. CASE \A u \in Updates(us) : KeyOfUpdate(u) # k
    <3>1. /\ UpdatesOf(k, events') = UpdatesOf(k, events)
          /\ \A i \in UpdatesOf(k, events) : events'[i] = events[i]
      BY <1>1, <1>3, <2>2, LatestKept
    <3>2. UpdatesOf(k, events) # {} => Max(UpdatesOf(k, events)) \in UpdatesOf(k, events)
      <4>1. Len(events) \in Nat /\ UpdatesOf(k, events) \subseteq 0 .. Len(events)
        BY <1>3 DEF UpdatesOf
      <4>2. QED
        BY <4>1, MaxProperties
    <3>3. Latest(k)' = Latest(k)
      BY <1>3, <3>1, <3>2 DEF Latest
    <3>4. UpdatesIn(n, k) = {}
      BY <1>4, <2>2
    <3>5. pending \in Seq(Posts)
      BY <1>3
    <3>6. /\ UpdatesIn(pending \o n, k) = UpdatesIn(pending, k)
          /\ Tells(pending, k, Latest(k)) => Tells(pending \o n, k, Latest(k))
      BY <1>5, <3>4, <3>5, SilentTail
    <3>7. QED
      BY <1>3, <2>1, <3>3, <3>6 DEF Keeps
  <2>3. CASE \E u \in Updates(us) : KeyOfUpdate(u) = k
    <3>1. UpdatesOf(k, events') # {}
      BY <1>1, <1>3, <2>3, LatestComes
    <3>2. Latest(k)' = events'[Max(UpdatesOf(k, events'))].top
      BY <3>1 DEF Latest
    <3>3. UpdatesIn(n, k) # {} /\ Tells(n, k, Latest(k)')
      BY <1>4, <2>3, <3>2
    <3>4. pending \in Seq(Posts)
      BY <1>3
    <3>5. UpdatesIn(pending \o n, k) # {} /\ Tells(pending \o n, k, Latest(k)')
      BY <1>5, <3>3, <3>4, TellingTail
    <3>6. QED
      BY <1>3, <3>5 DEF Keeps
  <2>4. QED
    BY <2>2, <2>3
<1>8. QED
  BY <1>3, <1>6, <1>7 DEF FeedInv

\* The end of a handler changes nothing that is known or on its way.
LEMMA ReturnFeed ==
  ASSUME IndInv, FeedInv, EngineReturn
  PROVE  FeedInv'
<1>1. /\ events' = << >> /\ view' = Apply(view, events)
      /\ pending' = pending /\ known' = known /\ late' = late
  BY DEF EngineReturn, Return, feedVars
<1>2. ASSUME NEW k \in BookSide
      PROVE  Latest(k)' = Latest(k)
  <2>1. k \in DOMAIN view /\ UpdatesOf(k, events') = {}
    BY <1>1, NoUpdates DEF IndInv, HistoryOK, BookSide
  <2>2. QED
    BY <1>1, <2>1 DEF Latest, Apply
<1>3. QED
  BY <1>1, <1>2 DEF FeedInv, Keeps

\* An announcement is about none of the engine's books.
LEMMA AnnounceFeed ==
  ASSUME FeedInv, Announce
  PROVE  FeedInv'
<1>1. PICK m \in Announcements : pending' = Append(pending, m)
  BY DEF Announce
<1>2. /\ known' = known /\ late' = late /\ pending \in Seq(Posts)
      /\ \A k : Latest(k)' = Latest(k)
  BY DEF Announce, vars, FeedInv, Latest
<1>3. m \in Posts /\ (IsUpdate(m) => KeyIn(m) \notin BookSide)
  BY FeedAssumption DEF Posts, IsUpdate, KeyIn, BookSide
<1> DEFINE n == <<m>>
<1>4. n \in Seq(Posts) /\ pending' = pending \o n
  BY <1>1, <1>2, <1>3
<1>5. \A k \in BookSide : UpdatesIn(n, k) = {}
  BY <1>3 DEF UpdatesIn
<1> HIDE DEF n
<1>6. n \in Seq(Posts)
  BY <1>4
<1>7. pending \in Seq(Posts)
  BY <1>2
<1>8. pending' \in Seq(Posts)
  BY <1>4, <1>6, <1>7, ConcatProperties
<1>9. ASSUME NEW feed \in Feeds, NEW k \in BookSide
      PROVE  Keeps(feed, k)'
  <2>1. Keeps(feed, k)
    BY DEF FeedInv
  <2>2. UpdatesIn(n, k) = {}
    BY <1>5
  <2>3. /\ UpdatesIn(pending \o n, k) = UpdatesIn(pending, k)
        /\ Tells(pending, k, Latest(k)) => Tells(pending \o n, k, Latest(k))
    BY <1>6, <1>7, <2>2, SilentTail
  <2>4. QED
    BY <1>2, <1>4, <2>1, <2>3 DEF Keeps
<1>10. QED
  BY <1>2, <1>8, <1>9 DEF FeedInv

\* The three subscribers read the same message alike.
LEMMA PublishFeed ==
  ASSUME IndInv, FeedInv, Publish
  PROVE  FeedInv'
<1> DEFINE m == Head(pending)
<1>1. /\ pending # << >> /\ pending' = Tail(pending) /\ late' = late
      /\ known' = [known EXCEPT
                     !["market_data"] = ReadJson(@, MD!encode(m)),
                     !["mmd_json"] = ReadJson(@, MD!mmd_encode(MD!to_mmd(m))),
                     !["mmdfix"] = ReadFix(@, MD!to_mmd(m))]
  BY DEF Publish
<1>2. /\ pending \in Seq(Posts) /\ late \in BOOLEAN
      /\ known \in [Feeds -> [BookSide -> LevelSnapshot \cup {None, Unknown}]]
  BY DEF FeedInv
<1>3. m \in Posts /\ pending' \in Seq(Posts)
  BY <1>1, <1>2
<1> HIDE DEF m
<1>4. /\ MD!IsMessage(m)
      /\ IsUpdate(m) /\ KeyIn(m) \in BookSide => TopIn(m) \in LevelSnapshot \cup {None}
  BY <1>3, PostedMessage
<1>5. known' = [feed \in Feeds |-> Read(known[feed], m)]
  <2>1. /\ ReadJson(known["market_data"], MD!encode(m)) = Read(known["market_data"], m)
        /\ ReadJson(known["mmd_json"], MD!mmd_encode(MD!to_mmd(m))) = Read(known["mmd_json"], m)
        /\ ReadFix(known["mmdfix"], MD!to_mmd(m)) = Read(known["mmdfix"], m)
    BY <1>4, ThroughNormalized, ReadsJson, ReadsFix
  <2>2. known' = [feed \in Feeds |->
                    IF feed = "market_data" THEN ReadJson(known["market_data"], MD!encode(m))
                    ELSE IF feed = "mmd_json"
                         THEN ReadJson(known["mmd_json"], MD!mmd_encode(MD!to_mmd(m)))
                         ELSE ReadFix(known["mmdfix"], MD!to_mmd(m))]
    BY <1>1, <1>2 DEF Feeds
  <2>3. QED
    BY <2>1, <2>2 DEF Feeds
<1>6. \A feed \in Feeds, k \in BookSide :
        known'[feed][k] = IF IsUpdate(m) /\ KeyIn(m) = k THEN TopIn(m) ELSE known[feed][k]
  BY <1>5 DEF Read
<1>7. known' \in [Feeds -> [BookSide -> LevelSnapshot \cup {None, Unknown}]]
  <2>1. ASSUME NEW feed \in Feeds
        PROVE  Read(known[feed], m) \in [BookSide -> LevelSnapshot \cup {None, Unknown}]
    BY <1>2, <1>4 DEF Read
  <2>2. QED
    BY <1>5, <2>1
<1>8. ASSUME NEW feed \in Feeds, NEW k \in BookSide
      PROVE  Keeps(feed, k)'
  <2>1. Keeps(feed, k) /\ Latest(k)' = Latest(k)
    BY DEF FeedInv, Publish, vars, Latest
  <2>2. Latest(k) # Unknown
    BY LatestType, FeedAssumption
  <2>3. /\ Tells(Tail(pending), k, Latest(k))
        /\ UpdatesIn(Tail(pending), k) = {} =>
             IF IsUpdate(m) /\ KeyIn(m) = k THEN TopIn(m) = Latest(k)
             ELSE UpdatesIn(pending, k) = {}
    BY <1>1, <1>2, <2>1, TakenOff DEF Keeps, m
  <2>4. UpdatesIn(Tail(pending), k) = {} =>
          IF known'[feed][k] = Unknown THEN late \/ Latest(k) = None
          ELSE known'[feed][k] = Latest(k)
    BY <1>6, <2>1, <2>2, <2>3 DEF Keeps
  <2>5. QED
    BY <1>1, <2>1, <2>3, <2>4 DEF Keeps
<1>9. QED
  BY <1>1, <1>2, <1>3, <1>7, <1>8 DEF FeedInv

\* Who attaches knows nothing, and knows that.
LEMMA AttachFeed ==
  ASSUME FeedInv, Attach
  PROVE  FeedInv'
<1>1. /\ known' = [feed \in Feeds |-> [k \in BookSide |-> Unknown]] /\ late' = TRUE
      /\ pending' = pending /\ \A k : Latest(k)' = Latest(k)
  BY DEF Attach, vars, Latest
<1>2. known' \in [Feeds -> [BookSide -> LevelSnapshot \cup {None, Unknown}]]
  BY <1>1
<1>3. \A feed \in Feeds, k \in BookSide : known'[feed][k] = Unknown
  BY <1>1
<1>4. QED
  BY <1>1, <1>2, <1>3 DEF FeedInv, Keeps

\* The steps of the engine within the feed.
LEMMA FeedStep == [FeedNext]_allVars => [Next]_vars
BY DEF FeedNext, EngineStep, EngineReturn, Announce, Publish, Attach, Next, allVars

\* Every step keeps the feeds right.
LEMMA NextFeed == IndInv /\ ViewInv /\ FeedInv /\ [FeedNext]_allVars => FeedInv'
<1> SUFFICES ASSUME IndInv, ViewInv, FeedInv, [FeedNext]_allVars PROVE FeedInv'
  OBVIOUS
<1>1. CASE UNCHANGED allVars
  BY <1>1 DEF allVars, feedVars, vars, FeedInv, Keeps, Latest
<1>2. CASE FeedNext
  BY <1>2, EngineFeed, ReturnFeed, AnnounceFeed, PublishFeed, AttachFeed DEF FeedNext
<1>3. QED
  BY <1>1, <1>2

\* At first nothing is known and nothing has happened.
LEMMA InitFeed == FeedInit => FeedInv
<1> SUFFICES ASSUME FeedInit PROVE FeedInv
  OBVIOUS
<1>1. /\ pending = << >> /\ late = FALSE /\ events = << >> /\ DOMAIN << >> = {}
      /\ known = [feed \in Feeds |-> [k \in BookSide |-> Unknown]]
      /\ view = [k \in SecurityIds \X Side |-> None]
  BY DEF FeedInit, Init
<1>2. \A k : UpdatesIn(pending, k) = {}
  BY <1>1 DEF UpdatesIn
<1>3. \A k \in BookSide : Latest(k) = None
  BY <1>1, NoUpdates DEF Latest, BookSide
<1>4. \A feed \in Feeds, k \in BookSide : Keeps(feed, k)
  BY <1>1, <1>2, <1>3 DEF Keeps, Tells
<1>5. known \in [Feeds -> [BookSide -> LevelSnapshot \cup {None, Unknown}]]
  BY <1>1
<1>6. pending \in Seq(Posts)
  BY <1>1
<1>7. QED
  BY <1>1, <1>4, <1>5, <1>6 DEF FeedInv

\* The invariants together contain the properties of the feeds.
LEMMA FeedInvImplies ==
  IndInv /\ ViewInv /\ FeedInv => FeedTypeOK /\ SameRecords /\ SubscriberKnowsATop
<1> SUFFICES ASSUME IndInv, ViewInv, FeedInv
             PROVE  FeedTypeOK /\ SameRecords /\ SubscriberKnowsATop
  OBVIOUS
<1>1. \A i \in DOMAIN pending : MD!IsMessage(pending[i])
  <2>1. \A i \in DOMAIN pending : pending[i] \in Posts
    BY DEF FeedInv
  <2>2. QED
    BY <2>1, PostedMessage
<1>2. FeedTypeOK
  BY <1>1 DEF FeedInv, FeedTypeOK
<1>3. SameRecords
  BY <1>1, ThroughNormalized DEF SameRecords
<1>4. SubscriberKnowsATop
  <2> SUFFICES ASSUME Quiet, OneIdPerBook, NEW feed \in Feeds, NEW k \in BookSide,
                      Believed(feed, k) # Unknown, BooksUnder(k[1]) # {}
               PROVE  \E symbol \in BooksUnder(k[1]) :
                        best_level(levels, symbol, k[2]) =
                          IF k \in flushed THEN None ELSE Believed(feed, k)
    BY DEF SubscriberKnowsATop
  <2>1. pc = "idle" /\ pending = << >> /\ events = << >>
    BY DEF Quiet, ViewInv, FreshLocals
  <2>2. UpdatesIn(pending, k) = {}
    BY <2>1 DEF UpdatesIn
  <2>3. Keeps(feed, k) /\ late \in BOOLEAN
    BY DEF FeedInv
  <2>4. Believed(feed, k) = Latest(k)
    BY <2>2, <2>3 DEF Keeps, Believed
  <2>5. k[1] \in SecurityIds /\ k[2] \in Side /\ k = <<k[1], k[2]>>
    BY DEF BookSide
  <2>6. \A symbol : ~BeingEaten(symbol, k[2])
    BY <2>1 DEF BeingEaten
  <2>7. Hushed(k) <=> k \in flushed
    BY <2>1, NoUpdates DEF Hushed
  <2>8. IF Hushed(k) THEN \A symbol \in BooksUnder(k[1]) : Top(symbol, k[2]) = None
        ELSE \E symbol \in BooksUnder(k[1]) : Latest(k) = Top(symbol, k[2])
    BY <2>5, <2>6 DEF ViewInv, SharedView
  <2>9. QED
    BY <2>4, <2>7, <2>8 DEF Top
<1>5. QED
  BY <1>2, <1>3, <1>4

-----------------------------------------------------------------------------
(* The theorems of the feeds *)

\* The engine is the same engine when its messages are published.
THEOREM FeedInvariance == FeedSpec => [](IndInv /\ ViewInv /\ FeedInv)
<1>1. FeedInit => IndInv /\ ViewInv /\ FeedInv
  BY InitInv, InitView, InitFeed DEF FeedInit
<1>2. IndInv /\ ViewInv /\ FeedInv /\ [FeedNext]_allVars => (IndInv /\ ViewInv /\ FeedInv)'
  BY FeedStep, NextInv, NextView, NextFeed
<1>3. QED
  BY <1>1, <1>2, PTL DEF FeedSpec

\* Only whole messages are posted, whatever optional fields the engine's events
\* leave empty.
THEOREM FeedTypeCorrect == FeedSpec => []FeedTypeOK
BY FeedInvariance, FeedInvImplies, PTL

\* The lines of the two JSON encoders are the same, and the normalized message
\* converts back to the one that was published.
THEOREM SameRecordsHold == FeedSpec => []SameRecords
BY FeedInvariance, FeedInvImplies, PTL

\* At rest the subscriber of each feed holds the present top of a book of each
\* security_id, whenever it attached, whatever else was announced.
THEOREM SubscriberKnowsATopHolds == FeedSpec => []SubscriberKnowsATop
BY FeedInvariance, FeedInvImplies, PTL

=============================================================================
