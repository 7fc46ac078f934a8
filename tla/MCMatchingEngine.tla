-------------------------- MODULE MCMatchingEngine --------------------------
(***************************************************************************)
(* Instances of MatchingEngine for TLC.                                    *)
(***************************************************************************)
EXTENDS MatchingEngine, TLC

CONSTANTS c1, c2, n1, n2, n3

MCClientIds == {c1, c2}
MCClOrdIds == {1, 2}
MCNodeIds == {n1, n2, n3}
NodeSymmetry == Permutations(MCNodeIds)

\* Three identities: two clients share a cl_ord_id, one client has two.
MCKeys == {<<c1, 1>>, <<c1, 2>>, <<c2, 1>>}

New(key, symbol, id, side, qty, price) ==
  [type |-> "new_order_single", client_id |-> key[1], cl_ord_id |-> key[2],
   security_id |-> id, symbol |-> symbol, side |-> side, order_qty |-> qty,
   price |-> price]

Replace(key, orig, symbol, id, side, qty, price) ==
  [type |-> "replace_order", client_id |-> key[1], cl_ord_id |-> key[2],
   orig_cl_ord_id |-> orig, security_id |-> id, symbol |-> symbol,
   side |-> side, order_qty |-> qty, price |-> price]

CancelOf(key) ==
  [type |-> "cancel_order", client_id |-> key[1], cl_ord_id |-> 1,
   orig_cl_ord_id |-> key[2]]

FlushAll == [type |-> "flush"]

\* One book, two prices, quantities up to the top of the width; market orders
\* on both sides; replaces that move, cross, reuse an identity or name a
\* symbol without a book.
OneBookRequests ==
  {New(<<c1, 1>>, "A", 1, side, qty, price) :
     side \in Side, qty \in {1, 2}, price \in {1, 2}}
  \cup {New(<<c1, 2>>, "A", 1, side, 2, price) : side \in Side, price \in {1, 2}}
  \cup {New(<<c2, 1>>, "A", 1, side, 1, price) : side \in Side, price \in {1, 2}}
  \cup {New(<<c1, 2>>, "A", 1, side, 3, 0) : side \in Side}
  \cup {New(<<c2, 1>>, "A", 1, "buy", 0, 1), New(<<c2, 1>>, "X", 1, "buy", 1, 1)}
  \cup {Replace(<<c1, 2>>, 1, "A", 1, side, 3, price) :
          side \in Side, price \in {1, 2}}
  \cup {Replace(<<c1, 1>>, orig, "A", 1, "sell", 1, 1) : orig \in {1, 2}}
  \cup {Replace(<<c1, 1>>, 2, "X", 1, "buy", 1, 1)}
  \cup {CancelOf(key) : key \in MCKeys}
  \cup {FlushAll}

\* Two books that share the index, the pool and the event streams; a replace
\* may move an order from one book to the other and trade there.  Orders rest at
\* two prices of book A, and takers sweep them, in part, in full or not at all;
\* one order has no quantity.
TwoBookRequests ==
  {New(<<c1, 1>>, symbol, id, "buy", 2, 1) : <<symbol, id>> \in {<<"A", 1>>, <<"B", 2>>}}
  \cup {New(<<c1, 2>>, "A", 1, "sell", 1, 1), New(<<c1, 2>>, "A", 1, "buy", 1, 2),
        New(<<c1, 2>>, "B", 2, "buy", 1, 1)}
  \cup {New(<<c2, 1>>, "A", 1, "sell", 3, 0), New(<<c2, 1>>, "B", 2, "sell", 1, 0),
        New(<<c2, 1>>, "B", 2, "sell", 1, 1), New(<<c2, 1>>, "A", 1, "sell", 0, 1)}
  \cup {Replace(<<c1, 2>>, 1, symbol, id, "sell", 2, 1) :
          <<symbol, id>> \in {<<"A", 1>>, <<"B", 2>>}}
  \cup {CancelOf(key) : key \in MCKeys}
  \cup {FlushAll}

=============================================================================
