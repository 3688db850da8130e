------------------------- MODULE SwapMatching_proofs -------------------------
(***************************************************************************)
(* Theorems about SwapMatching, for any number of swaps, any amounts and   *)
(* any slack of the price checks: no order is ever filled beyond its       *)
(* limits, a row is complete exactly when it is filled, and, while orders  *)
(* appear in the order of their stamps and no match is refused, the books  *)
(* of a run agree with the table and no crossing orders are left open but  *)
(* those that a run passed over or whose run was lost.                     *)
(***************************************************************************)
EXTENDS SwapMatching, SequenceTheorems, FiniteSetTheorems, FunctionTheorems,
        TLAPS

-----------------------------------------------------------------------------
(* Rounded-down division.                                                  *)

(* a \div b is the natural number that the definition says.                *)
LEMMA DivBounds ==
  ASSUME NEW a \in Nat, NEW b \in Nat \ {0}
  PROVE  /\ a \div b \in Nat
         /\ b * (a \div b) <= a
         /\ a < b * (a \div b + 1)
  BY SMT

(* A larger quotient comes from a number that is not smaller.              *)
LEMMA DivMono ==
  ASSUME NEW x \in Nat, NEW y \in Nat, NEW p \in Nat \ {0}, NEW g \in Nat \ {0},
         (x * p) \div g > (y * p) \div g
  PROVE  y <= x
<1> SUFFICES ASSUME x < y PROVE FALSE
  BY SMT
<1> DEFINE c == x * p
           d == y * p
           s == c \div g
           t == d \div g
<1>1. c \in Nat /\ d \in Nat /\ c <= d
  BY SMT
<1>2. s \in Nat /\ t \in Nat /\ g * s <= c /\ d < g * (t + 1)
  BY <1>1, DivBounds
<1>3. s > t
  OBVIOUS
<1> HIDE DEF c, d, s, t
<1>4. g * s < g * (t + 1)
  <2>1. g * s \in Nat /\ g * (t + 1) \in Nat
    BY <1>2, SMT
  <2> QED BY <2>1, <1>1, <1>2, SMT
<1> QED BY <1>2, <1>3, <1>4, SMT

(* If x converts to more than y, then y converts back to at most x.        *)
LEMMA DivCross ==
  ASSUME NEW x \in Nat, NEW y \in Nat, NEW p \in Nat \ {0}, NEW g \in Nat \ {0},
         (x * p) \div g > y
  PROVE  (y * g) \div p <= x
<1> DEFINE u == (x * p) \div g
           v == (y * g) \div p
<1>1. x * p \in Nat /\ y * g \in Nat
  BY SMT
<1>2. u \in Nat /\ g * u <= x * p /\ v \in Nat /\ p * v <= y * g
  BY <1>1, DivBounds
<1>3. u > y
  OBVIOUS
<1> HIDE DEF u, v
<1>4. y * g <= g * u
  BY <1>2, <1>3, SMT
<1>5. p * v <= x * p
  BY <1>1, <1>2, <1>4, SMT
<1>6. v <= x
  BY <1>2, <1>5, SMT
<1> QED BY <1>6 DEF v

-----------------------------------------------------------------------------
(* What match_limit_to_limit computes.                                     *)

(* The volume of an order within its limits, case by case.                 *)
LEMMA VolumeOf ==
  ASSUME NEW order \in Order(Tokens, Amounts), NEW fill \in Fill,
         Within(order, fill), NEW p \in Nat \ {0}, NEW g \in Nat \ {0}
  PROVE  LET v == Volume(order, fill, p, g)
             out == order.amount - fill.out
             in == order.amount_swapped - fill.in
         IN /\ v \in [out : Nat, in : Nat]
            /\ order.sell_order => out \in Nat /\ v.out = out
                                   /\ v.in = (out * g) \div p
            /\ ~order.sell_order => in \in Nat /\ v.in = in
                                    /\ v.out = (in * p) \div g
<1> DEFINE out == order.amount - fill.out
           in == order.amount_swapped - fill.in
<1>1. order.amount \in Nat /\ order.amount_swapped \in Nat
      /\ order.sell_order \in BOOLEAN /\ fill.out \in Nat /\ fill.in \in Nat
  BY SwapAssumption DEF Order, Fill
<1>2. CASE order.sell_order
  <2>1. out \in Nat
    BY <1>1 DEF Within
  <2>2. out * g \in Nat
    BY <2>1, SMT
  <2>3. (out * g) \div p \in Nat
    BY <2>2, DivBounds
  <2> QED BY <1>2, <2>1, <2>3 DEF Volume
<1>3. CASE ~order.sell_order
  <2>1. in \in Nat
    BY <1>1, <1>3 DEF Within
  <2>2. in * p \in Nat
    BY <2>1, SMT
  <2>3. (in * p) \div g \in Nat
    BY <2>2, DivBounds
  <2> QED BY <1>3, <2>1, <2>3 DEF Volume
<1> QED BY <1>2, <1>3

(* What is traded fits what a buy order still wants, on either side,       *)
(* although both amounts are rounded: the volume of the left order is cut  *)
(* down when one of its amounts is too large for the right order.          *)
LEMMA TradedFits ==
  ASSUME NEW l \in Order(Tokens, Amounts), NEW fl \in Fill, Within(l, fl),
         NEW r \in Order(Tokens, Amounts), NEW fr \in Fill, Within(r, fr)
  PROVE  LET t == Traded(l, fl, r, fr)
         IN /\ t \in [left : Nat, right : Nat]
            /\ ~l.sell_order => t.right <= l.amount_swapped - fl.in
            /\ ~r.sell_order => t.left <= r.amount_swapped - fr.in
<1> DEFINE p == r.amount_swapped
           g == r.amount
           lv == LeftVolume(l, fl, r)
           rv == RightVolume(r, fr)
           lout == l.amount - fl.out
           lin == l.amount_swapped - fl.in
           rout == r.amount - fr.out
           rin == r.amount_swapped - fr.in
           t == Traded(l, fl, r, fr)
<1>1. p \in Nat \ {0} /\ g \in Nat \ {0}
  BY SwapAssumption DEF Order
<1>2. l.sell_order \in BOOLEAN /\ r.sell_order \in BOOLEAN
  BY DEF Order
<1>3. /\ lv \in [out : Nat, in : Nat]
      /\ l.sell_order => lout \in Nat /\ lv.out = lout
                         /\ lv.in = (lout * g) \div p
      /\ ~l.sell_order => lin \in Nat /\ lv.in = lin
                          /\ lv.out = (lin * p) \div g
  BY <1>1, VolumeOf DEF LeftVolume
<1>4. /\ rv \in [out : Nat, in : Nat]
      /\ r.sell_order => rout \in Nat /\ rv.out = rout
                         /\ rv.in = (rout * p) \div g
      /\ ~r.sell_order => rin \in Nat /\ rv.in = rin
                          /\ rv.out = (rin * g) \div p
  BY <1>1, VolumeOf DEF RightVolume
<1>5. t = IF lv.out > rv.in \/ lv.in > rv.out
            THEN [left |-> rv.in, right |-> rv.out]
            ELSE [left |-> lv.out, right |-> lv.in]
  BY DEF Traded
<1>6. t \in [left : Nat, right : Nat]
  BY <1>3, <1>4, <1>5
<1> HIDE DEF p, g, lv, rv, lout, lin, rout, rin, t
<1>7. ~r.sell_order => t.left <= rin
  BY <1>3, <1>4, <1>5
<1>8. ASSUME ~l.sell_order PROVE t.right <= lin
  <2>1. CASE ~(lv.out > rv.in) /\ ~(lv.in > rv.out)
    BY <1>3, <1>5, <1>8, <2>1
  <2>2. CASE lv.in > rv.out
    BY <1>3, <1>4, <1>5, <1>8, <2>2
  <2>3. CASE lv.out > rv.in /\ r.sell_order
    <3>1. lin \in Nat /\ rout \in Nat /\ (lin * p) \div g > (rout * p) \div g
      BY <1>3, <1>4, <1>8, <2>3
    <3>2. rout <= lin
      BY <1>1, <3>1, DivMono
    <3> QED BY <1>3, <1>4, <1>5, <1>8, <2>3, <3>2
  <2>4. CASE lv.out > rv.in /\ ~r.sell_order
    <3>1. lin \in Nat /\ rin \in Nat /\ (lin * p) \div g > rin
      BY <1>3, <1>4, <1>8, <2>4
    <3>2. (rin * g) \div p <= lin
      BY <1>1, <3>1, DivCross
    <3> QED BY <1>3, <1>4, <1>5, <1>8, <2>4, <3>2
  <2> QED BY <1>2, <2>1, <2>2, <2>3, <2>4
<1> QED BY <1>6, <1>7, <1>8 DEF t, lin, rin

(* An order that accepts a trade which fits it stays within its limits;    *)
(* and one that was fulfilled before is fulfilled after.                   *)
LEMMA FilledStaysWithin ==
  ASSUME NEW order \in Order(Tokens, Amounts), NEW fill \in Fill,
         Within(order, fill), NEW gives \in Nat, NEW takes \in Nat,
         Accepts(order, Filled(fill, gives, takes)),
         ~order.sell_order => takes <= order.amount_swapped - fill.in
  PROVE  /\ Filled(fill, gives, takes) \in Fill
         /\ Within(order, Filled(fill, gives, takes))
         /\ Fulfilled(order, fill)
              => Fulfilled(order, Filled(fill, gives, takes))
<1>1. order.amount \in Nat /\ order.amount_swapped \in Nat
      /\ fill.out \in Nat /\ fill.in \in Nat
  BY SwapAssumption DEF Order, Fill
<1>2. Filled(fill, gives, takes)
        = [out |-> fill.out + gives, in |-> fill.in + takes]
  BY DEF Filled
<1>3. fill.out + gives <= order.amount
  BY <1>2 DEF Accepts
<1> QED BY <1>1, <1>2, <1>3 DEF Within, Fulfilled, Fill

(* If no amount is below the slack, the price check leaves no room for an  *)
(* order to give all it has and get less than it asked for.                *)
LEMMA AcceptedIsAsserted ==
  ASSUME NEW order \in Order(Tokens, Amounts), order.amount >= Slack,
         NEW fill \in Fill, Within(order, fill), Accepts(order, fill)
  PROVE  AssertionsHold(order, fill)
<1> DEFINE a == order.amount
           b == order.amount_swapped
           u == (fill.in * a) \div Slack
           v == (b * fill.out) \div Slack
<1>1. /\ a \in Nat /\ b \in Nat /\ a >= Slack /\ Slack \in Nat \ {0}
      /\ fill.out \in Nat /\ fill.in \in Nat
      /\ order.sell_order \in BOOLEAN
  BY SwapAssumption, SlackAssumption DEF Order, Fill
<1>2. fill.in * a \in Nat /\ b * fill.out \in Nat
  BY <1>1, SMT
<1>3. /\ u \in Nat /\ v \in Nat
      /\ Slack * u <= fill.in * a
      /\ b * fill.out < Slack * (v + 1)
  BY <1>1, <1>2, DivBounds
<1>4. u >= v
  BY DEF Accepts
<1> HIDE DEF u, v
<1>5. ASSUME fill.out = a, fill.in < b PROVE FALSE
  <2>1. Slack * (v + 1) <= Slack * u + Slack
    BY <1>1, <1>3, <1>4, SMT
  <2>2. fill.in * a + a <= b * a
    BY <1>1, <1>5, SMT
  <2>3. Slack * u \in Nat /\ Slack * (v + 1) \in Nat /\ b * a \in Nat
    BY <1>1, <1>3, SMT
  <2>4. b * a < Slack * (v + 1)
    BY <1>3, <1>5
  <2> HIDE DEF a, b
  <2> QED BY <1>1, <1>2, <1>3, <2>1, <2>2, <2>3, <2>4, SMT DEF a
<1>6. fill.out = a => fill.in >= b
  BY <1>1, <1>5
<1> QED BY <1>6 DEF AssertionsHold, Within

-----------------------------------------------------------------------------
(* The order books.                                                        *)

(* The opposite side of an order is the other token of the pair.           *)
LEMMA OtherSide ==
  ASSUME TypeOK, NEW n \in Placed
  PROVE  /\ orders[n].pays \in Tokens
         /\ OppositeSide(n) \in Tokens
         /\ OppositeSide(n) # orders[n].pays
         /\ \A t \in Tokens : t # orders[n].pays => t = OppositeSide(n)
<1>1. orders[n].pays \in Tokens
  BY DEF TypeOK, Order
<1>2. PICK t \in Tokens, u \in Tokens : t # u /\ Tokens = {t, u}
  BY SwapAssumption
<1>3. \E v \in Tokens : v # orders[n].pays
  BY <1>1, <1>2
<1>4. OppositeSide(n) \in Tokens /\ OppositeSide(n) # orders[n].pays
  BY <1>3 DEF OppositeSide, OtherToken
<1> QED BY <1>1, <1>2, <1>4

(* The swaps of a sequence are among the swaps of the system.              *)
LEMMA PlacedAreSwaps ==
  ASSUME ids \in Seq(Swaps)
  PROVE  /\ Placed \subseteq Swaps
         /\ IsFiniteSet(Swaps)
<1>1. Placed \subseteq Swaps
  BY DEF Placed, ToSet
<1>2. IsFiniteSet(1 .. NumSwaps)
  BY FS_Interval, SwapAssumption
<1> QED BY <1>1, <1>2 DEF Swaps

(* Every book a swap may be matched with holds orders of the other side.   *)
LEMMA BookEntries ==
  ASSUME FillInv, run.at # "idle", NEW n \in Placed,
         NEW book \in OppositeBooks(n)
  PROVE  book \in Seq(Entries(OppositeSide(n)))
<1> DEFINE t == OppositeSide(n)
           S == OppositeSwaps(n)
<1>1. t \in Tokens /\ \A u \in Tokens : u # orders[n].pays => u = t
  BY OtherSide DEF FillInv
<1>2. CASE run.books[t] # NoBook
  BY <1>1, <1>2 DEF OppositeBooks, FillInv, RunSound
<1>3. CASE run.books[t] = NoBook
  <2>1. PICK q \in Sorted(S) :
               book = [i \in DOMAIN q |-> [swap |-> q[i], object |-> "row"]]
    BY <1>3 DEF OppositeBooks
  <2>2. q \in [1 .. Cardinality(S) -> S]
    BY <2>1 DEF Sorted, SetToSeqs
  <2>3. IsFiniteSet(S) /\ S \subseteq Placed
    BY PlacedAreSwaps, FS_Subset DEF FillInv, OppositeSwaps
  <2>4. Cardinality(S) \in Nat
    BY <2>3, FS_CardinalityType
  <2>5. \A m \in S : [swap |-> m, object |-> "row"] \in Entries(t)
    <3> TAKE m \in S
    <3>1. m \in Placed /\ m \in Swaps
      BY <2>3, PlacedAreSwaps DEF FillInv
    <3>2. orders[m].pays # orders[n].pays
      BY DEF OppositeSwaps
    <3>3. orders[m].pays \in Tokens
      BY <3>1, OtherSide DEF FillInv
    <3> QED BY <1>1, <3>1, <3>2, <3>3 DEF Entries, Objects
  <2>6. book \in [1 .. Cardinality(S) -> Entries(t)]
    BY <2>1, <2>2, <2>5
  <2> QED BY <2>4, <2>6
<1> QED BY <1>2, <1>3

(* What is left of a book behind its head.                                 *)
LEMMA RestOfBook ==
  ASSUME NEW S, NEW book \in Seq(S), NEW k \in Nat
  PROVE  SubSeq(book, k + 1, Len(book)) \in Seq(S)
<1>1. Len(book) \in Nat /\ \A i \in (k + 1) .. Len(book) : book[i] \in S
  BY ElementOfSeq, LenProperties
<1> QED BY <1>1, SubSeqProperties

(* A swap joins the book of its own side.                                  *)
LEMMA JoinedBook ==
  ASSUME NEW S, NEW book \in Seq(S), NEW object \in S
  PROVE  AddTo(book, object) \in Seq(S)
<1> DEFINE A == {i \in DOMAIN book : ~Better(object.swap, book[i].swap)}
           k == Cardinality(A)
<1>1. Len(book) \in Nat /\ DOMAIN book = 1 .. Len(book)
  BY LenProperties
<1>2. IsFiniteSet(1 .. Len(book)) /\ Cardinality(1 .. Len(book)) = Len(book)
  BY SMTT(60), <1>1, FS_Interval
<1>3. k \in Nat /\ k <= Len(book)
  <2>1. A \in SUBSET (1 .. Len(book))
    BY <1>1
  <2> HIDE DEF A
  <2> QED BY <1>2, <2>1, FS_Subset, FS_CardinalityType
<1>4. AddTo(book, object) = InsertAt(book, k + 1, object)
  BY DEF AddTo
<1> HIDE DEF k
<1>5. SubSeq(book, 1, k) \in Seq(S)
  <2>1. \A i \in 1 .. k : book[i] \in S
    BY <1>1, <1>3, ElementOfSeq
  <2> QED BY <1>3, <2>1, SubSeqProperties
<1>6. SubSeq(book, k + 1, Len(book)) \in Seq(S)
  BY <1>3, RestOfBook
<1>7. << object >> \in Seq(S)
  OBVIOUS
<1>8. (k + 1) - 1 = k
  BY <1>3
<1>9. SubSeq(book, 1, k) \o << object >> \in Seq(S)
  BY <1>5, <1>7, ConcatProperties
<1>10. (SubSeq(book, 1, k) \o << object >>)
         \o SubSeq(book, k + 1, Len(book)) \in Seq(S)
  BY <1>6, <1>9, ConcatProperties
<1> QED BY <1>4, <1>8, <1>10 DEF InsertAt

-----------------------------------------------------------------------------
(* A match.                                                                *)

(* The two orders that are compared are two different ones.                *)
LEMMA TheTwoDiffer ==
  ASSUME FillInv, Looking
  PROVE  /\ Swap \in Placed /\ Opposite \in Placed
         /\ Swap \in Swaps /\ Opposite \in Swaps
         /\ run.book[run.next] \in Objects
         /\ Swap # Opposite
<1>1. run.at = "matching" /\ run.next <= Len(run.book)
  BY DEF Looking
<1>2. Swap \in Placed /\ run.book \in Seq(Entries(OppositeSide(Swap)))
  BY <1>1 DEF FillInv, RunSound, Swap
<1>3. run.next \in 1 .. Len(run.book)
  <2>1. run.next \in Nat \ {0}
    BY DEF FillInv, RunSound, Runs
  <2> QED BY <1>1, <1>2, <2>1, LenProperties
<1>4. run.book[run.next] \in Entries(OppositeSide(Swap))
  BY <1>2, <1>3, ElementOfSeq
<1>5. OppositeSide(Swap) # orders[Swap].pays
  BY <1>2, OtherSide DEF FillInv
<1> QED BY <1>2, <1>4, <1>5, PlacedAreSwaps DEF Entries, Opposite, FillInv

(* An accepted match leaves both orders within their limits, and the two   *)
(* are complete afterwards exactly when they are fulfilled.                *)
LEMMA MatchIsSound ==
  ASSUME FillInv, Matching, Accepted
  PROVE  /\ NewFilled \in [Swaps -> Fill]
         /\ Sound(NewFilled, complete \cup Done)
<1> DEFINE l == orders[Swap]
           r == orders[Opposite]
           fl == filled[Swap]
           fr == filled[Opposite]
           t == Traded(l, fl, r, fr)
           nl == Filled(fl, t.left, t.right)
           nr == Filled(fr, t.right, t.left)
<1>1. Looking
  BY DEF Matching
<1>2. /\ Swap \in Placed /\ Opposite \in Placed
      /\ Swap \in Swaps /\ Opposite \in Swaps
      /\ Swap # Opposite
  BY <1>1, TheTwoDiffer
<1>3. filled \in [Swaps -> Fill] /\ Placed \subseteq Swaps
  BY PlacedAreSwaps DEF FillInv, TypeOK, Fill
<1>4. /\ l \in Order(Tokens, Amounts) /\ r \in Order(Tokens, Amounts)
      /\ fl \in Fill /\ fr \in Fill
      /\ Within(l, fl) /\ Within(r, fr)
  BY <1>2, <1>3 DEF FillInv, TypeOK, Sound
<1>5. NewFilled = [filled EXCEPT ![Swap] = nl, ![Opposite] = nr]
  BY <1>2, <1>3 DEF NewFilled
<1>6. NewFilled[Swap] = nl /\ NewFilled[Opposite] = nr
      /\ \A n \in Swaps \ {Swap, Opposite} : NewFilled[n] = filled[n]
  BY <1>2, <1>3, <1>5
<1>7. Accepts(l, nl) /\ Accepts(r, nr)
  BY <1>6 DEF Accepted, Pair
<1>8. /\ t \in [left : Nat, right : Nat]
      /\ ~l.sell_order => t.right <= l.amount_swapped - fl.in
      /\ ~r.sell_order => t.left <= r.amount_swapped - fr.in
  BY <1>4, TradedFits
<1> HIDE DEF t
<1>9. nl \in Fill /\ Within(l, nl) /\ (Fulfilled(l, fl) => Fulfilled(l, nl))
  BY <1>4, <1>7, <1>8, FilledStaysWithin
<1>10. nr \in Fill /\ Within(r, nr) /\ (Fulfilled(r, fr) => Fulfilled(r, nr))
  BY <1>4, <1>7, <1>8, FilledStaysWithin
<1>11. NewFilled \in [Swaps -> Fill]
  BY <1>3, <1>5, <1>9, <1>10
<1>12. Sound(filled, complete)
  BY DEF FillInv
<1>13. Done \subseteq {Swap, Opposite}
       /\ (Swap \in Done <=> Fulfilled(l, nl))
       /\ (Opposite \in Done <=> Fulfilled(r, nr))
  BY <1>6 DEF Done, Pair
<1> HIDE DEF nl, nr, l, r, fl, fr
<1>14. ASSUME NEW n \in Placed
       PROVE  /\ Within(orders[n], NewFilled[n])
              /\ n \in complete \cup Done
                   <=> Fulfilled(orders[n], NewFilled[n])
  <2>1. n \in complete <=> Fulfilled(orders[n], filled[n])
    BY <1>12 DEF Sound
  <2>2. CASE n = Swap
    BY <1>6, <1>9, <1>13, <2>1, <2>2 DEF l, fl
  <2>3. CASE n = Opposite
    BY <1>6, <1>10, <1>13, <2>1, <2>3 DEF r, fr
  <2>4. CASE n \notin {Swap, Opposite}
    <3>1. NewFilled[n] = filled[n] /\ Within(orders[n], filled[n])
      BY <1>3, <1>6, <1>12, <2>4 DEF Sound
    <3> QED BY <1>13, <2>1, <2>4, <3>1
  <2> QED BY <2>2, <2>3, <2>4
<1>15. \A n \in Swaps \ Placed : NewFilled[n] = Nothing
  BY <1>2, <1>6, <1>12 DEF Sound
<1>16. complete \cup Done \subseteq Placed
  BY <1>2, <1>12, <1>13 DEF Sound
<1> QED BY <1>11, <1>14, <1>15, <1>16 DEF Sound

-----------------------------------------------------------------------------
(* The steps.                                                              *)

(* No run is sound.                                                        *)
LEMMA NoRunIsARun == NoRun \in Runs
<1>1. << >> \in Seq(Objects) /\ 0 \in 0 .. NumSwaps + 1
  BY SwapAssumption
<1> QED BY <1>1 DEF NoRun, Runs

LEMMA InitIsSound == Init => FillInv
<1> SUFFICES ASSUME Init PROVE FillInv
  OBVIOUS
<1>1. Placed = {}
  BY DEF Init, Placed, ToSet
<1>2. ids \in Seq(Swaps) /\ filled \in [Swaps -> [out : Nat, in : Nat]]
  BY DEF Init, Nothing
<1>3. orders \in [Placed -> Order(Tokens, Amounts)]
  BY <1>1 DEF Init
<1>4. TypeOK
  <2>1. last_unprocessed_swap_time \in 1 .. NumSwaps + 1
    BY SwapAssumption DEF Init
  <2> QED BY <1>2, <1>3, <2>1 DEF TypeOK, Init, NoRun
<1>5. Sound(filled, complete)
  BY <1>1 DEF Init, Sound
<1>6. RunSound
  BY NoRunIsARun DEF Init, RunSound, NoRun
<1> QED BY <1>2, <1>4, <1>5, <1>6 DEF FillInv

(* A new swap has no matches yet, and asks for more than nothing.          *)
LEMMA CreateSwapIsSound ==
  ASSUME FillInv, NEW n \in Swaps, CreateSwap(n)
  PROVE  FillInv'
<1>1. PICK order \in Order(Tokens, Amounts) :
        /\ run.at = "idle"
        /\ n \notin Placed
        /\ orders' = [m \in Placed \cup {n} |-> IF m = n THEN order ELSE orders[m]]
        /\ ids' = Append(ids, n)
        /\ skipped' = skipped \cup {m \in {n} : m < last_unprocessed_swap_time}
        /\ UNCHANGED << result, told, run, refused, lost >>
  BY DEF CreateSwap
<1>2. ids' \in Seq(Swaps) /\ Placed' = Placed \cup {n}
  <2>1. ids \in Seq(Swaps)
    BY DEF FillInv
  <2>2. /\ Append(ids, n) \in Seq(Swaps)
        /\ Len(Append(ids, n)) = Len(ids) + 1
        /\ \A i \in 1 .. Len(ids) : Append(ids, n)[i] = ids[i]
        /\ Append(ids, n)[Len(ids) + 1] = n
    BY <2>1, AppendProperties
  <2>3. /\ Len(ids) \in Nat
        /\ DOMAIN ids = 1 .. Len(ids)
        /\ DOMAIN Append(ids, n) = 1 .. (Len(ids) + 1)
    BY <2>1, <2>2, LenProperties
  <2>4. Placed' = {Append(ids, n)[i] : i \in DOMAIN Append(ids, n)}
    BY <1>1 DEF Placed, ToSet
  <2>5. Placed = {ids[i] : i \in DOMAIN ids}
    BY DEF Placed, ToSet
  <2> HIDE DEF Placed
  <2>6. \A m \in Placed' : m \in Placed \cup {n}
    BY <2>2, <2>3, <2>4, <2>5
  <2>7. \A m \in Placed \cup {n} : m \in Placed'
    BY <2>2, <2>3, <2>4, <2>5
  <2> QED BY <1>1, <2>2, <2>6, <2>7
<1>3. /\ filled' = filled /\ complete' = complete /\ matches' = matches
      /\ notified' = notified /\ run' = run
      /\ last_unprocessed_swap_time' = last_unprocessed_swap_time
  BY <1>1 DEF result, told
<1>4. orders' \in [Placed' -> Order(Tokens, Amounts)]
  BY <1>1, <1>2 DEF FillInv, TypeOK
<1>5. TypeOK'
  <2>1. skipped' \subseteq Placed' /\ lost' \subseteq Placed'
    BY <1>1, <1>2 DEF FillInv, TypeOK
  <2> QED BY <1>2, <1>3, <1>4, <2>1 DEF FillInv, TypeOK
<1>6. Sound(filled, complete)'
  <2>1. Sound(filled, complete)
    BY DEF FillInv
  <2>2. filled[n] = Nothing /\ n \notin complete
    BY <1>1, <2>1 DEF Sound
  <2>3. orders'[n] = order
    BY <1>1
  <2>4. Within(order, Nothing) /\ ~Fulfilled(order, Nothing)
    <3>1. order.amount \in Nat \ {0} /\ order.amount_swapped \in Nat \ {0}
      BY SwapAssumption DEF Order
    <3>2. Nothing.out = 0 /\ Nothing.in = 0
      BY DEF Nothing
    <3> QED BY <3>1, <3>2 DEF Within, Fulfilled
  <2>5. ASSUME NEW m \in Placed'
        PROVE  /\ Within(orders'[m], filled[m])
               /\ m \in complete <=> Fulfilled(orders'[m], filled[m])
    <3>1. CASE m = n
      BY <2>2, <2>3, <2>4, <3>1
    <3>2. CASE m # n
      <4>1. m \in Placed /\ orders'[m] = orders[m]
        BY <1>1, <1>2, <3>2
      <4> QED BY <2>1, <4>1 DEF Sound
    <3> QED BY <3>1, <3>2
  <2>6. \A m \in Swaps \ Placed' : filled[m] = Nothing
    BY <1>2, <2>1 DEF Sound
  <2>7. complete \subseteq Placed'
    BY <1>2, <2>1 DEF Sound
  <2> QED BY <1>3, <2>5, <2>6, <2>7 DEF Sound
<1>7. RunSound'
  <2>1. run = NoRun
    BY <1>1 DEF FillInv, RunSound
  <2> QED BY <1>3, <2>1, NoRunIsARun DEF RunSound, NoRun
<1> QED BY <1>2, <1>5, <1>6, <1>7 DEF FillInv

(* A step of a run that changes no table: only the run has to be looked    *)
(* at.                                                                     *)
LEMMA TablesStay ==
  ASSUME FillInv, UNCHANGED << table, result, told, unseen >>, RunSound'
  PROVE  FillInv'
<1>1. /\ orders' = orders /\ ids' = ids /\ filled' = filled
      /\ complete' = complete /\ matches' = matches /\ notified' = notified
      /\ last_unprocessed_swap_time' = last_unprocessed_swap_time
      /\ skipped' = skipped /\ lost' = lost
  BY DEF table, result, told, unseen
<1>2. Placed' = Placed
  BY <1>1 DEF Placed
<1>3. run'.at \in {"idle", "swaps", "matching"}
  BY DEF RunSound, Runs
<1>4. TypeOK'
  BY <1>1, <1>2, <1>3 DEF FillInv, TypeOK
<1>5. Sound(filled, complete)'
  BY <1>1, <1>2 DEF FillInv, Sound
<1> QED BY <1>1, <1>4, <1>5 DEF FillInv

(* What RunSound asks of the next state, in terms of the tables of this    *)
(* one.                                                                    *)
LEMMA RunSoundNext ==
  ASSUME FillInv, UNCHANGED table, run' \in Runs,
         run'.at # "idle",
         run'.last # 0,
         run'.todo \subseteq Placed,
         run'.saved \in Results,
         Sound(run'.saved.filled, run'.saved.complete),
         \A t \in Tokens :
           run'.books[t] # NoBook => run'.books[t] \in Seq(Entries(t)),
         run'.at = "matching" =>
           /\ run'.swap \in Placed
           /\ run'.book \in Seq(Entries(OppositeSide(run'.swap)))
           /\ run'.next <= Len(run'.book) + 1
           /\ run'.matched_successfully => run'.next >= 2
  PROVE  RunSound'
<1>1. orders' = orders /\ ids' = ids
  BY DEF table
<1>2. Placed' = Placed
  BY <1>1 DEF Placed
<1>3. \A t : Entries(t)' = Entries(t)
  BY <1>1, <1>2 DEF Entries
<1>4. OppositeSide(run.swap)' = OppositeSide(run'.swap)
  BY <1>1 DEF OppositeSide
<1>5. Sound(run.saved.filled, run.saved.complete)'
  BY <1>1, <1>2 DEF Sound
<1>6. \A t \in Tokens :
        run'.books[t] # NoBook => run'.books[t] \in Seq(Entries(t)')
  BY <1>3
<1>7. run'.at = "matching" =>
        run'.book \in Seq(Entries(OppositeSide(run.swap)'))
  BY <1>3, <1>4
<1> QED BY <1>1, <1>2, <1>5, <1>6, <1>7 DEF RunSound, Entries, OppositeSide

LEMMA StartRunIsSound ==
  ASSUME FillInv, StartRun
  PROVE  FillInv'
<1> DEFINE saved == [filled |-> filled, complete |-> complete,
                     matches |-> matches]
<1>1. /\ run' = [NoRun EXCEPT !.at = "swaps", !.todo = Unprocessed,
                              !.last = last_unprocessed_swap_time,
                              !.past = last_unprocessed_swap_time,
                              !.saved = saved]
      /\ UNCHANGED << table, result, told, unseen >>
  BY DEF StartRun
<1>2. Unprocessed \subseteq Placed /\ Placed \subseteq Swaps
  BY PlacedAreSwaps DEF Unprocessed, FillInv
<1>3. saved \in Results
  BY <1>2 DEF FillInv, TypeOK, Results, Fill
<1>4. Sound(saved.filled, saved.complete)
  BY DEF FillInv
<1>5. last_unprocessed_swap_time \in 1 .. NumSwaps + 1
  BY DEF FillInv, TypeOK
<1>6. last_unprocessed_swap_time # 0
      /\ last_unprocessed_swap_time \in 0 .. NumSwaps + 1
  BY <1>5, SwapAssumption
<1> HIDE DEF saved
<1>7. /\ run'.at = "swaps" /\ run'.todo = Unprocessed /\ run'.saved = saved
      /\ run'.last = last_unprocessed_swap_time
      /\ run'.books = [t \in Tokens |-> NoBook]
  BY <1>1 DEF NoRun
<1>8. run' \in Runs
  BY <1>1, <1>2, <1>3, <1>6, NoRunIsARun DEF Runs
<1>9. RunSound'
  BY <1>1, <1>2, <1>3, <1>4, <1>6, <1>7, <1>8, RunSoundNext
<1> QED BY <1>1, <1>9, TablesStay

LEMMA TakeSwapIsSound ==
  ASSUME FillInv, NEW n \in Swaps, TakeSwap(n)
  PROVE  FillInv'
<1>1. PICK book \in OppositeBooks(n) :
        /\ run' = [run EXCEPT !.at = "matching", !.swap = n,
                              !.todo = @ \ {n}, !.book = book, !.next = 1,
                              !.opposite_orders_consumed = 0,
                              !.matched_successfully = FALSE]
        /\ UNCHANGED << table, result, told, unseen >>
  BY DEF TakeSwap
<1>2. run.at = "swaps" /\ n \in run.todo
  BY DEF TakeSwap, Oldest
<1>3. n \in Placed
  BY <1>2 DEF FillInv, RunSound
<1>4. book \in Seq(Entries(OppositeSide(n)))
  BY <1>2, <1>3, BookEntries
<1>5. book \in Seq(Objects)
  BY <1>4, SeqMonotonic DEF Entries
<1>6. run \in Runs
  BY DEF FillInv, RunSound
<1>7. run' \in Runs
  <2>1. run.todo \ {n} \in SUBSET Swaps
    BY <1>6 DEF Runs
  <2> DEFINE r1 == [run EXCEPT !.at = "matching", !.swap = n]
             r2 == [r1 EXCEPT !.todo = run.todo \ {n}, !.book = book]
             r3 == [r2 EXCEPT !.next = 1]
             r4 == [r3 EXCEPT !.opposite_orders_consumed = 0,
                              !.matched_successfully = FALSE]
  <2>2. r1 \in Runs
    BY <1>6 DEF Runs
  <2>3. r2 \in Runs
    BY <1>5, <2>1, <2>2 DEF Runs
  <2> HIDE DEF r2
  <2>4. r3 \in Runs
    BY SMTT(60), <2>3 DEF Runs
  <2> HIDE DEF r3
  <2>5. r4 \in Runs
    BY <2>4 DEF Runs
  <2>6. run' = r4
    BY <1>1, <1>6 DEF Runs, r3, r2
  <2> QED BY <2>5, <2>6
<1>8. /\ run'.at = "matching" /\ run'.swap = n /\ run'.book = book
      /\ run'.next = 1 /\ run'.matched_successfully = FALSE
      /\ run'.todo = run.todo \ {n} /\ run'.books = run.books
      /\ run'.last = run.last /\ run'.saved = run.saved
  BY <1>1, <1>6 DEF Runs
<1>9. Len(book) \in Nat
  BY <1>4, LenProperties
<1>10. RunSound'
  <2>1. /\ run.last # 0 /\ run.todo \subseteq Placed
        /\ run.saved \in Results
        /\ Sound(run.saved.filled, run.saved.complete)
        /\ \A t \in Tokens :
             run.books[t] # NoBook => run.books[t] \in Seq(Entries(t))
    BY <1>2 DEF FillInv, RunSound
  <2> QED BY <1>1, <1>3, <1>4, <1>7, <1>8, <1>9, <2>1, RunSoundNext
<1> QED BY <1>1, <1>10, TablesStay

(* What is restored was sound, and still is.                               *)
LEMMA RestoreIsSound ==
  ASSUME FillInv, run.at # "idle", Restore, UNCHANGED << table, notified, skipped >>,
         last_unprocessed_swap_time' \in 1 .. NumSwaps + 1,
         lost' \subseteq Placed
  PROVE  FillInv'
<1>1. /\ filled' = run.saved.filled /\ complete' = run.saved.complete
      /\ matches' = run.saved.matches /\ run' = NoRun
      /\ orders' = orders /\ ids' = ids /\ notified' = notified
      /\ skipped' = skipped
  BY DEF Restore, table
<1>2. Placed' = Placed
  BY <1>1 DEF Placed
<1>3. run.saved \in Results /\ Sound(run.saved.filled, run.saved.complete)
  BY DEF FillInv, RunSound
<1>4. /\ filled' \in [Swaps -> [out : Nat, in : Nat]]
      /\ matches' \subseteq Swaps \X Swaps
      /\ complete' \subseteq Placed'
  BY <1>1, <1>2, <1>3 DEF Results, Fill, Sound
<1>5. TypeOK'
  <2>1. run'.at = "idle"
    BY <1>1 DEF NoRun
  <2> QED BY <1>1, <1>2, <1>4, <2>1 DEF FillInv, TypeOK
<1>6. Sound(filled, complete)'
  BY <1>1, <1>2, <1>3 DEF Sound
<1>7. RunSound'
  BY <1>1, NoRunIsARun DEF RunSound, NoRun
<1> QED BY <1>1, <1>5, <1>6, <1>7 DEF FillInv

LEMMA RollbackIsSound ==
  ASSUME FillInv, run.at # "idle", Rollback
  PROVE  FillInv'
<1>1. /\ Restore /\ UNCHANGED << table, notified, skipped >>
      /\ last_unprocessed_swap_time' = last_unprocessed_swap_time
      /\ lost' = lost
  BY DEF Rollback, told, unseen
<1>2. last_unprocessed_swap_time \in 1 .. NumSwaps + 1 /\ lost \subseteq Placed
  BY DEF FillInv, TypeOK
<1> QED BY <1>1, <1>2, RestoreIsSound

(* The loop goes on with the next entry of the book.                       *)
LEMMA NextEntryIsSound ==
  ASSUME FillInv, Looking, UNCHANGED table,
         NEW consumed \in Nat, NEW matched \in BOOLEAN,
         NEW closed \in SUBSET Objects,
         run' = [run EXCEPT !.next = @ + 1,
                            !.opposite_orders_consumed = consumed,
                            !.matched_successfully = matched,
                            !.fulfilled = closed]
  PROVE  RunSound'
<1>1. run \in Runs /\ run.at = "matching" /\ run.next <= Len(run.book)
  BY DEF FillInv, RunSound, Looking
<1>2. run.next \in Nat \ {0} /\ run.next + 1 \in Nat \ {0}
  BY <1>1 DEF Runs
<1>3. run' \in Runs
  <2> DEFINE r1 == [run EXCEPT !.next = run.next + 1]
             r2 == [r1 EXCEPT !.opposite_orders_consumed = consumed]
             r3 == [r2 EXCEPT !.matched_successfully = matched,
                              !.fulfilled = closed]
  <2>1. r1 \in Runs
    BY <1>1, <1>2 DEF Runs
  <2> HIDE DEF r1
  <2>2. r2 \in Runs
    BY <2>1 DEF Runs
  <2> HIDE DEF r2
  <2>3. r3 \in Runs
    BY <2>2 DEF Runs
  <2>4. run' = r3
    BY <1>1 DEF Runs, r1, r2
  <2> QED BY <2>3, <2>4
<1>4. /\ run'.at = "matching" /\ run'.swap = run.swap /\ run'.book = run.book
      /\ run'.next = run.next + 1
      /\ run'.todo = run.todo /\ run'.books = run.books
      /\ run'.last = run.last /\ run'.saved = run.saved
  BY <1>1 DEF Runs
<1>5. /\ run.last # 0 /\ run.todo \subseteq Placed /\ run.saved \in Results
      /\ Sound(run.saved.filled, run.saved.complete)
      /\ \A t \in Tokens :
           run.books[t] # NoBook => run.books[t] \in Seq(Entries(t))
      /\ run.swap \in Placed
      /\ run.book \in Seq(Entries(OppositeSide(run.swap)))
  BY <1>1 DEF FillInv, RunSound
<1>6. Len(run.book) \in Nat
  BY <1>5, LenProperties
<1> QED BY <1>1, <1>2, <1>3, <1>4, <1>5, <1>6, RunSoundNext

LEMMA SkipFulfilledIsSound ==
  ASSUME FillInv, SkipFulfilled
  PROVE  FillInv'
<1>1. Looking /\ UNCHANGED << table, result, told, unseen >>
  BY DEF SkipFulfilled
<1>2. run \in Runs
  BY DEF FillInv, RunSound
<1>3. /\ run.opposite_orders_consumed + 1 \in Nat
      /\ run.matched_successfully \in BOOLEAN
      /\ run.fulfilled \in SUBSET Objects
  BY <1>2 DEF Runs
<1>4. run' = [run EXCEPT
               !.next = @ + 1,
               !.opposite_orders_consumed = run.opposite_orders_consumed + 1,
               !.matched_successfully = run.matched_successfully,
               !.fulfilled = run.fulfilled]
  BY <1>2 DEF SkipFulfilled, Runs
<1>5. RunSound'
  BY <1>1, <1>3, <1>4, NextEntryIsSound
<1> QED BY <1>1, <1>5, TablesStay

LEMMA RefuseMatchIsSound ==
  ASSUME FillInv, RefuseMatch
  PROVE  FillInv'
<1>1. Looking /\ UNCHANGED << table, result, told, unseen >>
  BY DEF RefuseMatch, Matching
<1>2. run \in Runs
  BY DEF FillInv, RunSound
<1>3. /\ run.opposite_orders_consumed \in Nat
      /\ run.fulfilled \in SUBSET Objects
  BY <1>2 DEF Runs
<1>4. run' = [run EXCEPT
               !.next = @ + 1,
               !.opposite_orders_consumed = run.opposite_orders_consumed,
               !.matched_successfully = FALSE,
               !.fulfilled = run.fulfilled]
  BY <1>2 DEF RefuseMatch, Runs
<1>5. RunSound'
  BY <1>1, <1>3, <1>4, NextEntryIsSound
<1> QED BY <1>1, <1>5, TablesStay

LEMMA MatchOrdersIsSound ==
  ASSUME FillInv, MatchOrders
  PROVE  FillInv'
<1> DEFINE consumed == IF Opposite \in Done
                         THEN run.opposite_orders_consumed + 1
                         ELSE run.opposite_orders_consumed
           closed == run.fulfilled \cup
                       {object \in {SwapObject, run.book[run.next]} :
                          object.swap \in Done}
<1>1. /\ Looking /\ Matching /\ Accepted
      /\ filled' = NewFilled /\ complete' = complete \cup Done
      /\ matches' = matches \cup {<< Swap, Opposite >>}
      /\ run' = [run EXCEPT !.next = @ + 1,
                            !.matched_successfully = TRUE,
                            !.opposite_orders_consumed =
                               IF Opposite \in Done THEN @ + 1 ELSE @,
                            !.fulfilled = @ \cup
                               {object \in {SwapObject, run.book[run.next]} :
                                  object.swap \in Done}]
      /\ UNCHANGED << table, told, unseen >>
  BY DEF MatchOrders, Matching
<1>2. run \in Runs
  BY DEF FillInv, RunSound
<1>3. /\ Swap \in Placed /\ Opposite \in Placed
      /\ Swap \in Swaps /\ Opposite \in Swaps
      /\ run.book[run.next] \in Objects
  BY <1>1, TheTwoDiffer
<1>4. consumed \in Nat
  BY <1>2 DEF Runs
<1>5. closed \in SUBSET Objects
  <2>1. SwapObject \in Objects
    BY <1>3 DEF SwapObject, Objects
  <2> QED BY <1>2, <1>3, <2>1 DEF Runs
<1>6. run' = [run EXCEPT !.next = @ + 1,
                         !.opposite_orders_consumed = consumed,
                         !.matched_successfully = TRUE,
                         !.fulfilled = closed]
  BY <1>1, <1>2 DEF Runs
<1> HIDE DEF consumed, closed
<1>7. RunSound'
  BY <1>1, <1>4, <1>5, <1>6, NextEntryIsSound
<1>8. /\ orders' = orders /\ ids' = ids /\ notified' = notified
      /\ last_unprocessed_swap_time' = last_unprocessed_swap_time
      /\ skipped' = skipped /\ lost' = lost
  BY <1>1 DEF table, told, unseen
<1>9. Placed' = Placed
  BY <1>8 DEF Placed
<1>10. NewFilled \in [Swaps -> Fill] /\ Sound(NewFilled, complete \cup Done)
  BY <1>1, MatchIsSound
<1>11. Sound(filled, complete)'
  BY <1>1, <1>8, <1>9, <1>10 DEF Sound
<1>12. TypeOK'
  <2>1. complete' \subseteq Placed'
    BY <1>11 DEF Sound
  <2>2. filled' \in [Swaps -> [out : Nat, in : Nat]]
    BY <1>1, <1>10 DEF Fill
  <2>3. matches' \subseteq Swaps \X Swaps
    BY <1>1, <1>3 DEF FillInv, TypeOK
  <2>4. run'.at \in {"idle", "swaps", "matching"}
    BY <1>7 DEF RunSound, Runs
  <2> QED BY <1>8, <1>9, <2>1, <2>2, <2>3, <2>4 DEF FillInv, TypeOK
<1> QED BY <1>7, <1>8, <1>11, <1>12 DEF FillInv

(* The book is cut, the swap joins the book of its own side, and the last  *)
(* entry looked at is an entry of the book.                                *)
LEMMA EndSwapIsSound ==
  ASSUME FillInv, EndSwap
  PROVE  FillInv'
<1> DEFINE own == orders[Swap].pays
           other == OppositeSide(Swap)
           rest == SubSeq(run.book, run.opposite_orders_consumed + 1,
                          Len(run.book))
           joins == SwapObject \notin run.fulfilled /\ run.books[own] # NoBook
           last_seen ==
             IF SwapObject \notin run.fulfilled /\ run.next <= Len(run.book)
               THEN run.next ELSE run.next - 1
           books == [run.books EXCEPT
                       ![other] = rest,
                       ![own] = IF joins THEN AddTo(run.books[own], SwapObject)
                                ELSE run.books[own]]
           queue == IF run.matched_successfully
                      THEN run.notification_queue
                             \cup {<< Swap, run.book[last_seen].swap >>}
                      ELSE run.notification_queue
<1>1. run \in Runs /\ run.at = "matching"
  BY DEF FillInv, RunSound, EndSwap
<1>2. /\ run.last # 0 /\ run.todo \subseteq Placed /\ run.saved \in Results
      /\ Sound(run.saved.filled, run.saved.complete)
      /\ \A t \in Tokens :
           run.books[t] # NoBook => run.books[t] \in Seq(Entries(t))
      /\ Swap \in Placed
      /\ run.book \in Seq(Entries(other))
      /\ run.next <= Len(run.book) + 1
      /\ run.matched_successfully => run.next >= 2
  BY <1>1 DEF FillInv, RunSound, Swap
<1>3. own \in Tokens /\ other \in Tokens /\ other # own /\ Swap \in Swaps
  BY <1>2, OtherSide, PlacedAreSwaps DEF FillInv
<1>4. rest \in Seq(Entries(other))
  <2>1. run.opposite_orders_consumed \in Nat
    BY <1>1 DEF Runs
  <2> QED BY <1>2, <2>1, RestOfBook
<1>5. run.books[own] # NoBook
        => AddTo(run.books[own], SwapObject) \in Seq(Entries(own))
  <2>1. SwapObject \in Entries(own)
    BY <1>2, <1>3 DEF SwapObject, Entries, Objects
  <2> QED BY <1>2, <1>3, <2>1, JoinedBook
<1>6. \A t \in Tokens : Seq(Entries(t)) \subseteq Seq(Objects)
  BY SeqMonotonic DEF Entries
<1>7. run.books \in [Tokens -> {NoBook} \cup Seq(Objects)]
  BY <1>1 DEF Runs
<1> HIDE DEF rest, own, other
<1>8. books \in [Tokens -> {NoBook} \cup Seq(Objects)]
  BY <1>3, <1>4, <1>5, <1>6, <1>7
<1>9. \A t \in Tokens : books[t] # NoBook => books[t] \in Seq(Entries(t))
  BY <1>2, <1>3, <1>4, <1>5, <1>7
<1>10. queue \in SUBSET (Swaps \X Swaps)
  <2>1. CASE run.matched_successfully
    <3>1. run.next \in Nat \ {0} /\ Len(run.book) \in Nat
      BY <1>1, <1>2, LenProperties DEF Runs
    <3>2. last_seen \in 1 .. Len(run.book)
      BY <1>2, <2>1, <3>1
    <3> HIDE DEF last_seen
    <3>3. run.book[last_seen] \in Entries(other)
      BY <1>2, <3>2, ElementOfSeq
    <3>4. run.book[last_seen].swap \in Swaps
      BY <3>3 DEF Entries, Objects
    <3> QED BY <1>1, <1>3, <2>1, <3>4 DEF Runs
  <2>2. CASE ~run.matched_successfully
    BY <1>1, <2>2 DEF Runs
  <2> QED BY <2>1, <2>2
<1>11. StampAfter(Swap) \in 2 .. NumSwaps + 1
  BY <1>3, SwapAssumption DEF StampAfter
<1>12. /\ StampAfter(Swap) \in 0 .. NumSwaps + 1 /\ StampAfter(Swap) # 0
       /\ Swap + 1 \in 0 .. NumSwaps + 1
  BY <1>3, <1>11, SwapAssumption DEF Swaps
<1>13. run' = [run EXCEPT !.at = "swaps", !.swap = 0, !.books = books,
                          !.book = << >>, !.next = 1, !.last = StampAfter(Swap),
                          !.past = Swap + 1,
                          !.notification_queue = queue]
  <2>1. books = [run.books EXCEPT
                   ![other] = rest,
                   ![own] = IF joins THEN AddTo(@, SwapObject) ELSE @]
    BY <1>3, <1>7
  <2>2. run' = [run EXCEPT
          !.at = "swaps", !.swap = 0,
          !.books[other] = rest,
          !.books[own] = IF joins THEN AddTo(@, SwapObject) ELSE @,
          !.book = << >>, !.next = 1, !.last = StampAfter(Swap),
          !.past = Swap + 1,
          !.notification_queue =
             IF run.matched_successfully
               THEN @ \cup {<< Swap, run.book[last_seen].swap >>} ELSE @]
    BY DEF EndSwap, rest, own, other
  <2> HIDE DEF books
  <2> QED BY ZenonT(60), <1>1, <2>1, <2>2 DEF Runs
<1> HIDE DEF books, queue
<1>14. run' \in Runs
  <2> DEFINE r1 == [run EXCEPT !.at = "swaps", !.swap = 0]
             r2 == [r1 EXCEPT !.books = books, !.book = << >>]
             r3 == [r2 EXCEPT !.next = 1]
             r4 == [r3 EXCEPT !.last = StampAfter(Swap), !.past = Swap + 1,
                              !.notification_queue = queue]
  <2>1. r1 \in Runs
    BY <1>1 DEF Runs
  <2> HIDE DEF r1
  <2>2. r2 \in Runs
    <3>1. << >> \in Seq(Objects)
      OBVIOUS
    <3> QED BY <1>8, <2>1, <3>1 DEF Runs
  <2> HIDE DEF r2
  <2>3. r3 \in Runs
    BY SMTT(60), <2>2 DEF Runs
  <2> HIDE DEF r3
  <2>4. r4 \in Runs
    BY <1>10, <1>12, <2>3 DEF Runs
  <2>5. run' = r4
    BY <1>1, <1>13 DEF Runs, r1, r2, r3
  <2> QED BY <2>4, <2>5
<1>15. /\ run'.at = "swaps" /\ run'.books = books
       /\ run'.last = StampAfter(Swap)
       /\ run'.todo = run.todo /\ run'.saved = run.saved
  BY <1>1, <1>13 DEF Runs
<1>16. UNCHANGED << table, result, told, unseen >>
  BY DEF EndSwap
<1>17. RunSound'
  BY <1>2, <1>9, <1>12, <1>14, <1>15, <1>16, RunSoundNext
<1> QED BY <1>16, <1>17, TablesStay

LEMMA CommitRunIsSound ==
  ASSUME FillInv, CommitRun
  PROVE  FillInv'
<1>1. /\ run.at = "swaps"
      /\ last_unprocessed_swap_time' = run.last
      /\ notified' = notified \cup run.notification_queue
      /\ run' = NoRun
      /\ orders' = orders /\ ids' = ids /\ filled' = filled
      /\ complete' = complete /\ matches' = matches
      /\ skipped' = skipped /\ lost' = lost
  BY DEF CommitRun, table, result, unseen
<1>2. Placed' = Placed
  BY <1>1 DEF Placed
<1>3. run \in Runs /\ run.last # 0
  BY <1>1 DEF FillInv, RunSound
<1>4. run.last \in 1 .. NumSwaps + 1
  <2>1. run.last \in 0 .. NumSwaps + 1
    BY <1>3 DEF Runs
  <2> QED BY <1>3, <2>1, SwapAssumption
<1>5. run.notification_queue \subseteq Swaps \X Swaps
  BY <1>3 DEF Runs
<1>6. TypeOK'
  <2>1. run'.at = "idle"
    BY <1>1 DEF NoRun
  <2> QED BY <1>1, <1>2, <1>4, <1>5, <2>1 DEF FillInv, TypeOK
<1>7. Sound(filled, complete)'
  BY <1>1, <1>2 DEF FillInv, Sound
<1>8. RunSound'
  BY <1>1, NoRunIsARun DEF RunSound, NoRun
<1> QED BY <1>1, <1>6, <1>7, <1>8 DEF FillInv

LEMMA CrashAtCommitIsSound ==
  ASSUME FillInv, CrashAtCommit
  PROVE  FillInv'
<1>1. /\ run.at = "swaps" /\ Restore
      /\ last_unprocessed_swap_time' = run.last
      /\ lost' = lost \cup Begun
      /\ UNCHANGED << table, notified, skipped >>
  BY DEF CrashAtCommit
<1>2. run.last \in 0 .. NumSwaps + 1 /\ run.last # 0
  BY <1>1 DEF FillInv, RunSound, Runs
<1>3. run.last \in 1 .. NumSwaps + 1
  BY <1>2, SwapAssumption
<1>4. lost' \subseteq Placed
  BY <1>1 DEF FillInv, TypeOK, Begun
<1> QED BY <1>1, <1>3, <1>4, RestoreIsSound

-----------------------------------------------------------------------------
(* The invariant, and what follows from it.                                *)

LEMMA NextIsSound == FillInv /\ [Next]_vars => FillInv'
<1> SUFFICES ASSUME FillInv, [Next]_vars PROVE FillInv'
  OBVIOUS
<1>1. ASSUME NEW n \in Swaps, CreateSwap(n) PROVE FillInv'
  BY <1>1, CreateSwapIsSound
<1>2. CASE StartRun
  BY <1>2, StartRunIsSound
<1>3. ASSUME NEW n \in Swaps, TakeSwap(n) PROVE FillInv'
  BY <1>3, TakeSwapIsSound
<1>4. ASSUME NEW n \in Swaps, FailSizeAssertion(n) PROVE FillInv'
  <2>1. run.at = "swaps" /\ Rollback
    BY <1>4 DEF FailSizeAssertion, Oldest
  <2> QED BY <2>1, RollbackIsSound
<1>5. CASE SkipFulfilled
  BY <1>5, SkipFulfilledIsSound
<1>6. CASE RefuseMatch
  BY <1>6, RefuseMatchIsSound
<1>7. CASE MatchOrders
  BY <1>7, MatchOrdersIsSound
<1>8. CASE FailMatchAssertion
  <2>1. run.at = "matching" /\ Rollback
    BY <1>8 DEF FailMatchAssertion, Matching, Looking
  <2> QED BY <2>1, RollbackIsSound
<1>9. CASE EndSwap
  BY <1>9, EndSwapIsSound
<1>10. CASE CommitRun
  BY <1>10, CommitRunIsSound
<1>11. CASE CrashRun
  BY <1>11, RollbackIsSound DEF CrashRun
<1>12. CASE CrashAtCommit
  BY <1>12, CrashAtCommitIsSound
<1>13. CASE UNCHANGED vars
  <2>1. UNCHANGED << table, result, told, run, unseen >>
    BY <1>13 DEF vars
  <2>2. RunSound'
    BY <2>1 DEF FillInv, RunSound, Sound, Placed, Entries, OppositeSide, table
  <2> QED BY <2>1, <2>2, TablesStay
<1> QED
  BY <1>1, <1>2, <1>3, <1>4, <1>5, <1>6, <1>7, <1>8, <1>9, <1>10, <1>11,
     <1>12, <1>13 DEF Next, RunStep, SkipRun

(* FillInv holds in every reachable state, whatever runs fail and are      *)
(* rolled back.                                                            *)
THEOREM FillInvariant == Spec => []FillInv
BY InitIsSound, NextIsSound, PTL DEF Spec

(* Type correctness.                                                       *)
THEOREM TypeCorrect == Spec => []TypeOK
<1>1. FillInv => TypeOK
  BY DEF FillInv
<1> QED BY <1>1, FillInvariant, PTL

(* No order ever gives more than its amount, no buy order ever gets more   *)
(* than it asked for: over any number of matches, for any amounts and any  *)
(* slack, with the rounding of the code.                                   *)
THEOREM WithinLimitsHolds == Spec => []WithinLimits
<1>1. FillInv => WithinLimits
  BY DEF FillInv, Sound, WithinLimits
<1> QED BY <1>1, FillInvariant, PTL

(* A swap is complete exactly when its matches have filled it.             *)
THEOREM CompleteAgreesHolds == Spec => []CompleteAgrees
<1>1. FillInv => CompleteAgrees
  BY DEF FillInv, Sound, CompleteAgrees
<1> QED BY <1>1, FillInvariant, PTL

(* Whatever the checks of match_limit_to_limit let through passes its      *)
(* assertions, unless an order is for less than the slack (100 units of    *)
(* the smallest kind in the code): such a match can roll back a run.       *)
THEOREM MatchAssertionHolds == Spec => []MatchAssertion
<1>1. FillInv => MatchAssertion
  <2> SUFFICES ASSUME FillInv, Matching, Accepted,
                      \A m \in Pair : orders[m].amount >= Slack,
                      NEW n \in Pair
               PROVE  AssertionsHold(orders[n], NewFilled[n])
    BY DEF MatchAssertion, Asserted
  <2>1. n \in Placed /\ n \in Swaps
    BY TheTwoDiffer DEF Matching, Pair
  <2>2. NewFilled[n] \in Fill /\ Within(orders[n], NewFilled[n])
    BY <2>1, MatchIsSound DEF Sound
  <2>3. orders[n] \in Order(Tokens, Amounts)
    BY <2>1 DEF FillInv, TypeOK
  <2>4. Accepts(orders[n], NewFilled[n])
    BY DEF Accepted
  <2> QED BY <2>2, <2>3, <2>4, AcceptedIsAsserted
<1> QED BY <1>1, FillInvariant, PTL

-----------------------------------------------------------------------------
(* The order of a book.                                                    *)

(* A cross-multiplied comparison is transitive.                            *)
LEMMA CrossMul ==
  ASSUME NEW a \in Nat \ {0}, NEW b \in Nat \ {0}, NEW c \in Nat \ {0},
         NEW x \in Nat \ {0}, NEW y \in Nat \ {0}, NEW z \in Nat \ {0},
         b * x <= a * y, c * y <= b * z
  PROVE  c * x <= a * z
<1>1. y * (c * x) <= y * (a * z)
  <2>1. (c * y) * x <= (b * z) * x
    <3>1. c * y \in Nat /\ b * z \in Nat
      BY SMT
    <3> QED BY <3>1, SMT
  <2>2. (b * x) * z <= (a * y) * z
    <3>1. b * x \in Nat /\ a * y \in Nat
      BY SMT
    <3> QED BY <3>1, SMT
  <2>3. /\ (c * y) * x = y * (c * x) /\ (b * z) * x = (b * x) * z
        /\ (a * y) * z = y * (a * z)
    BY SMT
  <2> QED BY <2>1, <2>2, <2>3, SMT
<1>2. c * x \in Nat /\ a * z \in Nat
  BY SMT
<1> QED BY <1>1, <1>2, SMT

(* What does not cross with an order does not cross with one that is no    *)
(* better.                                                                 *)
LEMMA CrossStop ==
  ASSUME NEW a \in Nat \ {0}, NEW x \in Nat \ {0},
         NEW b \in Nat \ {0}, NEW y \in Nat \ {0},
         NEW c \in Nat \ {0}, NEW z \in Nat \ {0},
         ~(x * y <= b * a), c * y <= b * z
  PROVE  ~(x * z <= c * a)
<1> SUFFICES ASSUME x * z <= c * a PROVE FALSE
  OBVIOUS
<1>1. /\ x * y \in Nat /\ b * a \in Nat /\ c * y \in Nat
      /\ b * z \in Nat /\ x * z \in Nat /\ c * a \in Nat
  BY SMT
<1>2. (x * z) * y <= (c * a) * y
  BY <1>1, SMT
<1>3. (c * y) * a <= (b * z) * a
  BY <1>1, SMT
<1>4. (b * a) * z < (x * y) * z
  BY <1>1, SMT
<1>5. /\ (x * z) * y = (x * y) * z /\ (c * a) * y = (c * y) * a
      /\ (b * z) * a = (b * a) * z
  BY SMT
<1> QED BY <1>2, <1>3, <1>4, <1>5, SMT

(* The amounts of an order that has appeared.                              *)
LEMMA PlacedAmounts ==
  ASSUME TypeOK, NEW n \in Placed
  PROVE  /\ orders[n] \in Order(Tokens, Amounts)
         /\ orders[n].amount \in Nat \ {0}
         /\ orders[n].amount_swapped \in Nat \ {0}
BY SwapAssumption DEF TypeOK, Order

LEMMA BetterIsTransitive ==
  ASSUME TypeOK, NEW l \in Placed, NEW m \in Placed, NEW n \in Placed,
         ~Better(m, l), ~Better(n, m)
  PROVE  ~Better(n, l)
<1> DEFINE a == orders[l].amount x == orders[l].amount_swapped
           b == orders[m].amount y == orders[m].amount_swapped
           c == orders[n].amount z == orders[n].amount_swapped
<1>1. /\ a \in Nat \ {0} /\ b \in Nat \ {0} /\ c \in Nat \ {0}
      /\ x \in Nat \ {0} /\ y \in Nat \ {0} /\ z \in Nat \ {0}
  BY PlacedAmounts
<1>2. /\ Better(m, l) <=> b * x > a * y
      /\ Better(n, m) <=> c * y > b * z
      /\ Better(n, l) <=> c * x > a * z
  BY DEF Better
<1> HIDE DEF a, b, c, x, y, z
<1>3. b * x <= a * y /\ c * y <= b * z
  BY <1>1, <1>2, SMT
<1>4. c * x <= a * z
  BY <1>1, <1>3, CrossMul
<1> QED BY <1>1, <1>2, <1>4, SMT

LEMMA BetterIsTotal ==
  ASSUME TypeOK, NEW m \in Placed, NEW n \in Placed, Better(m, n)
  PROVE  ~Better(n, m)
<1> DEFINE a == orders[m].amount * orders[n].amount_swapped
           b == orders[n].amount * orders[m].amount_swapped
<1>1. a \in Nat /\ b \in Nat
  BY PlacedAmounts
<1> HIDE DEF a, b
<1>2. (Better(m, n) <=> a > b) /\ (Better(n, m) <=> b > a)
  BY DEF Better, a, b
<1> QED BY <1>1, <1>2

LEMMA WorseDoesNotCross ==
  ASSUME TypeOK, NEW l \in Placed, NEW m \in Placed, NEW n \in Placed,
         ~Crosses(orders[l], orders[m]), ~Better(n, m)
  PROVE  ~Crosses(orders[l], orders[n])
<1> DEFINE a == orders[l].amount x == orders[l].amount_swapped
           b == orders[m].amount y == orders[m].amount_swapped
           c == orders[n].amount z == orders[n].amount_swapped
<1>1. /\ a \in Nat \ {0} /\ b \in Nat \ {0} /\ c \in Nat \ {0}
      /\ x \in Nat \ {0} /\ y \in Nat \ {0} /\ z \in Nat \ {0}
  BY PlacedAmounts
<1>2. /\ Crosses(orders[l], orders[m]) <=> x * y <= b * a
      /\ Crosses(orders[l], orders[n]) <=> x * z <= c * a
      /\ Better(n, m) <=> c * y > b * z
  BY DEF Better, Crosses
<1> HIDE DEF a, b, c, x, y, z
<1>3. c * y <= b * z
  BY <1>1, <1>2, SMT
<1> QED BY <1>1, <1>2, <1>3, CrossStop

-----------------------------------------------------------------------------
(* What a book lists.                                                      *)

(* The length of a book that lists a set.                                  *)
LEMMA ListSize ==
  ASSUME NEW book \in Seq(Objects), NEW S, ListsFrom(1, book, S)
  PROVE  Len(book) = Cardinality(S)
<1> DEFINE f == [i \in 1 .. Len(book) |-> book[i].swap]
<1>1. Len(book) \in Nat
  BY LenProperties
<1>2. f \in [1 .. Len(book) -> S] /\ S = {f[i] : i \in 1 .. Len(book)}
  BY DEF ListsFrom
<1>3. \A i, j \in 1 .. Len(book) : f[i] = f[j] => i = j
  <2> SUFFICES ASSUME NEW i \in 1 .. Len(book), NEW j \in 1 .. Len(book),
                      f[i] = f[j], i # j
               PROVE  FALSE
    OBVIOUS
  <2>1. i < j \/ j < i
    BY <1>1
  <2> QED BY <2>1 DEF ListsFrom
<1> HIDE DEF f
<1>4. f \in Bijection(1 .. Len(book), S)
  <2>1. f \in Injection(1 .. Len(book), S)
    BY <1>2, <1>3, Fun_IsInj
  <2>2. f \in Surjection(1 .. Len(book), S)
    BY <1>2 DEF Surjection
  <2> QED BY <2>1, <2>2 DEF Bijection
<1>5. ExistsBijection(1 .. Len(book), S)
  BY <1>4 DEF ExistsBijection
<1> QED BY <1>1, <1>5, FS_CountingElements

(* A book made from the table lists what it is made from.                  *)
LEMMA FreshBook ==
  ASSUME NEW S, IsFiniteSet(S), S \subseteq Swaps, NEW q \in Sorted(S)
  PROVE  LET book == [i \in DOMAIN q |-> [swap |-> q[i], object |-> "row"]]
         IN /\ ListsFrom(1, book, S)
            /\ Len(book) = Cardinality(S)
            /\ book \in Seq({o \in Objects : o.swap \in S})
<1> DEFINE D == 1 .. Cardinality(S)
           T == {o \in Objects : o.swap \in S}
           book == [i \in DOMAIN q |-> [swap |-> q[i], object |-> "row"]]
<1>1. Cardinality(S) \in Nat
  BY FS_CardinalityType
<1>2. /\ q \in [D -> S]
      /\ \A i, j \in D : i # j => q[i] # q[j]
      /\ \A i, j \in D : i < j => ~Better(q[j], q[i])
  BY DEF Sorted, SetToSeqs
<1>3. DOMAIN book = D /\ \A i \in D : book[i].swap = q[i] /\ book[i] \in T
  BY <1>2 DEF Objects
<1>4. book \in [D -> T]
  BY <1>2, <1>3
<1>5. book \in Seq(T) /\ Len(book) = Cardinality(S)
  BY <1>1, <1>4
<1>6. S = {q[i] : i \in D}
  <2>1. q \in Injection(D, S)
    BY <1>2, Fun_IsInj
  <2>2. IsFiniteSet(D) /\ Cardinality(D) = Cardinality(S)
    BY <1>1, FS_Interval
  <2>3. q \in Surjection(D, S)
    BY <2>1, <2>2, FS_Injection
  <2> QED BY <1>2, <2>3 DEF Surjection
<1>7. ListsFrom(1, book, S)
  BY <1>2, <1>3, <1>5, <1>6 DEF ListsFrom
<1> QED BY <1>5, <1>7

(* Behind its first entry a list lacks what that entry is of.              *)
LEMMA ListBehind ==
  ASSUME NEW book \in Seq(Objects), NEW S, NEW k \in 1 .. Len(book),
         ListsFrom(k, book, S)
  PROVE  /\ book[k].swap \in S
         /\ ListsFrom(k + 1, book, S \ {book[k].swap})
<1>1. Len(book) \in Nat
  BY LenProperties
<1>2. k \in k .. Len(book) /\ \A i \in (k + 1) .. Len(book) : i \in k .. Len(book) /\ k < i
  BY <1>1
<1>3. \A i \in k .. Len(book) : i = k \/ i \in (k + 1) .. Len(book)
  BY <1>1
<1>4. \A i \in (k + 1) .. Len(book) : book[i].swap # book[k].swap
  BY <1>2 DEF ListsFrom
<1>5. S \ {book[k].swap} = {book[i].swap : i \in (k + 1) .. Len(book)}
  BY <1>2, <1>3, <1>4 DEF ListsFrom
<1> QED BY <1>2, <1>5 DEF ListsFrom

(* What is left of a book lists what the book lists there.                 *)
LEMMA RestLists ==
  ASSUME NEW book \in Seq(Objects), NEW S, NEW k \in Nat,
         ListsFrom(k + 1, book, S)
  PROVE  ListsFrom(1, SubSeq(book, k + 1, Len(book)), S)
<1> DEFINE n == Len(book)
           rest == SubSeq(book, k + 1, n)
<1>1. n \in Nat /\ \A i \in (k + 1) .. n : book[i] \in Objects
  BY ElementOfSeq, LenProperties
<1>2. /\ Len(rest) = IF k + 1 <= n THEN n - (k + 1) + 1 ELSE 0
      /\ \A i \in 1 .. n - (k + 1) + 1 : rest[i] = book[(k + 1) + i - 1]
  BY <1>1, SubSeqProperties
<1> HIDE DEF rest, n
<1>3. \A i \in 1 .. Len(rest) :
        k + i \in (k + 1) .. n /\ rest[i] = book[k + i]
  BY <1>1, <1>2
<1>4. \A i \in (k + 1) .. n : i - k \in 1 .. Len(rest) /\ k + (i - k) = i
  BY <1>1, <1>2
<1>5. S = {book[i].swap : i \in (k + 1) .. n}
  BY DEF ListsFrom, n
<1>6. S = {rest[i].swap : i \in 1 .. Len(rest)}
  <2>1. \A i \in 1 .. Len(rest) : rest[i].swap \in S
    BY <1>3, <1>5
  <2>2. \A i \in (k + 1) .. n : rest[i - k] = book[i]
    BY <1>3, <1>4
  <2>3. \A i \in (k + 1) .. n : book[i].swap \in {rest[j].swap : j \in 1 .. Len(rest)}
    BY <1>4, <2>2
  <2> QED BY <1>5, <2>1, <2>3
<1>7. \A i, j \in 1 .. Len(rest) : i < j =>
        rest[i].swap # rest[j].swap /\ ~Better(rest[j].swap, rest[i].swap)
  <2> TAKE i, j \in 1 .. Len(rest)
  <2> HAVE i < j
  <2>1. k + i < k + j
    BY <1>1, <1>2
  <2> QED BY <1>3, <2>1 DEF ListsFrom, n
<1> QED BY <1>6, <1>7 DEF ListsFrom, rest, n

(* A set of positions that holds all positions before any of its own.      *)
LEMMA Prefix ==
  ASSUME NEW n \in Nat, NEW A \in SUBSET (1 .. n),
         \A i \in A : \A j \in 1 .. i : j \in A
  PROVE  A = 1 .. Cardinality(A) /\ Cardinality(A) \in 0 .. n
<1>1. IsFiniteSet(1 .. n) /\ Cardinality(1 .. n) = n
  BY FS_Interval
<1>2. IsFiniteSet(A) /\ Cardinality(A) \in Nat /\ Cardinality(A) <= n
  BY ZenonT(60), <1>1, FS_Subset, FS_CardinalityType
<1>3. \A i \in A : i <= Cardinality(A)
  <2> TAKE i \in A
  <2>1. i \in Nat /\ i >= 1 /\ (1 .. i) \in SUBSET A
    OBVIOUS
  <2>2. Cardinality(1 .. i) = i
    BY <2>1, FS_Interval
  <2> QED BY <1>2, <2>1, <2>2, FS_Subset
<1>4. A \in SUBSET (1 .. Cardinality(A))
  BY <1>2, <1>3
<1>5. /\ IsFiniteSet(1 .. Cardinality(A))
      /\ Cardinality(1 .. Cardinality(A)) = Cardinality(A)
  BY <1>2, FS_Interval
<1>6. A = 1 .. Cardinality(A)
  BY <1>4, <1>5, FS_Subset
<1> QED BY <1>2, <1>6

(* A swap that joins a sorted book behind what is as good leaves it        *)
(* sorted.                                                                 *)
LEMMA JoinLists ==
  ASSUME TypeOK, NEW book \in Seq(Objects), NEW S \in SUBSET Placed,
         ListsFrom(1, book, S),
         NEW object \in Objects, object.swap \in Placed \ S
  PROVE  ListsFrom(1, AddTo(book, object), S \cup {object.swap})
<1> DEFINE n == Len(book)
           w(i) == book[i].swap
           A == {i \in DOMAIN book : ~Better(object.swap, book[i].swap)}
           k == Cardinality(A)
           front == SubSeq(book, 1, k)
           back == SubSeq(book, k + 1, n)
           new == AddTo(book, object)
<1>1. n \in Nat /\ DOMAIN book = 1 .. n
  BY LenProperties
<1>2. /\ S = {w(i) : i \in 1 .. n}
      /\ \A i, j \in 1 .. n : i < j => w(i) # w(j) /\ ~Better(w(j), w(i))
  BY DEF ListsFrom
<1>3. \A i \in 1 .. n : w(i) \in Placed /\ w(i) # object.swap
  BY <1>2
<1>4. A \in SUBSET (1 .. n) /\ \A i \in A : \A j \in 1 .. i : j \in A
  <2>1. A \in SUBSET (1 .. n)
    BY <1>1
  <2>2. ASSUME NEW i \in A, NEW j \in 1 .. i PROVE j \in A
    <3>1. i \in 1 .. n /\ j \in 1 .. n /\ j <= i
      BY <1>1, <2>1
    <3>2. ~Better(object.swap, w(i))
      OBVIOUS
    <3>3. CASE j = i
      BY <3>3
    <3>4. CASE j < i
      <4>1. ~Better(w(i), w(j))
        BY <1>2, <3>1, <3>4
      <4>2. ~Better(object.swap, w(j))
        BY <1>3, <3>1, <3>2, <4>1, BetterIsTransitive
      <4> QED BY <1>1, <3>1, <4>2
    <3> QED BY <3>1, <3>3, <3>4
  <2> QED BY <2>1, <2>2
<1> HIDE DEF A
<1>5. A = 1 .. k /\ k \in 0 .. n
  BY <1>1, <1>4, Prefix
<1>6. \A i \in 1 .. n : i <= k <=> ~Better(object.swap, w(i))
  BY <1>1, <1>5 DEF A
<1>7. /\ front \in Seq(Objects) /\ Len(front) = k
      /\ \A i \in 1 .. k : front[i] = book[i]
  <2>1. \A i \in 1 .. k : book[i] \in Objects
    BY <1>1, <1>5, ElementOfSeq
  <2>2. /\ front \in Seq(Objects)
        /\ Len(front) = IF 1 <= k THEN k - 1 + 1 ELSE 0
        /\ \A i \in 1 .. k - 1 + 1 : front[i] = book[1 + i - 1]
    BY <1>5, <2>1, SubSeqProperties
  <2> HIDE DEF front, k
  <2> QED BY <1>5, <2>2
<1>8. /\ back \in Seq(Objects) /\ Len(back) = n - k
      /\ \A i \in 1 .. n - k : back[i] = book[k + i]
  <2>1. \A i \in (k + 1) .. n : book[i] \in Objects
    BY <1>1, <1>5, ElementOfSeq
  <2>2. /\ back \in Seq(Objects)
        /\ Len(back) = IF k + 1 <= n THEN n - (k + 1) + 1 ELSE 0
        /\ \A i \in 1 .. n - (k + 1) + 1 : back[i] = book[(k + 1) + i - 1]
    BY <1>1, <1>5, <2>1, SubSeqProperties
  <2> HIDE DEF back, k, n
  <2>3. n - (k + 1) + 1 = n - k /\ \A i \in 1 .. n - k : (k + 1) + i - 1 = k + i
    BY <1>1, <1>5
  <2> QED BY <1>1, <1>5, <2>2, <2>3
<1>9. new = (front \o << object >>) \o back
  <2>1. AddTo(book, object) = InsertAt(book, k + 1, object)
    BY DEF AddTo, A
  <2>2. (k + 1) - 1 = k
    BY <1>5
  <2> QED BY <2>1, <2>2 DEF InsertAt
<1> HIDE DEF front, back, new, k, n
<1>10. /\ Len(new) = n + 1
       /\ \A i \in 1 .. n + 1 :
            new[i] = IF i <= k THEN book[i]
                     ELSE IF i = k + 1 THEN object ELSE book[i - 1]
  <2>1. << object >> \in Seq(Objects) /\ Len(<< object >>) = 1
    OBVIOUS
  <2>2. /\ front \o << object >> \in Seq(Objects)
        /\ Len(front \o << object >>) = k + 1
        /\ \A i \in 1 .. k + 1 : (front \o << object >>)[i] =
             IF i <= k THEN book[i] ELSE object
    <3>1. \A i \in 1 .. Len(front) + 1 : (front \o << object >>)[i] =
             IF i <= Len(front) THEN front[i] ELSE << object >>[i - Len(front)]
      BY <1>7, <2>1, ConcatProperties
    <3>2. \A i \in 1 .. k + 1 : i <= k \/ i - k = 1
      BY <1>5
    <3>3. \A i \in 1 .. k + 1 : i <= k => i \in 1 .. k
      BY <1>5
    <3> QED BY <1>5, <1>7, <2>1, <3>1, <3>2, <3>3, ConcatProperties
  <2> DEFINE longer == front \o << object >>
  <2>3. /\ Len(new) = Len(longer) + Len(back)
        /\ \A i \in 1 .. Len(longer) + Len(back) : new[i] =
             IF i <= Len(longer) THEN longer[i] ELSE back[i - Len(longer)]
    BY ZenonT(60), <1>8, <1>9, <2>2, ConcatProperties
  <2> HIDE DEF longer
  <2>4. Len(longer) + Len(back) = n + 1 /\ Len(longer) = k + 1
    <3>1. Len(longer) = k + 1
      BY <2>2 DEF longer
    <3>2. (k + 1) + (n - k) = n + 1
      BY <1>1, <1>5
    <3>3. Len(back) = n - k
      BY <1>8
    <3> QED BY <3>1, <3>2, <3>3, Zenon
  <2>5. ASSUME NEW i \in 1 .. n + 1
        PROVE  new[i] = IF i <= k THEN book[i]
                        ELSE IF i = k + 1 THEN object ELSE book[i - 1]
    <3>1. new[i] = IF i <= k + 1 THEN longer[i] ELSE back[i - (k + 1)]
      BY <2>3, <2>4
    <3>2. CASE i <= k + 1
      <4>1. i \in 1 .. k + 1 /\ (i <= k \/ i = k + 1)
        BY <1>5, <3>2
      <4>2. longer[i] = IF i <= k THEN book[i] ELSE object
        BY <2>2, <4>1 DEF longer
      <4> QED BY <1>5, <3>1, <3>2, <4>1, <4>2
    <3>3. CASE i > k + 1
      <4>1. i - (k + 1) \in 1 .. n - k /\ k + (i - (k + 1)) = i - 1
            /\ ~(i <= k + 1) /\ ~(i <= k) /\ i # k + 1
        BY <1>1, <1>5, <3>3
      <4>2. back[i - (k + 1)] = book[i - 1]
        BY <1>8, <4>1
      <4> QED BY <3>1, <4>1, <4>2
    <3> QED BY <1>5, <3>2, <3>3
  <2> QED BY <2>3, <2>4, <2>5
<1>11. \A i \in 1 .. n + 1 :
         /\ i <= k => i \in 1 .. n /\ new[i] = book[i]
         /\ i = k + 1 => new[i] = object
         /\ i > k + 1 => i - 1 \in 1 .. n /\ i - 1 > k /\ new[i] = book[i - 1]
  BY <1>1, <1>5, <1>10
<1>12. S \cup {object.swap} = {new[i].swap : i \in 1 .. Len(new)}
  <2>1. \A i \in 1 .. n + 1 : new[i].swap \in S \cup {object.swap}
    <3> TAKE i \in 1 .. n + 1
    <3>1. i <= k \/ i = k + 1 \/ i > k + 1
      BY <1>1, <1>5
    <3> QED BY <1>2, <1>11, <3>1
  <2>2. object.swap \in {new[i].swap : i \in 1 .. n + 1}
    <3>1. k + 1 \in 1 .. n + 1
      BY <1>1, <1>5
    <3> QED BY <1>11, <3>1
  <2>3. \A i \in 1 .. n : w(i) \in {new[j].swap : j \in 1 .. n + 1}
    <3> TAKE i \in 1 .. n
    <3>1. CASE i <= k
      <4>1. i \in 1 .. n + 1
        BY <1>1
      <4> QED BY <1>11, <3>1, <4>1
    <3>2. CASE i > k
      <4>1. i + 1 \in 1 .. n + 1 /\ i + 1 > k + 1 /\ (i + 1) - 1 = i
        BY <1>1, <1>5, <3>2
      <4> QED BY <1>11, <4>1
    <3> QED BY <1>1, <1>5, <3>1, <3>2
  <2> QED BY SMTT(60), <1>2, <1>10, <2>1, <2>2, <2>3
<1>13. ASSUME NEW i \in 1 .. n + 1, NEW j \in 1 .. n + 1, i < j
       PROVE  new[i].swap # new[j].swap /\ ~Better(new[j].swap, new[i].swap)
  <2>1. CASE i <= k /\ j <= k
    BY <1>2, <1>11, <1>13, <2>1
  <2>2. CASE i <= k /\ j = k + 1
    <3>1. ~Better(object.swap, w(i)) /\ w(i) # object.swap
      BY <1>3, <1>6, <1>11, <2>2
    <3> QED BY <1>11, <2>2, <3>1
  <2>3. CASE i <= k /\ j > k + 1
    <3>1. i < j - 1
      BY <1>1, <1>5, <2>3
    <3> QED BY <1>2, <1>11, <2>3, <3>1
  <2>4. CASE i = k + 1
    <3>1. j > k + 1
      BY <1>13, <2>4
    <3>2. j - 1 \in 1 .. n /\ ~(j - 1 <= k) /\ new[j] = book[j - 1]
      BY <1>1, <1>5, <1>11, <3>1
    <3>3. Better(object.swap, w(j - 1)) /\ w(j - 1) # object.swap
      BY <1>3, <1>6, <3>2
    <3>4. ~Better(w(j - 1), object.swap)
      BY <1>3, <3>2, <3>3, BetterIsTotal
    <3> QED BY <1>11, <2>4, <3>2, <3>3, <3>4
  <2>5. CASE i > k + 1
    <3>1. j > k + 1 /\ i - 1 < j - 1
      BY <1>1, <1>5, <1>13, <2>5
    <3> QED BY <1>2, <1>11, <2>5, <3>1
  <2>6. (i <= k \/ i = k + 1 \/ i > k + 1) /\ (j <= k \/ j = k + 1 \/ j > k + 1)
    BY <1>1, <1>5
  <2>7. i <= k \/ (i = k + 1 \/ i > k + 1)
    BY <2>6
  <2> QED BY <2>1, <2>2, <2>3, <2>4, <2>5, <2>6
<1>14. \A i, j \in 1 .. Len(new) : i < j =>
         new[i].swap # new[j].swap /\ ~Better(new[j].swap, new[i].swap)
  BY <1>10, <1>13
<1> QED BY <1>12, <1>14 DEF ListsFrom, new

-----------------------------------------------------------------------------
(* The books while orders appear in the order of their stamps.             *)

(* Ids are stamps then.                                                    *)
LEMMA InOrder ==
  ASSUME ids \in Seq(Swaps), InStampOrder
  PROVE  /\ Len(ids) \in Nat
         /\ Placed = 1 .. Len(ids)
         /\ \A n \in Placed : IdOf(n) = n
<1>1. Len(ids) \in Nat /\ DOMAIN ids = 1 .. Len(ids)
  BY LenProperties
<1>2. Placed = 1 .. Len(ids)
  BY <1>1 DEF InStampOrder, Placed, ToSet
<1>3. ASSUME NEW n \in Placed PROVE IdOf(n) = n
  <2>1. n \in DOMAIN ids /\ ids[n] = n
    BY <1>1, <1>2 DEF InStampOrder
  <2>2. IdOf(n) \in DOMAIN ids /\ ids[IdOf(n)] = n
    BY <2>1 DEF IdOf
  <2> QED BY <2>2 DEF InStampOrder
<1> QED BY <1>1, <1>2, <1>3

(* What is open on the other side, as the loop counts it, is what is open  *)
(* there from before the run's last stamp.                                 *)
LEMMA OppositeAreOlder ==
  ASSUME FillInv, InStampOrder, RunInStep, NEW n \in Placed, Oldest(n)
  PROVE  OppositeSwaps(n) = OpenBefore(OppositeSide(n), run.past)
<1>1. /\ Placed = 1 .. Len(ids) /\ Len(ids) \in Nat
      /\ \A m \in Placed : IdOf(m) = m
  BY InOrder DEF FillInv
<1>2. /\ Swap = 0 /\ n \in run.todo /\ \A m \in run.todo : n <= m
      /\ run.todo = {m \in Placed \ complete : m >= run.past /\ m # Swap}
      /\ run.past \in last_unprocessed_swap_time .. Len(ids) + 1
  BY DEF RunInStep, Oldest
<1>3. run.past \in Int /\ n >= run.past
  BY <1>2
<1>4. ASSUME NEW m \in Placed \ complete
      PROVE  /\ orders[m].pays # orders[n].pays <=> orders[m].pays = OppositeSide(n)
             /\ orders[m].pays # orders[n].pays => (m <= n <=> m < run.past)
  <2>1. orders[m].pays # orders[n].pays <=> orders[m].pays = OppositeSide(n)
    BY OtherSide DEF FillInv
  <2>2. m < run.past => m <= n
    BY <1>1, <1>3
  <2>3. m >= run.past => m \in run.todo
    BY <1>1, <1>2
  <2>4. m >= run.past /\ m # n => ~(m <= n)
    BY <1>1, <1>2, <2>3
  <2>5. m \in Int
    BY <1>1
  <2> QED BY <1>3, <2>1, <2>2, <2>4, <2>5
<1>5. \A m \in Placed : IdOf(m) <= IdOf(n) <=> m <= n
  BY <1>1
<1> QED BY <1>4, <1>5 DEF OppositeSwaps, OpenBefore

(* Every book a swap may be matched with is of orders before the last      *)
(* stamp, and it lists the open ones of them if the cached ones do.        *)
LEMMA BookInHand ==
  ASSUME FillInv, InStampOrder, RunInStep, NEW n \in Placed, Oldest(n),
         NEW book \in OppositeBooks(n)
  PROVE  /\ book \in Seq(Before(run.past))
         /\ BooksListed \/ run.books[OppositeSide(n)] = NoBook
              => ListsFrom(1, book, OpenBefore(OppositeSide(n), run.past))
<1> DEFINE t == OppositeSide(n)
           S == OpenBefore(t, run.past)
<1>1. OppositeSwaps(n) = S
  BY OppositeAreOlder
<1>2. t \in Tokens
  BY OtherSide DEF FillInv
<1>3. CASE run.books[t] # NoBook
  <2>1. book = run.books[t]
    BY <1>3 DEF OppositeBooks
  <2>2. book \in Seq(Before(run.past))
    BY <1>2, <1>3, <2>1 DEF RunInStep
  <2>3. run.at = "swaps"
    BY DEF Oldest
  <2>4. BooksListed => ListsFrom(1, book, S)
    BY <1>2, <1>3, <2>1, <2>3 DEF BooksListed
  <2> QED BY <1>3, <2>2, <2>4
<1>4. CASE run.books[t] = NoBook
  <2>1. PICK q \in Sorted(S) :
               book = [i \in DOMAIN q |-> [swap |-> q[i], object |-> "row"]]
    BY <1>1, <1>4 DEF OppositeBooks
  <2>2. IsFiniteSet(S) /\ S \subseteq Swaps
    <3>1. S \in SUBSET Swaps /\ IsFiniteSet(Swaps)
      BY PlacedAreSwaps DEF FillInv, OpenBefore
    <3> QED BY <3>1, FS_Subset
  <2>3. ListsFrom(1, book, S) /\ book \in Seq({o \in Objects : o.swap \in S})
    BY <2>1, <2>2, FreshBook
  <2>4. {o \in Objects : o.swap \in S} \subseteq Before(run.past)
    BY DEF OpenBefore, Before
  <2>5. book \in Seq(Before(run.past))
    BY <2>3, <2>4, SeqMonotonic
  <2> QED BY <2>3, <2>5
<1> QED BY <1>3, <1>4

(* The assertion on the size of the book.                                  *)
LEMMA BooksInvSuffices ==
  ASSUME FillInv, BooksInv
  PROVE  BooksAgree /\ NoCrossedBook
<1>1. ASSUME InStampOrder, RefusedLately = {}, NEW n \in Placed, Oldest(n),
             NEW book \in OppositeBooks(n)
      PROVE  SizeAgrees(n, book)
  <2>1. run.at # "idle"
    BY <1>1 DEF Oldest
  <2>2. RunInStep /\ BooksListed
    BY <1>1, <2>1 DEF BooksInv
  <2>3. OppositeSwaps(n) = OpenBefore(OppositeSide(n), run.past)
    BY <1>1, <2>2, OppositeAreOlder
  <2>4. /\ book \in Seq(Before(run.past))
        /\ ListsFrom(1, book, OppositeSwaps(n))
    BY <1>1, <2>2, <2>3, BookInHand
  <2>5. book \in Seq(Objects)
    BY <2>4, SeqMonotonic DEF Before
  <2> QED BY <2>4, <2>5, ListSize DEF SizeAgrees
<1>2. BooksAgree
  BY <1>1 DEF BooksAgree, SizeAssertion
<1>3. NoCrossedBook
  BY DEF BooksInv, NoCrossedBook
<1> QED BY <1>2, <1>3

(* Of two orders that are matched at least one is filled: both amounts     *)
(* traded are all that one of the two had left to trade.                   *)
LEMMA OneIsDone ==
  ASSUME FillInv, Matching
  PROVE  Swap \in Done \/ Opposite \in Done
<1> DEFINE l == orders[Swap]
           r == orders[Opposite]
           fl == filled[Swap]
           fr == filled[Opposite]
           lv == LeftVolume(l, fl, r)
           rv == RightVolume(r, fr)
           t == Traded(l, fl, r, fr)
           nl == Filled(fl, t.left, t.right)
           nr == Filled(fr, t.right, t.left)
<1>1. /\ Swap \in Placed /\ Opposite \in Placed
      /\ Swap \in Swaps /\ Opposite \in Swaps
      /\ Swap # Opposite
  BY TheTwoDiffer DEF Matching
<1>2. filled \in [Swaps -> Fill]
  BY DEF FillInv, TypeOK, Fill
<1>3. /\ l \in Order(Tokens, Amounts) /\ r \in Order(Tokens, Amounts)
      /\ fl \in Fill /\ fr \in Fill /\ Within(l, fl) /\ Within(r, fr)
  BY <1>1, <1>2 DEF FillInv, TypeOK, Sound
<1>4. NewFilled = [filled EXCEPT ![Swap] = nl, ![Opposite] = nr]
  BY <1>1, <1>2 DEF NewFilled
<1>5. NewFilled[Swap] = nl /\ NewFilled[Opposite] = nr
  BY <1>1, <1>2, <1>4
<1>6. /\ l.amount \in Nat /\ l.amount_swapped \in Nat \ {0}
      /\ r.amount \in Nat \ {0} /\ r.amount_swapped \in Nat \ {0}
      /\ l.sell_order \in BOOLEAN /\ r.sell_order \in BOOLEAN
      /\ fl.out \in Nat /\ fl.in \in Nat /\ fr.out \in Nat /\ fr.in \in Nat
  BY <1>3, SwapAssumption DEF Order, Fill
<1>7. /\ l.sell_order => lv.out = l.amount - fl.out
      /\ ~l.sell_order => lv.in = l.amount_swapped - fl.in
  BY DEF LeftVolume, Volume
<1>8. /\ r.sell_order => rv.out = r.amount - fr.out
      /\ ~r.sell_order => rv.in = r.amount_swapped - fr.in
  BY DEF RightVolume, Volume
<1>9. \/ t = [left |-> rv.in, right |-> rv.out]
      \/ t = [left |-> lv.out, right |-> lv.in]
  BY DEF Traded
<1>10. /\ nl = [out |-> fl.out + t.left, in |-> fl.in + t.right]
       /\ nr = [out |-> fr.out + t.right, in |-> fr.in + t.left]
  BY DEF Filled
<1>11. Fulfilled(l, nl) \/ Fulfilled(r, nr)
  <2> HIDE DEF l, r, fl, fr, lv, rv, t, nl, nr
  <2>1. CASE t = [left |-> lv.out, right |-> lv.in]
    <3>1. nl.out = fl.out + lv.out /\ nl.in = fl.in + lv.in
      BY <1>10, <2>1
    <3>2. Fulfilled(l, nl)
      BY <1>6, <1>7, <3>1 DEF Fulfilled
    <3> QED BY <3>2
  <2>2. CASE t = [left |-> rv.in, right |-> rv.out]
    <3>1. nr.out = fr.out + rv.out /\ nr.in = fr.in + rv.in
      BY <1>10, <2>2
    <3>2. Fulfilled(r, nr)
      BY <1>6, <1>8, <3>1 DEF Fulfilled
    <3> QED BY <3>2
  <2> QED BY <1>9, <2>1, <2>2
<1> QED BY <1>5, <1>11 DEF Done, Pair

-----------------------------------------------------------------------------
(* The steps keep the books in step.                                       *)

LEMMA InitIsInStep == Init => BooksInv
<1> SUFFICES ASSUME Init PROVE BooksInv
  OBVIOUS
<1>1. run.at = "idle" /\ last_unprocessed_swap_time = 1 /\ Len(ids) = 0
  BY DEF Init, NoRun
<1>2. Placed = {}
  BY DEF Init, Placed, ToSet
<1>3. NoneCross(complete, last_unprocessed_swap_time)
  BY <1>2 DEF NoneCross
<1>4. SkippedInAMillisecond /\ Stamped(last_unprocessed_swap_time)
  BY <1>1 DEF Init, SkippedInAMillisecond, Stamped
<1> QED BY <1>1, <1>3, <1>4 DEF BooksInv

(* A new order comes behind all others; if the stamp is past it, it shares *)
(* a millisecond with the order that has led to the stamp.                 *)
LEMMA CreateSwapIsInStep ==
  ASSUME FillInv, BooksInv, NEW n \in Swaps, CreateSwap(n)
  PROVE  BooksInv'
<1> SUFFICES ASSUME InStampOrder'
             PROVE  /\ run'.at = "idle"
                    /\ SkippedInAMillisecond'
                    /\ Stamped(last_unprocessed_swap_time)'
                    /\ refused' = {} => NoneCross(complete, last_unprocessed_swap_time)'
  BY DEF BooksInv
<1>1. /\ run.at = "idle"
      /\ n \notin Placed
      /\ \A m \in Placed : orders'[m] = orders[m]
      /\ ids' = Append(ids, n)
      /\ run' = run /\ complete' = complete /\ refused' = refused
      /\ last_unprocessed_swap_time' = last_unprocessed_swap_time
      /\ skipped' = skipped \cup {m \in {n} : m < last_unprocessed_swap_time}
      /\ lost' = lost
  BY DEF CreateSwap, result, told
<1>2. ids \in Seq(Swaps) /\ last_unprocessed_swap_time \in Nat
  BY DEF FillInv, TypeOK
<1>3. /\ Append(ids, n) \in Seq(Swaps)
      /\ Len(Append(ids, n)) = Len(ids) + 1
      /\ \A i \in 1 .. Len(ids) : Append(ids, n)[i] = ids[i]
      /\ Append(ids, n)[Len(ids) + 1] = n
  BY <1>2, AppendProperties
<1>4. /\ Len(ids) \in Nat
      /\ DOMAIN ids = 1 .. Len(ids)
      /\ DOMAIN ids' = 1 .. Len(ids) + 1
  BY <1>1, <1>2, <1>3, LenProperties
<1>5. \A i \in 1 .. Len(ids) + 1 : ids'[i] = i
  BY <1>4 DEF InStampOrder
<1>6. InStampOrder /\ n = Len(ids) + 1
  BY <1>1, <1>3, <1>4, <1>5 DEF InStampOrder
<1>7. SkippedInAMillisecond /\ Stamped(last_unprocessed_swap_time)
  BY <1>6 DEF BooksInv
<1>8. Placed = 1 .. Len(ids) /\ Placed' = 1 .. Len(ids) + 1
  <2>1. Placed = 1 .. Len(ids)
    BY <1>2, <1>6, InOrder
  <2>2. Placed' = {ids'[i] : i \in DOMAIN ids'}
    BY DEF Placed, ToSet
  <2>3. Placed' = 1 .. Len(ids) + 1
    BY <1>4, <1>5, <2>2
  <2> QED BY <2>1, <2>3
<1>9. Placed \subseteq Placed'
  BY <1>4, <1>8
<1>10. Stamped(last_unprocessed_swap_time)'
  BY <1>1, <1>7, <1>9 DEF Stamped, StampAfter
<1>11. SkippedInAMillisecond'
  <2>1. \A m \in skipped : \E k \in Placed' : k < m /\ m < StampAfter(k)
    BY <1>7, <1>9 DEF SkippedInAMillisecond
  <2>2. ASSUME n < last_unprocessed_swap_time
        PROVE  \E k \in Placed' : k < n /\ n < StampAfter(k)
    <3>1. n # 0 /\ n \in Nat
      BY <1>4, <1>6
    <3>2. PICK k \in Placed : last_unprocessed_swap_time = StampAfter(k)
      BY <1>2, <1>7, <2>2, <3>1 DEF Stamped
    <3>3. k < n
      BY <1>4, <1>6, <1>8
    <3> QED BY <1>9, <2>2, <3>2, <3>3
  <2>3. \A m \in skipped' : \E k \in Placed' : k < m /\ m < StampAfter(k)
    BY <1>1, <2>1, <2>2
  <2> QED BY <2>3 DEF SkippedInAMillisecond, StampAfter
<1>12. ASSUME refused' = {} PROVE NoneCross(complete, last_unprocessed_swap_time)'
  <2>1. NoneCross(complete, last_unprocessed_swap_time)
    BY <1>1, <1>6, <1>12 DEF BooksInv
  <2>2. ASSUME NEW i \in Placed' \ complete', NEW j \in Placed' \ complete',
               i < j, j < last_unprocessed_swap_time',
               j \notin skipped' \cup lost'
        PROVE  /\ i \in Placed \ complete /\ j \in Placed \ complete
               /\ j \notin skipped \cup lost
    <3>1. j # n
      BY <1>1, <2>2
    <3>2. j \in Placed
      BY <1>4, <1>6, <1>8, <2>2, <3>1
    <3>3. i \in Placed
      BY <1>4, <1>8, <2>2, <3>2
    <3> QED BY <1>1, <2>2, <3>2, <3>3
  <2> QED BY <1>1, <2>1, <2>2 DEF NoneCross
<1> QED BY <1>1, <1>10, <1>11, <1>12

(* A run begins with all that is open from the last stamp on, and without  *)
(* books.                                                                  *)
LEMMA StartRunIsInStep ==
  ASSUME FillInv, BooksInv, StartRun
  PROVE  BooksInv'
<1>1. /\ run.at = "idle" /\ Unprocessed # {}
      /\ orders' = orders /\ ids' = ids /\ complete' = complete
      /\ last_unprocessed_swap_time' = last_unprocessed_swap_time
      /\ refused' = refused /\ Placed' = Placed
      /\ skipped' = skipped /\ lost' = lost
  BY DEF StartRun, table, result, told, unseen, Placed
<1>2. /\ run'.at = "swaps" /\ run'.todo = Unprocessed /\ run'.swap = 0
      /\ run'.books = [t \in Tokens |-> NoBook]
      /\ run'.fulfilled = {}
      /\ run'.last = last_unprocessed_swap_time
      /\ run'.past = last_unprocessed_swap_time
      /\ run'.saved.complete = complete
  BY DEF StartRun, NoRun
<1>3. InStampOrder' <=> InStampOrder
  BY <1>1 DEF InStampOrder
<1>4. last_unprocessed_swap_time \in Nat
  BY DEF FillInv, TypeOK
<1>5. ASSUME InStampOrder
      PROVE  /\ SkippedInAMillisecond'
             /\ Stamped(last_unprocessed_swap_time)'
             /\ RunInStep'
  <2>1. Len(ids) \in Nat /\ Placed = 1 .. Len(ids)
    BY <1>5, InOrder DEF FillInv
  <2>2. last_unprocessed_swap_time <= Len(ids) + 1
    BY <1>1, <1>4, <2>1 DEF Unprocessed
  <2>3. Unprocessed
          = {m \in Placed \ complete : m >= last_unprocessed_swap_time /\ m # 0}
    BY <2>1 DEF Unprocessed
  <2>4. SkippedInAMillisecond /\ Stamped(last_unprocessed_swap_time)
    BY <1>5 DEF BooksInv
  <2>5. /\ SkippedInAMillisecond'
        /\ Stamped(last_unprocessed_swap_time)' /\ Stamped(run.last)'
    BY <1>1, <1>2, <2>4 DEF SkippedInAMillisecond, Stamped, StampAfter
  <2> QED BY <1>1, <1>2, <1>4, <2>1, <2>2, <2>3, <2>5 DEF RunInStep, Swap
<1>6. BooksListed'
  BY <1>2 DEF BooksListed
<1>7. ASSUME InStampOrder, refused = {}
      PROVE  /\ NoneCross(run.saved.complete, last_unprocessed_swap_time)'
             /\ NoneCross(complete, run.past)'
  <2>1. NoneCross(complete, last_unprocessed_swap_time)
    BY <1>1, <1>7 DEF BooksInv
  <2> QED BY <1>1, <1>2, <2>1 DEF NoneCross
<1> QED BY <1>1, <1>2, <1>3, <1>5, <1>6, <1>7 DEF BooksInv

(* What a step within a run has to keep.                                   *)
LEMMA RunGoesOn ==
  ASSUME FillInv, BooksInv, UNCHANGED << table, told, unseen >>,
         run.at # "idle", run'.at # "idle", run'.saved = run.saved,
         refused \subseteq refused',
         InStampOrder => RunInStep',
         InStampOrder /\ RefusedLately' = {} => BooksListed',
         InStampOrder /\ refused' = {} => NoneCross(complete', run'.past)
  PROVE  BooksInv'
<1>1. /\ orders' = orders /\ ids' = ids
      /\ last_unprocessed_swap_time' = last_unprocessed_swap_time
      /\ skipped' = skipped /\ lost' = lost
  BY DEF table, told, unseen
<1>2. Placed' = Placed /\ InStampOrder' = InStampOrder
  BY <1>1 DEF Placed, InStampOrder
<1>3. InStampOrder /\ refused' = {} =>
        /\ NoneCross(run.saved.complete, last_unprocessed_swap_time)'
        /\ NoneCross(complete, run.past)'
  <2> SUFFICES ASSUME InStampOrder, refused' = {}
               PROVE  /\ NoneCross(run.saved.complete, last_unprocessed_swap_time)'
                      /\ NoneCross(complete, run.past)'
    OBVIOUS
  <2>1. refused = {}
    OBVIOUS
  <2>2. /\ NoneCross(run.saved.complete, last_unprocessed_swap_time)
        /\ NoneCross(complete', run'.past)
    BY <2>1 DEF BooksInv
  <2> QED BY <1>1, <1>2, <2>2 DEF NoneCross
<1>4. InStampOrder => /\ SkippedInAMillisecond'
                      /\ Stamped(last_unprocessed_swap_time)'
  BY <1>1, <1>2 DEF BooksInv, SkippedInAMillisecond, Stamped, StampAfter
<1> QED BY <1>2, <1>3, <1>4 DEF BooksInv

(* The stamp a run has come to stays one that a swap has led to.           *)
LEMMA StampStays ==
  ASSUME RunInStep, UNCHANGED table, run'.last = run.last
  PROVE  Stamped(run.last)'
<1>1. Placed' = Placed
  BY DEF table, Placed
<1> QED BY <1>1 DEF RunInStep, Stamped, StampAfter

(* Whatever was refused before the step was refused after it.              *)
LEMMA RefusedStays ==
  ASSUME refused \subseteq refused', UNCHANGED told, RefusedLately' = {}
  PROVE  RefusedLately = {}
BY DEF RefusedLately, told

LEMMA TakeSwapIsInStep ==
  ASSUME FillInv, BooksInv, NEW n \in Swaps, TakeSwap(n)
  PROVE  BooksInv'
<1>1. PICK book \in OppositeBooks(n) :
        run' = [run EXCEPT !.at = "matching", !.swap = n,
                           !.todo = @ \ {n}, !.book = book, !.next = 1,
                           !.opposite_orders_consumed = 0,
                           !.matched_successfully = FALSE]
  BY DEF TakeSwap
<1>2. /\ Oldest(n) /\ run.at = "swaps" /\ n \in run.todo
      /\ \A m \in run.todo : n <= m
      /\ UNCHANGED << table, result, told, refused, unseen >>
  BY DEF TakeSwap, Oldest
<1>3. run \in Runs /\ n \in Placed
  BY <1>2 DEF FillInv, RunSound
<1>4. /\ run'.at = "matching" /\ run'.swap = n /\ run'.book = book
      /\ run'.next = 1 /\ run'.opposite_orders_consumed = 0
      /\ run'.todo = run.todo \ {n} /\ run'.books = run.books
      /\ run'.fulfilled = run.fulfilled
      /\ run'.last = run.last /\ run'.past = run.past /\ run'.saved = run.saved
  BY <1>1, <1>3 DEF Runs
<1>5. /\ orders' = orders /\ ids' = ids /\ complete' = complete
      /\ refused' = refused /\ Placed' = Placed
      /\ last_unprocessed_swap_time' = last_unprocessed_swap_time
  BY <1>2 DEF table, result, told, Placed
<1>6. ASSUME InStampOrder PROVE RunInStep'
  <2>1. RunInStep
    BY <1>2, <1>6 DEF BooksInv
  <2>2. /\ run.todo = {m \in Placed \ complete : m >= run.past /\ m # 0}
        /\ \A o \in run.fulfilled : o.swap \in complete
        /\ run.past \in last_unprocessed_swap_time .. Len(ids) + 1
        /\ \A t \in Tokens :
             run.books[t] # NoBook => run.books[t] \in Seq(Before(run.past))
    BY <1>2, <2>1 DEF RunInStep
  <2>3. Placed = 1 .. Len(ids) /\ Len(ids) \in Nat
    BY <1>6, InOrder DEF FillInv
  <2>4. run'.todo = {m \in Placed \ complete : m >= run.past /\ m # n}
    BY <1>4, <2>2, <2>3
  <2>5. run.past <= n /\ \A m \in run'.todo : n < m
    BY <1>2, <1>4, <2>2, <2>3
  <2>6. n \notin complete /\ [swap |-> n, object |-> "swap"] \notin run.fulfilled
    BY <1>2, <2>2
  <2>7. book \in Seq(Before(run.past))
    BY <1>2, <1>3, <1>6, <2>1, BookInHand
  <2>8. Stamped(run.last)'
    BY <1>2, <1>4, <2>1, StampStays
  <2> QED BY <1>4, <1>5, <2>2, <2>4, <2>5, <2>6, <2>7, <2>8
             DEF RunInStep, Swap, SwapObject, Before
<1>7. ASSUME InStampOrder, RefusedLately' = {} PROVE BooksListed'
  <2>1. RefusedLately = {}
    BY <1>2, <1>5, <1>7, RefusedStays
  <2>2. RunInStep /\ BooksListed
    BY <1>2, <1>7, <2>1 DEF BooksInv
  <2>3. ListsFrom(1, book, OpenBefore(OppositeSide(n), run.past))
    BY <1>2, <1>3, <1>7, <2>2, BookInHand
  <2>4. \A t \in Tokens : run.books[t] # NoBook
          => ListsFrom(1, run.books[t], OpenBefore(t, run.past))
    BY <1>2, <2>2 DEF BooksListed
  <2>5. \A t : OpenBefore(t, run.past)' = OpenBefore(t, run.past)
    BY <1>4, <1>5 DEF OpenBefore
  <2>6. OppositeSide(Swap)' = OppositeSide(n)
    BY <1>4, <1>5 DEF OppositeSide, Swap
  <2>7. \A k, b, S : ListsFrom(k, b, S)' = ListsFrom(k, b, S)
    BY <1>5 DEF ListsFrom, Better
  <2>8. Behind' = 1
    BY <1>4 DEF Behind
  <2>9. ListsFrom(Behind, run.book, OpenBefore(OppositeSide(Swap), run.past))'
    BY <1>4, <1>5, <2>3, <2>6, <2>8 DEF ListsFrom, OpenBefore, Better
  <2>10. \A t \in Tokens : run'.books[t] # NoBook
          => ListsFrom(1, run.books[t], OpenBefore(t, run.past))'
    BY <1>4, <1>5, <2>4 DEF ListsFrom, OpenBefore, Better
  <2> QED BY <1>4, <2>8, <2>9, <2>10 DEF BooksListed
<1>8. InStampOrder /\ refused' = {} => NoneCross(complete', run'.past)
  BY <1>2, <1>4, <1>5 DEF BooksInv
<1> QED BY <1>2, <1>4, <1>5, <1>6, <1>7, <1>8, RunGoesOn

(* While nothing of the run was refused, the entry the loop looks at is an *)
(* order that is still open: all entries before it were consumed.          *)
LEMMA HeadIsOpen ==
  ASSUME FillInv, BooksInv, InStampOrder, RefusedLately = {}, Looking
  PROVE  /\ run.next = Behind
         /\ run.next \in 1 .. Len(run.book)
         /\ run.book \in Seq(Objects)
         /\ ListsFrom(run.next, run.book, OpenBefore(OppositeSide(Swap), run.past))
         /\ Opposite \in OpenBefore(OppositeSide(Swap), run.past)
<1>1. /\ run.at = "matching" /\ SwapObject \notin run.fulfilled
      /\ run.next <= Len(run.book)
  BY DEF Looking
<1>2. RunInStep /\ BooksListed
  BY <1>1 DEF BooksInv
<1>3. Swap \notin complete
  BY <1>1, <1>2 DEF RunInStep
<1>4. /\ run.next = Behind
      /\ ListsFrom(Behind, run.book, OpenBefore(OppositeSide(Swap), run.past))
  BY <1>1, <1>2, <1>3 DEF BooksListed
<1>5. run.book \in Seq(Objects) /\ run.next \in Nat \ {0}
  BY DEF FillInv, RunSound, Runs
<1>6. run.next \in 1 .. Len(run.book)
  BY <1>1, <1>5, LenProperties
<1> QED BY <1>4, <1>5, <1>6, ListBehind DEF Opposite

(* What the loop changes of the run.                                       *)
LEMMA SkipFulfilledIsInStep ==
  ASSUME FillInv, BooksInv, SkipFulfilled
  PROVE  BooksInv'
<1>1. /\ Looking /\ run.at = "matching"
      /\ run.book[run.next] \in run.fulfilled
      /\ run' = [run EXCEPT !.next = @ + 1, !.opposite_orders_consumed = @ + 1]
      /\ UNCHANGED << table, result, told, refused, unseen >>
  BY DEF SkipFulfilled, Looking
<1>2. run \in Runs
  BY DEF FillInv, RunSound
<1>3. /\ run'.at = "matching" /\ run'.swap = run.swap /\ run'.book = run.book
      /\ run'.todo = run.todo /\ run'.books = run.books
      /\ run'.fulfilled = run.fulfilled
      /\ run'.last = run.last /\ run'.past = run.past /\ run'.saved = run.saved
  BY <1>1, <1>2 DEF Runs
<1>4. /\ orders' = orders /\ ids' = ids /\ complete' = complete
      /\ refused' = refused /\ Placed' = Placed
      /\ last_unprocessed_swap_time' = last_unprocessed_swap_time
  BY <1>1 DEF table, result, told, Placed
<1>5. ASSUME InStampOrder PROVE RunInStep /\ RunInStep'
  <2>1. RunInStep
    BY <1>1, <1>5 DEF BooksInv
  <2>2. Before(run.past)' = Before(run.past) /\ Swap' = Swap
        /\ SwapObject' = SwapObject
    BY <1>3 DEF Before, Swap, SwapObject
  <2>3. Stamped(run.last)'
    BY <1>1, <1>3, <2>1, StampStays
  <2> QED BY <1>1, <1>3, <1>4, <2>1, <2>2, <2>3 DEF RunInStep
<1>6. ~(InStampOrder /\ RefusedLately' = {})
  <2> SUFFICES ASSUME InStampOrder, RefusedLately' = {} PROVE FALSE
    OBVIOUS
  <2>1. RefusedLately = {}
    BY <1>1, <1>4, RefusedStays
  <2>2. Opposite \notin complete
    BY <1>1, <2>1, HeadIsOpen DEF OpenBefore
  <2>3. Opposite \in complete
    BY <1>1, <1>5 DEF RunInStep, Opposite
  <2> QED BY <2>2, <2>3
<1>7. InStampOrder /\ refused' = {} => NoneCross(complete', run'.past)
  BY <1>1, <1>3, <1>4 DEF BooksInv
<1> QED BY <1>1, <1>3, <1>4, <1>5, <1>6, <1>7, RunGoesOn

LEMMA RefuseMatchIsInStep ==
  ASSUME FillInv, BooksInv, RefuseMatch
  PROVE  BooksInv'
<1>1. /\ run.at = "matching"
      /\ run' = [run EXCEPT !.next = @ + 1, !.matched_successfully = FALSE]
      /\ refused' = refused \cup {<< Swap, Opposite >>}
      /\ UNCHANGED << table, result, told, unseen >>
  BY DEF RefuseMatch, Matching, Looking
<1>2. run \in Runs
  BY DEF FillInv, RunSound
<1>3. /\ run'.at = "matching" /\ run'.swap = run.swap /\ run'.book = run.book
      /\ run'.todo = run.todo /\ run'.books = run.books
      /\ run'.fulfilled = run.fulfilled
      /\ run'.last = run.last /\ run'.past = run.past /\ run'.saved = run.saved
  BY <1>1, <1>2 DEF Runs
<1>4. /\ orders' = orders /\ ids' = ids /\ complete' = complete
      /\ Placed' = Placed
      /\ last_unprocessed_swap_time' = last_unprocessed_swap_time
  BY <1>1 DEF table, result, told, Placed
<1>5. ASSUME InStampOrder PROVE RunInStep /\ RunInStep'
  <2>1. RunInStep
    BY <1>1, <1>5 DEF BooksInv
  <2>2. Before(run.past)' = Before(run.past) /\ Swap' = Swap
        /\ SwapObject' = SwapObject
    BY <1>3 DEF Before, Swap, SwapObject
  <2>3. Stamped(run.last)'
    BY <1>1, <1>3, <2>1, StampStays
  <2> QED BY <1>1, <1>3, <1>4, <2>1, <2>2, <2>3 DEF RunInStep
<1>6. InStampOrder => RefusedLately' # {}
  <2> SUFFICES ASSUME InStampOrder PROVE << Swap, Opposite >> \in RefusedLately'
    OBVIOUS
  <2>1. /\ run.past \in last_unprocessed_swap_time .. Len(ids) + 1
        /\ run.past <= Swap
    BY <1>1, <1>5 DEF RunInStep
  <2>2. /\ Swap \in Placed /\ Placed = 1 .. Len(ids) /\ Len(ids) \in Nat
        /\ last_unprocessed_swap_time \in Nat
    BY <1>1, InOrder DEF FillInv, TypeOK, RunSound, Swap
  <2>3. Swap >= last_unprocessed_swap_time
    BY <2>1, <2>2
  <2> QED BY <1>1, <1>4, <2>3 DEF RefusedLately
<1>7. refused' # {}
  BY <1>1
<1> QED BY <1>1, <1>3, <1>5, <1>6, <1>7, RunGoesOn

(* A match closes an order from before the last stamp, the swap or both,   *)
(* so that what is still to take stays; and if it does not consume the     *)
(* entry, the loop ends with it.                                           *)
LEMMA MatchOrdersIsInStep ==
  ASSUME FillInv, BooksInv, MatchOrders
  PROVE  BooksInv'
<1> DEFINE S == OpenBefore(OppositeSide(Swap), run.past)
<1>1. /\ Matching /\ Looking /\ run.at = "matching"
      /\ SwapObject \notin run.fulfilled
      /\ complete' = complete \cup Done
      /\ run' = [run EXCEPT
           !.next = @ + 1,
           !.matched_successfully = TRUE,
           !.opposite_orders_consumed = IF Opposite \in Done THEN @ + 1 ELSE @,
           !.fulfilled = @ \cup {object \in {SwapObject, run.book[run.next]} :
                                   object.swap \in Done}]
      /\ UNCHANGED << table, told, refused, unseen >>
  BY DEF MatchOrders, Matching, Looking
<1>2. run \in Runs
  BY DEF FillInv, RunSound
<1>3. /\ run'.at = "matching" /\ run'.swap = run.swap /\ run'.book = run.book
      /\ run'.todo = run.todo /\ run'.books = run.books
      /\ run'.last = run.last /\ run'.past = run.past /\ run'.saved = run.saved
      /\ run'.next = run.next + 1
      /\ run'.opposite_orders_consumed =
           IF Opposite \in Done THEN run.opposite_orders_consumed + 1
           ELSE run.opposite_orders_consumed
      /\ run'.fulfilled = run.fulfilled \cup
           {object \in {SwapObject, run.book[run.next]} : object.swap \in Done}
  BY <1>1, <1>2 DEF Runs
<1>4. /\ orders' = orders /\ ids' = ids /\ refused' = refused
      /\ Placed' = Placed
      /\ last_unprocessed_swap_time' = last_unprocessed_swap_time
  BY <1>1 DEF table, told, Placed
<1>5. /\ run.next \in 1 .. Len(run.book) /\ Len(run.book) \in Nat
      /\ run.opposite_orders_consumed \in Nat
  <2>1. run.next <= Len(run.book)
    BY <1>1 DEF Looking
  <2> QED BY <1>2, <2>1, LenProperties DEF Runs
<1>6. Done \subseteq {Swap, Opposite}
  BY DEF Done, Pair
<1>7. ASSUME InStampOrder
      PROVE  /\ RunInStep
             /\ Placed = 1 .. Len(ids) /\ Len(ids) \in Nat
             /\ Swap \in Placed /\ Opposite \in Placed
             /\ run.past \in Int /\ run.past <= Swap /\ Opposite < run.past
             /\ Swap \notin complete
  <2>1. RunInStep
    BY <1>1, <1>7 DEF BooksInv
  <2>2. run.book \in Seq(Before(run.past))
    BY <1>1, <2>1 DEF RunInStep
  <2>3. run.book[run.next] \in Before(run.past)
    BY <1>5, <2>2, ElementOfSeq
  <2>4. Opposite < run.past
    BY <2>3 DEF Before, Opposite
  <2>5. run.past <= Swap /\ Swap \notin complete
    BY <1>1, <2>1 DEF RunInStep
  <2>6. run.past \in Int
    BY <2>1 DEF RunInStep
  <2> QED BY <1>1, <1>7, <2>1, <2>4, <2>5, <2>6, InOrder, TheTwoDiffer DEF FillInv
<1>8. ASSUME InStampOrder PROVE RunInStep'
  <2>1. /\ run.past \in last_unprocessed_swap_time .. Len(ids) + 1
        /\ run.todo = {m \in Placed \ complete : m >= run.past /\ m # Swap}
        /\ \A o \in run.fulfilled : o.swap \in complete
        /\ \A t \in Tokens :
             run.books[t] # NoBook => run.books[t] \in Seq(Before(run.past))
        /\ run.past <= Swap
        /\ \A m \in run.todo : Swap < m
        /\ run.book \in Seq(Before(run.past))
    BY <1>1, <1>7, <1>8 DEF RunInStep
  <2>2. \A m \in Placed : m >= run.past /\ m # Swap => m \notin Done
    BY <1>6, <1>7, <1>8
  <2>3. run'.todo = {m \in Placed \ complete' : m >= run.past /\ m # Swap}
    BY <1>1, <1>3, <2>1, <2>2
  <2>4. \A o \in run'.fulfilled : o.swap \in complete'
    BY <1>1, <1>3, <2>1
  <2>5. Swap \in complete' <=> SwapObject \in run'.fulfilled
    BY <1>1, <1>3, <1>7, <1>8 DEF SwapObject
  <2>6. Before(run.past)' = Before(run.past) /\ Swap' = Swap
        /\ SwapObject' = SwapObject
    BY <1>3 DEF Before, Swap, SwapObject
  <2>7. Stamped(run.last)'
    BY <1>1, <1>3, <1>7, <1>8, StampStays
  <2> QED BY <1>3, <1>4, <2>1, <2>3, <2>4, <2>5, <2>6, <2>7 DEF RunInStep
<1>9. ASSUME InStampOrder, RefusedLately' = {} PROVE BooksListed'
  <2>1. RefusedLately = {}
    BY <1>1, <1>4, <1>9, RefusedStays
  <2>2. /\ run.next = Behind /\ run.book \in Seq(Objects)
        /\ ListsFrom(run.next, run.book, S)
        /\ Opposite \in S
    BY <1>1, <1>9, <2>1, HeadIsOpen
  <2>3. BooksListed
    BY <1>1, <1>9, <2>1 DEF BooksInv
  <2>4. OppositeSide(Swap) # orders[Swap].pays
    BY <1>7, <1>9, OtherSide DEF FillInv
  <2>5. ASSUME NEW t \in Tokens
        PROVE  OpenBefore(t, run.past)' = OpenBefore(t, run.past) \ Done
    BY <1>1, <1>3, <1>4 DEF OpenBefore
  <2>6. \A t : Swap \notin OpenBefore(t, run.past)
    BY <1>7, <1>9 DEF OpenBefore
  <2>7. orders[Opposite].pays = OppositeSide(Swap)
    BY <2>2 DEF OpenBefore
  <2>8. OpenBefore(orders[Swap].pays, run.past) \ Done
          = OpenBefore(orders[Swap].pays, run.past)
    BY <1>6, <2>4, <2>6, <2>7 DEF OpenBefore
  <2>9. OppositeSide(Swap) \in Tokens /\ orders[Swap].pays \in Tokens
    BY <1>7, <1>9, OtherSide DEF FillInv
  <2>10. Swap' = Swap /\ OppositeSide(Swap)' = OppositeSide(Swap)
    BY <1>3, <1>4 DEF Swap, OppositeSide
  <2>11. Behind' = IF Opposite \in Done THEN Behind + 1 ELSE Behind
    BY <1>3, <1>5 DEF Behind
  <2>12. run'.next # Behind' => run'.next = Behind' + 1 /\ Swap \in complete'
    <3>1. Swap \in Done \/ Opposite \in Done
      BY <1>1, OneIsDone
    <3> QED BY <1>1, <1>3, <1>5, <2>2, <2>11, <3>1
  <2>13. ListsFrom(Behind', run.book, S \ Done)
    <3>1. CASE Opposite \in Done
      <4>1. S \ Done = S \ {Opposite}
        BY <1>6, <2>6, <3>1
      <4>2. ListsFrom(run.next + 1, run.book, S \ {Opposite})
        BY <1>5, <2>2, ListBehind DEF Opposite
      <4> QED BY <2>2, <2>11, <3>1, <4>1, <4>2
    <3>2. CASE Opposite \notin Done
      <4>1. S \ Done = S
        BY <1>6, <2>6, <3>2
      <4> QED BY <2>2, <2>11, <3>2, <4>1
    <3> QED BY <3>1, <3>2
  <2>14. ListsFrom(Behind, run.book, OpenBefore(OppositeSide(Swap), run.past))'
    <3>1. OpenBefore(OppositeSide(Swap), run.past)' = S \ Done
      BY <2>5, <2>9, <2>10 DEF OpenBefore
    <3> QED BY <1>3, <1>4, <2>13, <3>1 DEF ListsFrom, Better
  <2>15. ASSUME NEW t \in Tokens, run'.books[t] # NoBook, t = orders[Swap].pays
         PROVE  ListsFrom(1, run.books[t], OpenBefore(t, run.past))'
    <3>1. ListsFrom(1, run.books[t], OpenBefore(t, run.past))
      BY <1>1, <1>3, <2>3, <2>15 DEF BooksListed
    <3>2. OpenBefore(t, run.past)' = OpenBefore(t, run.past)
      BY <2>5, <2>8, <2>15
    <3> QED BY <1>3, <1>4, <3>1, <3>2 DEF ListsFrom, Better
  <2> QED BY <1>3, <1>4, <2>10, <2>12, <2>14, <2>15 DEF BooksListed
<1>10. InStampOrder /\ refused' = {} => NoneCross(complete', run'.past)
  <2> SUFFICES ASSUME InStampOrder, refused' = {}
               PROVE  NoneCross(complete', run'.past)
    OBVIOUS
  <2>1. NoneCross(complete, run.past)
    BY <1>1, <1>4 DEF BooksInv
  <2> QED BY <1>1, <1>3, <2>1 DEF NoneCross
<1> QED BY <1>1, <1>3, <1>4, <1>8, <1>9, <1>10, RunGoesOn

(* After the loop what is left of the book is what is open on its side,    *)
(* and an open swap joins the book of its own side; none of the orders     *)
(* that were not looked at crosses with it, the best of them did not.      *)
LEMMA EndSwapIsInStep ==
  ASSUME FillInv, BooksInv, EndSwap
  PROVE  BooksInv'
<1> DEFINE own == orders[Swap].pays
           other == OppositeSide(Swap)
           rest == SubSeq(run.book, run.opposite_orders_consumed + 1,
                          Len(run.book))
           joins == SwapObject \notin run.fulfilled /\ run.books[own] # NoBook
           joined == AddTo(run.books[own], SwapObject)
           last == Swap + 1
<1>1. /\ run.at = "matching" /\ ~Looking
      /\ UNCHANGED << table, result, told, refused, unseen >>
  BY DEF EndSwap
<1>2. /\ run \in Runs /\ Swap \in Placed
      /\ run.book \in Seq(Entries(other))
  BY <1>1 DEF FillInv, RunSound, Swap
<1>3. /\ own \in Tokens /\ other \in Tokens /\ other # own
      /\ \A t \in Tokens : t = own \/ t = other
      /\ run.books \in [Tokens -> {NoBook} \cup Seq(Objects)]
  BY <1>2, OtherSide DEF FillInv, Runs
<1>4. /\ run'.at = "swaps" /\ run'.swap = 0
      /\ run'.todo = run.todo /\ run'.fulfilled = run.fulfilled
      /\ run'.last = StampAfter(Swap) /\ run'.past = last /\ run'.saved = run.saved
      /\ run'.books = [run.books EXCEPT ![other] = rest,
                                        ![own] = IF joins THEN AddTo(@, SwapObject)
                                                 ELSE @]
  BY <1>2 DEF EndSwap, Runs
<1>5. /\ run'.books[other] = rest
      /\ run'.books[own] = IF joins THEN joined ELSE run.books[own]
  <2> HIDE DEF rest, own, other
  <2> QED BY <1>3, <1>4
<1>6. /\ orders' = orders /\ ids' = ids /\ complete' = complete
      /\ refused' = refused /\ Placed' = Placed
      /\ last_unprocessed_swap_time' = last_unprocessed_swap_time
      /\ skipped' = skipped /\ lost' = lost
  BY <1>1 DEF table, result, told, unseen, Placed
<1>7. ASSUME InStampOrder
      PROVE  /\ RunInStep
             /\ Placed = 1 .. Len(ids) /\ Len(ids) \in Nat
             /\ run.past \in Int /\ run.past <= Swap
             /\ run.past < last /\ last = Swap + 1
             /\ \A m \in Placed \ complete : m < last => m < run.past \/ m = Swap
             /\ Swap \in complete <=> SwapObject \in run.fulfilled
  <2>1. RunInStep
    BY <1>1, <1>7 DEF BooksInv
  <2>2. /\ run.past \in last_unprocessed_swap_time .. Len(ids) + 1
        /\ run.todo = {m \in Placed \ complete : m >= run.past /\ m # Swap}
        /\ run.past <= Swap
        /\ \A m \in run.todo : Swap < m
        /\ Swap \in complete <=> SwapObject \in run.fulfilled
    BY <1>1, <2>1 DEF RunInStep
  <2>3. Placed = 1 .. Len(ids) /\ Len(ids) \in Nat
    BY <1>7, InOrder DEF FillInv
  <2>4. run.past \in Int /\ last = Swap + 1
    BY <2>2
  <2>5. run.past < last
    BY <1>2, <2>2, <2>3, <2>4
  <2>6. ASSUME NEW m \in Placed \ complete, m < last
        PROVE  m < run.past \/ m = Swap
    BY <1>2, <2>2, <2>3, <2>4, <2>6
  <2> QED BY <2>1, <2>2, <2>3, <2>4, <2>5, <2>6
<1>8. ASSUME InStampOrder PROVE RunInStep'
  <2>1. /\ run.past \in last_unprocessed_swap_time .. Len(ids) + 1
        /\ run.todo = {m \in Placed \ complete : m >= run.past /\ m # Swap}
        /\ \A o \in run.fulfilled : o.swap \in complete
        /\ \A t \in Tokens :
             run.books[t] # NoBook => run.books[t] \in Seq(Before(run.past))
        /\ \A m \in run.todo : Swap < m
        /\ run.book \in Seq(Before(run.past))
    BY <1>1, <1>7, <1>8 DEF RunInStep
  <2>2. last_unprocessed_swap_time \in Nat
    BY DEF FillInv, TypeOK
  <2>3. last \in last_unprocessed_swap_time .. Len(ids) + 1
    BY <1>2, <1>7, <1>8, <2>1, <2>2
  <2>4. run.todo = {m \in Placed \ complete : m >= last /\ m # 0}
    BY <1>2, <1>7, <1>8, <2>1
  <2>5. Before(run.past) \subseteq Before(last)
    <3>1. \A o \in Objects : o.swap \in Int
      BY DEF Objects, Swaps
    <3>2. last \in Int
      BY <1>2, <1>7, <1>8
    <3> HIDE DEF last
    <3> QED BY <1>7, <1>8, <3>1, <3>2 DEF Before
  <2>6. Seq(Before(run.past)) \subseteq Seq(Before(last))
    BY <2>5, SeqMonotonic
  <2>7. rest \in Seq(Before(last))
    BY <1>2, <2>1, <2>6, RestOfBook DEF Runs
  <2>8. run.books[own] # NoBook => joined \in Seq(Before(last))
    <3>1. SwapObject \in Before(last)
      BY <1>2, <1>7, <1>8, PlacedAreSwaps
         DEF FillInv, SwapObject, Objects, Before
    <3> QED BY <1>3, <2>1, <2>6, <3>1, JoinedBook
  <2>9. \A t \in Tokens :
          run'.books[t] # NoBook => run'.books[t] \in Seq(Before(last))
    <3> HIDE DEF rest, joined, last, own, other
    <3> QED BY <1>3, <1>5, <2>1, <2>6, <2>7, <2>8 DEF joins
  <2>10. /\ run'.at = "swaps" /\ Swap' = 0
         /\ run'.past \in last_unprocessed_swap_time' .. Len(ids') + 1
         /\ run'.todo = {m \in Placed' \ complete' : m >= run'.past /\ m # Swap'}
         /\ \A o \in run'.fulfilled : o.swap \in complete'
         /\ Before(run.past)' = Before(last)
    BY <1>4, <1>6, <2>1, <2>3, <2>4 DEF Swap, Before
  <2>11. Stamped(run.last)'
    BY <1>2, <1>4, <1>6 DEF Stamped, StampAfter
  <2> QED BY <2>9, <2>10, <2>11 DEF RunInStep
<1>9. ASSUME InStampOrder, RefusedLately = {}
      PROVE  /\ BooksListed
             /\ ListsFrom(Behind, run.book, OpenBefore(other, run.past))
             /\ Swap \notin complete => run.next = Behind
  <2>1. BooksListed
    BY <1>1, <1>9 DEF BooksInv
  <2> QED BY <1>1, <2>1 DEF BooksListed
<1>10. ASSUME InStampOrder, RefusedLately' = {} PROVE BooksListed'
  <2>1. RefusedLately = {}
    BY <1>1, <1>6, <1>10, RefusedStays
  <2>2. /\ BooksListed
        /\ ListsFrom(Behind, run.book, OpenBefore(other, run.past))
    BY <1>9, <1>10, <2>1
  <2>3. OpenBefore(other, last) = OpenBefore(other, run.past)
    <3>1. \A m \in Placed \ complete :
            orders[m].pays = other => (m < last <=> m < run.past)
      BY <1>2, <1>3, <1>7, <1>10
    <3> QED BY <3>1 DEF OpenBefore
  <2>4. OpenBefore(own, last) = OpenBefore(own, run.past)
                                  \cup (IF Swap \in complete THEN {} ELSE {Swap})
    <3>1. \A m \in Placed \ complete : m < last <=> m < run.past \/ m = Swap
      BY <1>2, <1>7, <1>10
    <3> QED BY <1>2, <3>1 DEF OpenBefore
  <2>5. ListsFrom(1, rest, OpenBefore(other, last))
    <3>1. run.opposite_orders_consumed \in Nat /\ run.book \in Seq(Objects)
      BY <1>2 DEF Runs
    <3> QED BY <2>2, <2>3, <3>1, RestLists DEF Behind
  <2>6. ASSUME run.books[own] # NoBook
        PROVE  ListsFrom(1, run.books[own], OpenBefore(own, run.past))
    BY <1>1, <1>3, <2>2, <2>6 DEF BooksListed
  <2>7. ASSUME run'.books[own] # NoBook
        PROVE  ListsFrom(1, run'.books[own], OpenBefore(own, last))
    <3>1. CASE joins
      <4>1. run.books[own] \in Seq(Objects)
        BY <1>3, <3>1
      <4>2. OpenBefore(own, run.past) \in SUBSET Placed
        BY DEF OpenBefore
      <4>3. SwapObject \in Objects /\ SwapObject.swap = Swap
        BY <1>2, PlacedAreSwaps DEF FillInv, SwapObject, Objects
      <4>4. Swap \in Placed \ OpenBefore(own, run.past)
        BY <1>2, <1>7, <1>10 DEF OpenBefore
      <4>5. TypeOK
        BY DEF FillInv
      <4>6. ListsFrom(1, joined, OpenBefore(own, run.past) \cup {Swap})
        BY <2>6, <3>1, <4>1, <4>2, <4>3, <4>4, <4>5, JoinLists
      <4> QED BY <1>5, <1>7, <1>10, <2>4, <3>1, <4>6
    <3>2. CASE ~joins
      <4>1. run'.books[own] = run.books[own] /\ Swap \in complete
        BY <1>5, <1>7, <1>10, <2>7, <3>2
      <4> QED BY <2>4, <2>6, <2>7, <4>1
    <3> QED BY <3>1, <3>2
  <2>8. ASSUME NEW t \in Tokens, run'.books[t] # NoBook
        PROVE  ListsFrom(1, run.books[t], OpenBefore(t, run.past))'
    <3>1. ListsFrom(1, run'.books[t], OpenBefore(t, last))
      <4> HIDE DEF own, other, rest, last
      <4> QED BY <1>3, <1>5, <2>5, <2>7, <2>8
    <3>2. OpenBefore(t, run.past)' = OpenBefore(t, last)
      BY <1>4, <1>6 DEF OpenBefore
    <3> QED BY <1>6, <3>1, <3>2 DEF ListsFrom, Better
  <2> QED BY <1>4, <2>8 DEF BooksListed
<1>11. ASSUME InStampOrder, refused' = {} PROVE NoneCross(complete', run'.past)
  <2>1. RefusedLately = {}
    BY <1>6, <1>11 DEF RefusedLately
  <2>2. NoneCross(complete, run.past)
    BY <1>1, <1>6, <1>11 DEF BooksInv
  <2>3. ASSUME NEW m \in Placed \ complete, Swap \notin complete, m < Swap,
               orders[m].pays # orders[Swap].pays
        PROVE  ~Crosses(orders[Swap], orders[m])
    <3>1. m \in OpenBefore(other, run.past)
      <4>1. m < run.past
        BY <1>2, <1>7, <1>11, <2>3
      <4>2. orders[m].pays = other
        BY <1>2, <1>3, <2>3, OtherSide DEF FillInv
      <4> QED BY <4>1, <4>2 DEF OpenBefore
    <3>2. /\ ListsFrom(run.next, run.book, OpenBefore(other, run.past))
          /\ SwapObject \notin run.fulfilled
      BY <1>7, <1>9, <1>11, <2>1, <2>3
    <3>3. PICK i \in run.next .. Len(run.book) : run.book[i].swap = m
      BY <3>1, <3>2 DEF ListsFrom
    <3>4. run.next \in Nat \ {0} /\ Len(run.book) \in Nat
      BY <1>2, LenProperties DEF Runs
    <3>5. run.next <= Len(run.book) /\ run.next \in run.next .. Len(run.book)
      BY <3>3, <3>4
    <3>6. ~Crosses(orders[Swap], orders[Opposite])
      BY <1>1, <3>2, <3>5 DEF Looking
    <3>7. CASE i = run.next
      BY <3>3, <3>6, <3>7 DEF Opposite
    <3>8. CASE i # run.next
      <4>1. run.next < i
        BY <3>3, <3>4, <3>8
      <4>2. ~Better(m, Opposite)
        BY <3>2, <3>3, <3>5, <4>1 DEF ListsFrom, Opposite
      <4>3. Opposite \in Placed
        BY <3>2, <3>5 DEF ListsFrom, OpenBefore, Opposite
      <4>4. TypeOK
        BY DEF FillInv
      <4> QED BY <1>2, <3>6, <4>2, <4>3, <4>4, WorseDoesNotCross
    <3> QED BY <3>7, <3>8
  <2>4. ASSUME NEW m \in Placed \ complete, NEW n \in Placed \ complete,
               m < n, n < last, orders[m].pays # orders[n].pays,
               n \notin skipped \cup lost
        PROVE  ~Crosses(orders[n], orders[m])
    <3>1. CASE n < run.past
      BY <2>2, <2>4, <3>1 DEF NoneCross
    <3>2. CASE n = Swap
      BY <2>3, <2>4, <3>2
    <3> QED BY <1>7, <1>11, <2>4, <3>1, <3>2
  <2> QED BY <1>4, <1>6, <2>4 DEF NoneCross
<1> QED BY <1>1, <1>4, <1>6, <1>8, <1>10, <1>11, RunGoesOn

(* A committed run leaves no open orders that cross among those it looked  *)
(* at, and behind them there are none before its stamp; one that is rolled *)
(* back has looked at none, and if its stamp stays all it took are lost.   *)
LEMMA CommitRunIsInStep ==
  ASSUME FillInv, BooksInv, CommitRun
  PROVE  BooksInv'
<1>1. /\ run.at = "swaps" /\ run.todo = {} /\ run' = NoRun
      /\ last_unprocessed_swap_time' = run.last
      /\ orders' = orders /\ ids' = ids /\ complete' = complete
      /\ refused' = refused /\ Placed' = Placed
      /\ skipped' = skipped /\ lost' = lost
  BY DEF CommitRun, table, result, unseen, Placed
<1>2. run'.at = "idle"
  BY <1>1 DEF NoRun
<1>3. InStampOrder' <=> InStampOrder
  BY <1>1 DEF InStampOrder
<1>4. ASSUME InStampOrder
      PROVE  SkippedInAMillisecond' /\ Stamped(last_unprocessed_swap_time)'
  <2>1. RunInStep /\ SkippedInAMillisecond
    BY <1>1, <1>4 DEF BooksInv
  <2> QED BY <1>1, <2>1
          DEF RunInStep, SkippedInAMillisecond, Stamped, StampAfter
<1>5. ASSUME InStampOrder, refused' = {}
      PROVE  NoneCross(complete, last_unprocessed_swap_time)'
  <2>1. NoneCross(complete, run.past) /\ RunInStep
    BY <1>1, <1>5 DEF BooksInv
  <2>2. {m \in Placed \ complete : m >= run.past /\ m # 0} = {}
        /\ run.past \in Int
    BY <1>1, <2>1 DEF RunInStep
  <2>3. Placed = 1 .. Len(ids)
    BY <1>5, InOrder DEF FillInv
  <2>4. \A n \in Placed \ complete : n < run.past
    BY <2>2, <2>3
  <2> QED BY <1>1, <2>1, <2>4 DEF NoneCross
<1> QED BY <1>2, <1>3, <1>4, <1>5 DEF BooksInv

LEMMA CrashAtCommitIsInStep ==
  ASSUME FillInv, BooksInv, CrashAtCommit
  PROVE  BooksInv'
<1>1. /\ run.at = "swaps" /\ run' = NoRun /\ complete' = run.saved.complete
      /\ last_unprocessed_swap_time' = run.last
      /\ orders' = orders /\ ids' = ids
      /\ refused' = refused /\ Placed' = Placed
      /\ skipped' = skipped /\ lost' = lost \cup Begun
  BY DEF CrashAtCommit, Restore, table, Placed
<1>2. run'.at = "idle"
  BY <1>1 DEF NoRun
<1>3. InStampOrder' <=> InStampOrder
  BY <1>1 DEF InStampOrder
<1>4. ASSUME InStampOrder
      PROVE  SkippedInAMillisecond' /\ Stamped(last_unprocessed_swap_time)'
  <2>1. RunInStep /\ SkippedInAMillisecond
    BY <1>1, <1>4 DEF BooksInv
  <2> QED BY <1>1, <2>1
          DEF RunInStep, SkippedInAMillisecond, Stamped, StampAfter
<1>5. ASSUME InStampOrder, refused' = {}
      PROVE  NoneCross(complete, last_unprocessed_swap_time)'
  <2>1. NoneCross(run.saved.complete, last_unprocessed_swap_time)
    BY <1>1, <1>5 DEF BooksInv
  <2>2. last_unprocessed_swap_time \in Int /\ Placed = 1 .. Len(ids)
    BY <1>5, InOrder DEF FillInv, TypeOK
  <2>3. \A n \in Placed \ run.saved.complete :
          n \in lost' \/ n < last_unprocessed_swap_time
    BY <1>1, <2>2 DEF Begun
  <2> QED BY <1>1, <2>1, <2>3 DEF NoneCross
<1> QED BY <1>2, <1>3, <1>4, <1>5 DEF BooksInv

LEMMA RollbackIsInStep ==
  ASSUME FillInv, BooksInv, run.at # "idle", Rollback
  PROVE  BooksInv'
<1>1. /\ run' = NoRun /\ complete' = run.saved.complete
      /\ last_unprocessed_swap_time' = last_unprocessed_swap_time
      /\ orders' = orders /\ ids' = ids
      /\ refused' = refused /\ Placed' = Placed
      /\ skipped' = skipped /\ lost' = lost
  BY DEF Rollback, Restore, table, told, unseen, Placed
<1>2. run'.at = "idle"
  BY <1>1 DEF NoRun
<1>3. InStampOrder' <=> InStampOrder
  BY <1>1 DEF InStampOrder
<1>4. ASSUME InStampOrder
      PROVE  SkippedInAMillisecond' /\ Stamped(last_unprocessed_swap_time)'
  <2>1. SkippedInAMillisecond /\ Stamped(last_unprocessed_swap_time)
    BY <1>4 DEF BooksInv
  <2> QED BY <1>1, <2>1 DEF SkippedInAMillisecond, Stamped, StampAfter
<1>5. ASSUME InStampOrder, refused' = {}
      PROVE  NoneCross(complete, last_unprocessed_swap_time)'
  <2>1. NoneCross(run.saved.complete, last_unprocessed_swap_time)
    BY <1>1, <1>5 DEF BooksInv
  <2> QED BY <1>1, <2>1 DEF NoneCross
<1> QED BY <1>2, <1>3, <1>4, <1>5 DEF BooksInv

LEMMA NextIsInStep == FillInv /\ BooksInv /\ [Next]_vars => BooksInv'
<1> SUFFICES ASSUME FillInv, BooksInv, [Next]_vars PROVE BooksInv'
  OBVIOUS
<1>1. ASSUME NEW n \in Swaps, CreateSwap(n) PROVE BooksInv'
  BY <1>1, CreateSwapIsInStep
<1>2. CASE StartRun
  BY <1>2, StartRunIsInStep
<1>3. ASSUME NEW n \in Swaps, TakeSwap(n) PROVE BooksInv'
  BY <1>3, TakeSwapIsInStep
<1>4. ASSUME NEW n \in Swaps, FailSizeAssertion(n) PROVE BooksInv'
  <2>1. run.at # "idle" /\ Rollback
    BY <1>4 DEF FailSizeAssertion, Oldest
  <2> QED BY <2>1, RollbackIsInStep
<1>5. CASE SkipFulfilled
  BY <1>5, SkipFulfilledIsInStep
<1>6. CASE RefuseMatch
  BY <1>6, RefuseMatchIsInStep
<1>7. CASE MatchOrders
  BY <1>7, MatchOrdersIsInStep
<1>8. CASE FailMatchAssertion
  <2>1. run.at # "idle" /\ Rollback
    BY <1>8 DEF FailMatchAssertion, Matching, Looking
  <2> QED BY <2>1, RollbackIsInStep
<1>9. CASE EndSwap
  BY <1>9, EndSwapIsInStep
<1>10. CASE CommitRun
  BY <1>10, CommitRunIsInStep
<1>11. CASE CrashRun
  BY <1>11, RollbackIsInStep DEF CrashRun
<1>12. CASE CrashAtCommit
  BY <1>12, CrashAtCommitIsInStep
<1>13. CASE UNCHANGED vars
  <2>1. /\ orders' = orders /\ ids' = ids /\ complete' = complete
        /\ last_unprocessed_swap_time' = last_unprocessed_swap_time
        /\ run' = run /\ refused' = refused /\ Placed' = Placed
        /\ skipped' = skipped /\ lost' = lost
    BY <1>13 DEF vars, table, result, told, unseen, Placed
  <2>2. (InStampOrder' <=> InStampOrder) /\ (RefusedLately' = RefusedLately)
    BY <2>1 DEF InStampOrder, RefusedLately
  <2>3. RunInStep' <=> RunInStep
    <3>1. Stamped(run.last)' <=> Stamped(run.last)
      BY <2>1 DEF Stamped, StampAfter
    <3> QED BY <2>1, <3>1 DEF RunInStep, Swap, SwapObject, Before
  <2>4. BooksListed' <=> BooksListed
    BY <2>1 DEF BooksListed, Behind, Swap, OppositeSide, OpenBefore, ListsFrom,
                Better
  <2>5. (SkippedInAMillisecond' <=> SkippedInAMillisecond)
        /\ (Stamped(last_unprocessed_swap_time)'
              <=> Stamped(last_unprocessed_swap_time))
    BY <2>1 DEF SkippedInAMillisecond, Stamped, StampAfter
  <2> QED BY <2>1, <2>2, <2>3, <2>4, <2>5 DEF BooksInv, NoneCross
<1> QED
  BY <1>1, <1>2, <1>3, <1>4, <1>5, <1>6, <1>7, <1>8, <1>9, <1>10, <1>11,
     <1>12, <1>13 DEF Next, RunStep, SkipRun

(* The inductive invariant holds in every reachable state: in particular   *)
(* the books of a run are sorted and hold each open order of their side    *)
(* up to the last one taken exactly once, those that were missed before    *)
(* the run too, unless something was refused or orders appeared out of the *)
(* order of their stamps.                                                  *)
THEOREM SwapInvariant == Spec => []SwapInv
<1>1. Init => SwapInv
  BY InitIsSound, InitIsInStep DEF SwapInv
<1>2. SwapInv /\ [Next]_vars => SwapInv'
  BY NextIsSound, NextIsInStep DEF SwapInv
<1> QED BY <1>1, <1>2, PTL DEF Spec

(* The assertion on the size of an order book (process_swaps.py:140) never *)
(* fails while orders appear in the order of their stamps and no match of  *)
(* the run is refused.                                                     *)
THEOREM BooksAgreeHolds == Spec => []BooksAgree
<1>1. SwapInv => BooksAgree
  BY BooksInvSuffices DEF SwapInv
<1> QED BY <1>1, SwapInvariant, PTL

(* While orders appear in the order of their stamps and no match is        *)
(* refused, two open orders with stamps the runs are past cross only if    *)
(* the younger was missed: the walk stops at the first entry of a sorted   *)
(* book that does not cross, and none behind it does.  One that was missed *)
(* shares a millisecond with an older one (process_swaps.py:69), or its    *)
(* run was lost between the cache and the commit (:218).                   *)
THEOREM NoCrossedBookHolds == Spec => []NoCrossedBook
<1>1. SwapInv => NoCrossedBook
  BY BooksInvSuffices DEF SwapInv
<1> QED BY <1>1, SwapInvariant, PTL
=============================================================================
