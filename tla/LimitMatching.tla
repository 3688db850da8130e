---------------------------- MODULE LimitMatching ----------------------------
(***************************************************************************)
(* How two limit orders are matched: match_limit_to_limit of               *)
(* swapper/matcher/limit_to_limit.py, as operators on two orders and on    *)
(* what the Matching rows say was filled of each so far.                   *)
(*                                                                         *)
(* An order pays up to `amount` of one token and asks for `amount_swapped` *)
(* of another.  A sell order wants to get rid of its amount and takes what *)
(* it can get, a buy order stops when it has got what it asked for.  The   *)
(* trade is made at the price of the right order, the older of the two.    *)
(* Amounts are natural numbers: the decimals of the code are integers,     *)
(* exact while a product has no more than 28 digits.                       *)
(* VolumeOfWhole and AcceptsAnyPrice are faulty variants of the definitions *)
(* that follow them: no specification uses them, the runs reject them.     *)
(***************************************************************************)
EXTENDS Integers

CONSTANT Slack   \* 100 in the code: what the price checks forgive

ASSUME SlackAssumption == Slack \in Nat \ {0}

Order(Tokens, Amounts) ==
  [pays : Tokens, sell_order : BOOLEAN,
   amount : Amounts, amount_swapped : Amounts]

(* The buy order of the two pays at least what the sell order asks for.    *)
Crosses(l, r) == l.amount_swapped * r.amount_swapped <= r.amount * l.amount

(* A faulty variant: earlier matches are not deducted.                     *)
VolumeOfWhole(order, filled, pays, gets) ==
  IF order.sell_order
    THEN [out |-> order.amount, in |-> (order.amount * gets) \div pays]
  ELSE [out |-> (order.amount_swapped * pays) \div gets,
        in |-> order.amount_swapped]

(* The most an order can still trade at the price `pays` for `gets`: a     *)
(* sell order by what is left to sell, a buy order by what is left to buy. *)
Volume(order, filled, pays, gets) ==
  LET out == order.amount - filled.out
      in == order.amount_swapped - filled.in
  IN IF order.sell_order THEN [out |-> out, in |-> (out * gets) \div pays]
     ELSE [out |-> (in * pays) \div gets, in |-> in]

LeftVolume(l, left_filled, r) ==
  Volume(l, left_filled, r.amount_swapped, r.amount)
RightVolume(r, right_filled) ==
  Volume(r, right_filled, r.amount, r.amount_swapped)

(* What the left order gives and what the right order gives: all the left  *)
(* can trade, cut down to what the right can when that is too much.        *)
Traded(l, left_filled, r, right_filled) ==
  LET left == LeftVolume(l, left_filled, r)
      right == RightVolume(r, right_filled)
  IN IF left.out > right.in \/ left.in > right.out
       THEN [left |-> right.in, right |-> right.out]
       ELSE [left |-> left.out, right |-> left.in]

Filled(filled, gives, takes) ==
  [out |-> filled.out + gives, in |-> filled.in + takes]

(* A faulty variant: the price is not looked at.                           *)
AcceptsAnyPrice(order, filled) == filled.out <= order.amount

(* Both orders must keep their limit price, up to the slack, over all the  *)
(* trades they have made, and give no more than their amount.              *)
Accepts(order, filled) ==
  /\ (filled.in * order.amount) \div Slack
       >= (order.amount_swapped * filled.out) \div Slack
  /\ filled.out <= order.amount

Fulfilled(order, filled) ==
  \/ filled.out = order.amount
  \/ ~order.sell_order /\ filled.in = order.amount_swapped

(* What must never happen to an order: to give more than its amount, or,   *)
(* when it buys, to get more than it asked for.                            *)
Within(order, filled) ==
  /\ filled.out <= order.amount
  /\ ~order.sell_order => filled.in <= order.amount_swapped

(* The assertions on an order after a trade (lines 120-133 and 135-148).   *)
AssertionsHold(order, filled) ==
  IF filled.out = order.amount THEN filled.in >= order.amount_swapped
  ELSE order.sell_order \/ filled.in <= order.amount_swapped
=============================================================================
