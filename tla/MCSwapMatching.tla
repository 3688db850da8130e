---------------------------- MODULE MCSwapMatching ----------------------------
(***************************************************************************)
(* Small instances of SwapMatching; the tokens are interchangeable.        *)
(***************************************************************************)
EXTENDS SwapMatching

TokenSymmetry == Permutations(Tokens)

(* The second and the third swap share a millisecond, and the fourth and   *)
(* the fifth.                                                              *)
Stamps == << 2, 4, 4, 6, 6 >>

(* The instance: one or two orders of any amounts; three that are all      *)
(* below the slack, in any order if no run is lost; three or four above 1  *)
(* that one run takes, in the order of their stamps, the last of them      *)
(* against the first two; four small sell orders of one to two, in the     *)
(* order of their stamps, over any runs; and five of fixed amounts, of     *)
(* which the third is refused to the second and fills the first, so that   *)
(* the book the fifth meets is one entry short.                            *)
Below(S) == \A n \in S : orders[n].amount < Slack /\ orders[n].amount_swapped < Slack
Above(S) == \A n \in S : orders[n].amount > 1 /\ orders[n].amount_swapped > 1
Small(S) == \A n \in S : orders[n].sell_order /\ orders[n].amount = 1

OneRun == last_unprocessed_swap_time \in {1, StampAfter(Len(ids))}

TwoSides ==
  /\ InStampOrder /\ OneRun
  /\ orders[1].pays = orders[2].pays
  /\ \A n \in 3 .. Len(ids) : orders[n].pays # orders[1].pays

CutShort ==
  LET terms == << << TRUE, 1, 1 >>, << TRUE, 5, 2 >>, << FALSE, 2, 2 >>,
                  << TRUE, 1, 1 >>, << TRUE, 1, 1 >> >>
  IN \A n \in Placed :
       << orders[n].sell_order, orders[n].amount, orders[n].amount_swapped >>
         = terms[n]

Bounds ==
  \/ /\ Placed \subseteq 1 .. 3
     /\ Len(ids) = 3 => Below(Placed) /\ (lost = {} \/ InStampOrder)
  \/ Len(ids) \in 3 .. 4 /\ TwoSides /\ Above(Placed)
  \/ Len(ids) = 4 /\ InStampOrder /\ Below(Placed) /\ Small(Placed)
  \/ Len(ids) > 2 /\ TwoSides /\ CutShort
=============================================================================
