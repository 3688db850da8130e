---------------------------- MODULE MCWithdrawals ----------------------------
(***************************************************************************)
(* Small instances of Withdrawals.                                         *)
(***************************************************************************)
EXTENDS Withdrawals, TLC

(* Leads the run of NothingIsPaidTwice to its shortest way: requests that  *)
(* come in between a slashing.                                             *)
OnlySlashingIsDisturbed == disorder \subseteq {"slashing"}

(* Behaviours until a second kind of bad moment.  As disorder never shrinks*)
(* and RequestsAreSettled asks for nothing once there is one, none of the  *)
(* behaviours cut off would violate it.                                    *)
OneDisorder == Cardinality(disorder) <= 1
=============================================================================
