------------------------------- MODULE MCLedger -------------------------------
(***************************************************************************)
(* Small instances of Ledger.  The handlers are interchangeable, which a   *)
(* run without liveness properties may use; the wallets are not: the       *)
(* checkpoint and the locks go by their order.                             *)
(***************************************************************************)
EXTENDS Ledger, TLC

HandlerSymmetry == Permutations(Handlers)
=============================================================================
