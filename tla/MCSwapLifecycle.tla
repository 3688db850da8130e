--------------------------- MODULE MCSwapLifecycle ---------------------------
(***************************************************************************)
(* Small instances of SwapLifecycle.  Orders are interchangeable.          *)
(***************************************************************************)
EXTENDS SwapLifecycle, TLC

OrderSymmetry == Permutations(Orders)
=============================================================================
