----------------------------- MODULE MCChainSync -----------------------------
(***************************************************************************)
(* Small instances of ChainSync.  The heights of the chain are its number  *)
(* of blocks; tokens are interchangeable.                                  *)
(***************************************************************************)
EXTENDS ChainSync, TLC

TokenSymmetry == Permutations(Tokens)
=============================================================================
