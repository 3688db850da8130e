------------------------------ MODULE MCTxQueue ------------------------------
(***************************************************************************)
(* Small instances of TxQueue.  Workers differ in when their rows commit,  *)
(* and the liveness of the runs rules out a symmetry of tags.              *)
(***************************************************************************)
EXTENDS TxQueue
=============================================================================
