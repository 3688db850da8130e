--------------------------- MODULE MCReadWriteLock ---------------------------
(***************************************************************************)
(* Small instances of ReadWriteLock.                                       *)
(***************************************************************************)
EXTENDS ReadWriteLock, TLC

ProcSymmetry == Permutations(Readers) \cup Permutations(Writers)
=============================================================================
