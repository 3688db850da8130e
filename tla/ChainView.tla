------------------------------ MODULE ChainView ------------------------------
(***************************************************************************)
(* What the synchronisation with the parent chain promises the rest of the *)
(* hub: it sees the blocks that can no longer change, each of them once    *)
(* and in their order.  How many blocks are fetched at a time, what is     *)
(* kept of blocks that may still change and what fails in between does not *)
(* appear here.                                                            *)
(***************************************************************************)
EXTENDS Naturals, Sequences

CONSTANT Version   \* what a block of a given height may contain

VARIABLES
  final,    \* the blocks of the chain no reorganisation reaches any more
  applied   \* the blocks whose events the hub has acted upon

vars == << final, applied >>

Init ==
  /\ final = << >>
  /\ applied = << >>

(* Another block is buried deeply enough.                                  *)
Finalize ==
  /\ \E v \in Version : final' = Append(final, v)
  /\ UNCHANGED applied

(* The hub acts upon the next of them.                                     *)
Apply ==
  /\ Len(applied) < Len(final)
  /\ applied' = Append(applied, final[Len(applied) + 1])
  /\ UNCHANGED final

Next == Finalize \/ Apply

Spec == Init /\ [][Next]_vars
=============================================================================
