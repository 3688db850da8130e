---------------------------- MODULE SwapLifecycle ----------------------------
(***************************************************************************)
(* The life of swap orders over several eons.  An order has one Transfer   *)
(* row, with the same tx_id, for each eon it is valid in.  The row of the  *)
(* first eon is countersigned when the order is placed                     *)
(* (swapper/serializers/swap.py), the others when their eon comes          *)
(* (swapper/tasks/confirm_swaps.py).  A fulfilled order is finalized by    *)
(* its owner (swap_finalization.py); an open one is frozen                 *)
(* (swap_freeze.py) and then cancelled (swap_cancellation.py).  A          *)
(* checkpoint retires the rows of the eon it closes.                       *)
(*                                                                         *)
(* The handlers lock the rows they read until they commit (SELECT FOR      *)
(* UPDATE), and so do the tasks, so each is one step.  What is not         *)
(* protected is the eon they act for: it is read before, and with          *)
(* stale_eon it may have passed by then.  The orders on the other side of  *)
(* the market are not modelled: a match fills an order by some amount.     *)
(*                                                                         *)
(* A checkpoint is one step: the gap between the release of its lock and   *)
(* its commit is in Ledger, and so is the money: of the balances only what *)
(* deposits do to the asserted starting balance is kept.                   *)
(*                                                                         *)
(* KeepFuture, FreezableOnceComplete, FreezeOne and RetireNone are faulty  *)
(* variants of the definitions they precede: put in their place, they      *)
(* break the properties that guard against them.                           *)
(***************************************************************************)
EXTENDS Integers, FiniteSets

CONSTANTS
  Orders,
  Size,         \* the amount of an order
  ValidEons,    \* the number of eons an order is valid in
  StaleEons,    \* the choices for stale_eon
  MaxEon        \* bound: the last eon an order may be placed in

Eons == 1 .. MaxEon + ValidEons

ASSUME SwapLifecycleAssumption ==
  /\ Size \in Nat \ {0}
  /\ ValidEons \in Nat \ {0}
  /\ MaxEon \in Nat \ {0}
  /\ StaleEons \subseteq BOOLEAN

VARIABLES
  latest_eon,   \* eon of LocalViewInterface.latest()
  commitments,  \* the eons with a RootCommitment
  rows,         \* [o]: the eons with a Transfer row of the order
  row,          \* [o][e]: the row
  filled,       \* [o]: the sum of the matchings, over all eons
  deposits,     \* [o]: the eons in which its wallet received a deposit
  stale_eon     \* may an eon be read before it passes and used after?

vars == << latest_eon, commitments, rows, row, filled, deposits, stale_eon >>

Flags == {"processed", "complete", "cancelled", "appended", "voided",
          "operator_signature", "freezing_signature",
          "cancellation_state", "cancellation_signed",
          "finalization_state", "finalization_signed", "fulfillment_signed"}

(* A row is the set of its flags that are set.                             *)
NewRow == {}

(* The eon a handler or a task acts for.                                   *)
CurrentEons == IF stale_eon THEN {latest_eon - 1, latest_eon} \cap Eons
                            ELSE {latest_eon}
OperatorEons == IF latest_eon \in commitments THEN {latest_eon}
                                              ELSE CurrentEons

-----------------------------------------------------------------------------
(* ledger/models/transfer.py                                               *)

is_open(r) == "processed" \notin r

is_signed_by_operator(r) == {"appended", "operator_signature"} \subseteq r

With(r, flags, outcome) == (r \ flags) \cup outcome

(* change_state replaces these five flags; the others stay.                *)
Outcome == {"processed", "complete", "cancelled", "appended", "voided"}

KeepFuture(rs, current, e, outcome) ==
  [x \in DOMAIN rs |-> IF x = e THEN With(rs[x], Outcome, outcome) ELSE rs[x]]

(* An order that is complete, cancelled or voided ends with this row: what *)
(* was to come is voided.                                                  *)
change_state(rs, current, e, outcome) ==
  [x \in DOMAIN rs |->
     IF x = e THEN With(rs[x], Outcome, outcome)
     ELSE IF /\ x > e /\ x \in current
             /\ outcome \cap {"complete", "cancelled", "voided"} # {}
             /\ "voided" \notin rs[x]
          THEN With(rs[x], {"appended"}, {"processed", "voided"})
          ELSE rs[x]]

close(rs, current, e, outcome) ==
  change_state(rs, current, e, outcome \cup {"processed"})

(* sign_swap refuses what is processed, signed, voided, cancelled or       *)
(* complete.                                                               *)
sign_swap(r) ==
  IF r \cap {"processed", "voided", "cancelled", "complete"} = {}
       /\ ~ is_signed_by_operator(r)
  THEN r \cup {"operator_signature", "appended"}
  ELSE r

sign_swap_fulfillment(r) ==
  IF is_open(r) /\ is_signed_by_operator(r) /\ "complete" \in r
  THEN r \cup {"fulfillment_signed"} ELSE r

sign_swap_finalization(r) ==
  IF /\ is_open(r) /\ is_signed_by_operator(r)
     /\ {"complete", "finalization_state"} \subseteq r
  THEN r \cup {"finalization_signed"} ELSE r

sign_swap_cancellation(r) ==
  IF /\ is_open(r) /\ is_signed_by_operator(r)
     /\ {"cancelled", "cancellation_state"} \subseteq r
  THEN r \cup {"cancellation_signed"} ELSE r

RetireNone(rs, current, e) == rs

(* retire_swap leaves alone what is not open.  It is called for the last   *)
(* appended row of a wallet; a freeze it finds there is undone.            *)
retire_swap(rs, current, e) ==
  IF /\ e \in current
     /\ "appended" \in rs[e] /\ is_open(rs[e])
  THEN close(rs, current, e,
             (rs[e] \cap {"complete"}) \cup
             (IF is_signed_by_operator(rs[e]) THEN {"appended"}
              ELSE IF "complete" \in rs[e] THEN {} ELSE {"voided"}))
  ELSE rs

-----------------------------------------------------------------------------
(* Time                                                                    *)

NextEon ==
  /\ latest_eon < MaxEon + ValidEons
  /\ latest_eon' = latest_eon + 1
  /\ UNCHANGED << commitments, rows, row, filled, deposits, stale_eon >>

CreateCheckpoint ==
  /\ latest_eon \notin commitments
  /\ commitments' = commitments \cup {latest_eon}
  /\ row' = [o \in Orders |-> retire_swap(row[o], rows[o], latest_eon - 1)]
  /\ UNCHANGED << latest_eon, rows, filled, deposits, stale_eon >>

(* A deposit into the wallet of an order, any time after it was placed.    *)
ReceiveDeposit(o) ==
  /\ rows[o] # {}
  /\ latest_eon \notin deposits[o]
  /\ deposits' = [deposits EXCEPT ![o] = @ \cup {latest_eon}]
  /\ UNCHANGED << latest_eon, commitments, rows, row, filled, stale_eon >>

-----------------------------------------------------------------------------
(* Handlers                                                                *)

PlaceSwap(o) ==
  /\ rows[o] = {}
  /\ \E e \in CurrentEons :
       /\ e <= MaxEon
       /\ e + 1 \notin commitments
       /\ rows' = [rows EXCEPT ![o] = e .. e + ValidEons - 1]
       /\ row' = [row EXCEPT ![o][e] = sign_swap(NewRow)]
  /\ UNCHANGED << latest_eon, commitments, filled, deposits, stale_eon >>

(* The rows a handler finds for eon e, the first of which it goes by.      *)
SwapSet(o, e) == {x \in rows[o] : x >= e}
First(S) == CHOOSE x \in S : \A y \in S : x <= y

FreezableOnceComplete(r) == r \cap {"cancelled", "voided", "processed"} = {}

Freezable(r) == r \cap {"complete", "cancelled", "voided", "processed"} = {}

FreezeOne(o, e) == {First(SwapSet(o, e))}

ToFreeze(o, e) == SwapSet(o, e)

FreezeSwap(o) ==
  /\ \E e \in CurrentEons :
       /\ SwapSet(o, e) # {}
       /\ Freezable(row[o][First(SwapSet(o, e))])
       /\ row' = [row EXCEPT ![o] = [x \in Eons |->
            IF x \in ToFreeze(o, e)
            THEN @[x] \cup {"cancelled", "freezing_signature"} ELSE @[x]]]
  /\ UNCHANGED << latest_eon, commitments, rows, filled, deposits, stale_eon >>

(* The states that the owner signed are attached to all rows found, and    *)
(* those after the first are voided.                                       *)
Attached(o, e, state) ==
  [x \in Eons |->
     IF x \notin SwapSet(o, e) THEN row[o][x]
     ELSE IF x = First(SwapSet(o, e)) THEN row[o][x] \cup {state}
     ELSE With(row[o][x], {"appended"}, {state, "voided", "processed"})]

CancelSwap(o) ==
  /\ \E e \in CurrentEons :
       /\ SwapSet(o, e) # {}
       /\ LET first == First(SwapSet(o, e))
              attached == Attached(o, e, "cancellation_state")
              signed == [attached EXCEPT ![first] = sign_swap_cancellation(@)]
          IN /\ {"cancelled", "freezing_signature"} \subseteq row[o][first]
             /\ row[o][first] \cap {"processed", "cancellation_state"} = {}
             /\ row' = [row EXCEPT ![o] =
                  close(signed, rows[o], first, {"cancelled", "appended"})]
  /\ UNCHANGED << latest_eon, commitments, rows, filled, deposits, stale_eon >>

FinalizeSwap(o) ==
  /\ \E e \in CurrentEons :
       /\ SwapSet(o, e) # {}
       /\ LET first == First(SwapSet(o, e))
              attached == Attached(o, e, "finalization_state")
              signed == [attached EXCEPT ![first] = sign_swap_finalization(@)]
          IN /\ "complete" \in row[o][first]
             /\ row[o][first] \cap {"cancelled", "voided", "processed",
                                    "finalization_state"} = {}
             /\ row' = [row EXCEPT ![o] =
                  close(signed, rows[o], first, {"complete", "appended"})]
  /\ UNCHANGED << latest_eon, commitments, rows, filled, deposits, stale_eon >>

-----------------------------------------------------------------------------
(* Tasks of the accounting worker                                          *)

Live(r) == r \cap {"processed", "complete", "voided", "cancelled"} = {}

(* The orders confirm_swaps signs or voids in eon e.                       *)
Unconfirmed(e) ==
  {o \in Orders : /\ e \in rows[o] /\ Live(row[o][e])
                  /\ "operator_signature" \notin row[o][e]}

(* should_void_swap asserts that the wallet of an order that was valid in  *)
(* the eon before has what it began with, less what was matched.  What it  *)
(* begins the eon with is its allotment, with all deposits before; until   *)
(* the checkpoint is cut it is what is available in the eon before, where  *)
(* deposits that came after the order's own states are filtered out.       *)
FirstUncounted(e) == IF e \in commitments THEN e ELSE e - 1

StartingBalanceAgrees(o, e) ==
  e - 1 \in rows[o] => \A d \in deposits[o] : d >= FirstUncounted(e)

(* All orders in one transaction: a failing assertion undoes it, and the   *)
(* task ends.  The reasons to void an order before the assertion (funds    *)
(* withdrawn, swaps disabled) are not modelled: any order may be voided.   *)
ConfirmSwaps ==
  /\ \E e \in OperatorEons :
       /\ Unconfirmed(e) # {}
       /\ \E bad \in SUBSET Unconfirmed(e) :
          /\ \A o \in Unconfirmed(e) \ bad : StartingBalanceAgrees(o, e)
          /\ row' = [o \in Orders |->
              IF o \in bad THEN close(row[o], rows[o], e, {"voided"})
              ELSE IF o \in Unconfirmed(e)
                   THEN [row[o] EXCEPT ![e] = sign_swap(@)]
              ELSE row[o]]
  /\ UNCHANGED << latest_eon, commitments, rows, filled, deposits, stale_eon >>

Remaining(o) == Size - filled[o]

(* Of process_swaps, what happens to one order.                            *)
MatchSwap(o) ==
  /\ \E e \in OperatorEons :
       /\ e \in rows[o]
       /\ Live(row[o][e])
       /\ "operator_signature" \in row[o][e]
       /\ \E amount \in 1 .. Remaining(o) :
            /\ filled' = [filled EXCEPT ![o] = @ + amount]
            /\ row' = IF filled[o] + amount < Size THEN row
                      ELSE [row EXCEPT ![o] =
                        [change_state(row[o], rows[o], e,
                                      {"complete", "appended"})
                           EXCEPT ![e] = sign_swap_fulfillment(@)]]
  /\ UNCHANGED << latest_eon, commitments, rows, deposits, stale_eon >>

VoidSwap(o) ==
  /\ \E e \in OperatorEons :
       /\ e \in rows[o]
       /\ Live(row[o][e])
       /\ "operator_signature" \in row[o][e]
       /\ row' = [row EXCEPT ![o] = close(@, rows[o], e, {"voided"})]
  /\ UNCHANGED << latest_eon, commitments, rows, filled, deposits, stale_eon >>

-----------------------------------------------------------------------------
Init ==
  /\ latest_eon = 1
  /\ commitments = {1}
  /\ rows = [o \in Orders |-> {}]
  /\ row = [o \in Orders |-> [e \in Eons |-> NewRow]]
  /\ filled = [o \in Orders |-> 0]
  /\ deposits = [o \in Orders |-> {}]
  /\ stale_eon \in StaleEons

Next ==
  \/ NextEon
  \/ CreateCheckpoint
  \/ ConfirmSwaps
  \/ \E o \in Orders : \/ PlaceSwap(o)
                       \/ FreezeSwap(o)
                       \/ CancelSwap(o)
                       \/ FinalizeSwap(o)
                       \/ MatchSwap(o)
                       \/ VoidSwap(o)
                       \/ ReceiveDeposit(o)

Spec == Init /\ [][Next]_vars

-----------------------------------------------------------------------------
(* Properties                                                              *)

(* The type of the state.                                                  *)
TypeOK ==
  /\ latest_eon \in Eons
  /\ commitments \subseteq Eons
  /\ rows \in [Orders -> SUBSET Eons]
  /\ row \in [Orders -> [Eons -> SUBSET Flags]]
  /\ filled \in [Orders -> 0 .. Size]
  /\ deposits \in [Orders -> SUBSET Eons]
  /\ stale_eon \in BOOLEAN

Complete(r) == "complete" \in r
WasCancelled(r) == {"cancelled", "processed", "appended"} \subseteq r

Fulfilled(o) == \E e \in rows[o] : Complete(row[o][e])
Cancelled(o) == \E e \in rows[o] : WasCancelled(row[o][e])

(* An order that is fulfilled or cancelled in an eon is over: its rows of  *)
(* later eons are voided, none can be signed or matched.                   *)
NothingComesAfter ==
  \A o \in Orders : \A e, f \in rows[o] :
    (e < f /\ (Complete(row[o][e]) \/ WasCancelled(row[o][e])))
      => /\ {"voided", "processed"} \subseteq row[o][f]
         /\ "appended" \notin row[o][f]

(* A fulfilled order stays fulfilled, a cancelled one cancelled, and no    *)
(* order is ever both, if handlers act in the eon they have read.          *)
OutcomeIsFinal ==
  [][stale_eon \/ \A o \in Orders :
       /\ Fulfilled(o) => Fulfilled(o)' /\ ~ Cancelled(o)'
       /\ Cancelled(o) => Cancelled(o)' /\ ~ Fulfilled(o)']_vars

(* No order is matched once its owner was told that it is frozen, in this  *)
(* eon or a later one: a checkpoint unfreezes the row it retires, and      *)
(* confirm_swaps goes through the rows of the next eon.                    *)
FrozenIsNotMatched ==
  [][stale_eon \/ \A o \in Orders :
       filled'[o] # filled[o]
         => \A e \in rows[o] : "freezing_signature" \notin row[o][e]]_vars

(* When the checkpoint of the next eon is there, no order that counts in   *)
(* an eon is still open in it.                                             *)
RetiredByCheckpoint ==
  \A o \in Orders : \A e \in rows[o] :
    (e + 1 \in commitments /\ "appended" \in row[o][e]) => ~ is_open(row[o][e])

(* cancel_finalize_swaps looks for open rows whose final states the owner  *)
(* has signed.  There are none: the handlers close them at once.           *)
NothingLeftToCountersign ==
  \A o \in Orders : \A e \in rows[o] :
    row[o][e] \cap {"cancellation_state", "finalization_state"} # {}
      => ~ is_open(row[o][e])

(* A row that counts as fulfilled carries the operator's signatures: of    *)
(* the order, of its fulfillment and, when its owner finalized it, of      *)
(* that: the outcome can be proved to the contract.                        *)
FulfilledIsSigned ==
  \A o \in Orders : \A e \in rows[o] :
    Complete(row[o][e]) =>
      /\ {"operator_signature", "fulfillment_signed"} \subseteq row[o][e]
      /\ "finalization_state" \in row[o][e]
           => "finalization_signed" \in row[o][e]

(* swapper/tests/test_cancellation.py asserts of a cancelled order that    *)
(* the operator has signed its cancellation.                               *)
CancelledIsSigned ==
  \A o \in Orders : \A e \in rows[o] :
    WasCancelled(row[o][e]) => "cancellation_signed" \in row[o][e]

(* should_void_swap asserts the starting balance of every order that       *)
(* confirm_swaps goes through, whenever it comes to it.                    *)
StartingBalanceAsserted ==
  \A o \in Unconfirmed(latest_eon) : StartingBalanceAgrees(o, latest_eon)

-----------------------------------------------------------------------------
(* The inductive invariant.                                                *)

(* A voided row is closed and does not count, a complete one counts as     *)
(* long as it is open.                                                     *)
RowSound(r) ==
  /\ "voided" \in r => "processed" \in r /\ "appended" \notin r
  /\ Complete(r) => "processed" \in r \/ "appended" \in r

(* A row that is closed and counts, but neither complete nor cancelled,    *)
(* was retired; only the last match of an order completes a row of it.     *)
OrderSound(o) ==
  /\ \A e \in Eons \ rows[o] : row[o][e] = NewRow
  /\ \A e \in rows[o] :
       /\ RowSound(row[o][e])
       /\ (/\ {"processed", "appended"} \subseteq row[o][e]
           /\ row[o][e] \cap {"complete", "cancelled"} = {}) => e < latest_eon
       /\ Complete(row[o][e]) => filled[o] = Size
  /\ \A e, f \in rows[o] : Complete(row[o][e]) /\ Complete(row[o][f]) => e = f

(* The rows of an order are consistent, whichever eons are read.           *)
RowsInv ==
  /\ TypeOK
  /\ commitments \subseteq 1 .. latest_eon
  /\ \A o \in Orders : OrderSound(o)
  /\ NothingComesAfter
  /\ RetiredByCheckpoint
  /\ NothingLeftToCountersign
  /\ FulfilledIsSigned

(* The rows of an order are those of consecutive eons, the first of which  *)
(* has come.                                                               *)
PlacedInTime(o) ==
  rows[o] = {} \/ \E e \in 1 .. latest_eon : rows[o] = e .. e + ValidEons - 1

(* No row is frozen and complete, and none has an outcome before its eon   *)
(* has come: so a freeze finds no completed row, nor a match an outcome    *)
(* that a later row has.  A row that counts is signed while it is open: so *)
(* its checkpoint does not void it, with the rows after it.                *)
OneOutcome(o) ==
  /\ \A e \in rows[o] :
       /\ ~ {"complete", "cancelled"} \subseteq row[o][e]
       /\ e > latest_eon => /\ ~ Complete(row[o][e])
                           /\ ~ {"processed", "appended"} \subseteq row[o][e]
       /\ "appended" \in row[o][e] /\ is_open(row[o][e])
            => "operator_signature" \in row[o][e]
  /\ ~ (Fulfilled(o) /\ Cancelled(o))

(* A freeze leaves nothing live in its eon or later, also where the        *)
(* checkpoint has taken the flag away again.                               *)
FrozenStaysOut(o) ==
  \A e, f \in rows[o] :
    "freezing_signature" \in row[o][e] /\ f >= latest_eon => ~ Live(row[o][f])

(* What the proofs need, and what they prove: see SwapLifecycle_proofs.    *)
LifeInv ==
  /\ RowsInv
  /\ stale_eon \/ \A o \in Orders :
                    PlacedInTime(o) /\ OneOutcome(o) /\ FrozenStaysOut(o)
=============================================================================
