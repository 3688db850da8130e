---------------------------- MODULE Withdrawals ----------------------------
(***************************************************************************)
(* The withdrawals of one wallet.  Its owner asks the contract for them    *)
(* while it goes on spending off chain.  What the hub sees of a request,   *)
(* it deducts from the funds of the wallet; when that leaves less than     *)
(* nothing, it takes the wallet's lowest minimum balance marker to the     *)
(* contract, which drops the requests (contractor/tasks/                   *)
(* slash_bad_withdrawals.py, by the accounting worker).  A request that is *)
(* two eons old is paid out when somebody confirms it (confirm_withdrawals,*)
(* by the verifier), and the event tells the hub                           *)
(* (interpreters/withdrawal_confirmation.py).                              *)
(*                                                                         *)
(* The contract is not part of the repository.  It is modelled by what the *)
(* hub's calls and its tests (contractor/tests.py) rely on: a request is   *)
(* for no more than the wallet can prove to have, it can be slashed in its *)
(* own eon and the next, all requests of these two eons at once, and       *)
(* confirmed from the eon after on.  Transactions are mined in the order   *)
(* of their nonces (see TxQueue).                                          *)
(*                                                                         *)
(* WholeBalance, OnlyThisEon, ForgetToMark, NewestFirst and FundsRemain    *)
(* are faulty variants of the definitions they precede.                    *)
(***************************************************************************)
EXTENDS Integers, Sequences, FiniteSets, FiniteSetsExt, Functions

CONSTANTS
  Balance,      \* what the wallet begins with
  Amounts,      \* of transfers and of requests
  MaxEon,       \* bound: the eons
  MaxRequests   \* bound: the withdrawal requests

Eons == 1 .. MaxEon

ASSUME WithdrawalsAssumption ==
  /\ Balance \in Nat
  /\ Amounts \subseteq Nat \ {0}
  /\ MaxEon \in Nat \ {0}
  /\ MaxRequests \in Nat

VARIABLES
  eon,          \* the contract's eon
  late,         \* is it past the extended slack period of the eon?
  requests,     \* the requests on chain: amount, eon and what became of it
  log,          \* the events of the contract, in order
  seen,         \* how many of them the hub has interpreted
  slashed,      \* the WithdrawalRequest rows with slashed=True
  withdrawn,    \* those with a Withdrawal row
  allotment,    \* [e]: the wallet's balance at the checkpoint of eon e
  commitments,  \* the eons with a RootCommitment
  spent,        \* [e]: what the wallet has spent off chain in eon e
  marker,       \* [e]: the amounts of its minimum balance markers
  queue,        \* the owner's transactions: tag and, to slash, a marker
  mined,        \* how many of them are mined
  slasher,      \* the eon slash_bad_withdrawals has read, 0 when it is idle
  disorder      \* history: what has come at a bad moment, of Disorders

chain == << eon, late, requests, log >>
records == << seen, slashed, withdrawn >>
ledger == << allotment, commitments, spent, marker >>
transactions == << queue, mined >>
vars == << chain, records, ledger, transactions, slasher, disorder >>

(* "unseen"   an eon has passed before the hub has seen all events of it    *)
(* "negative" ... while the funds of the wallet were negative               *)
(* "missed"   ... before the requests due in it were queued for confirmation*)
(* "mining"   ... while a slashing waited to be mined                       *)
(* "slashing" a request has come while one waited, or events were not seen  *)
(*            yet when one was queued                                       *)
Disorders == {"unseen", "negative", "missed", "mining", "slashing"}

Note(kinds) == disorder' = disorder \cup kinds

AmountsOf(rs) == [i \in DOMAIN rs |-> rs[i].amount]
Total(S) == SumFunctionOnSet(AmountsOf(requests), S)

-----------------------------------------------------------------------------
(* The contract                                                            *)

Pending(from, to) ==
  {i \in DOMAIN requests : requests[i].fate = "pending"
                           /\ requests[i].eon \in from .. to}

Settle(S, fate) ==
  [i \in DOMAIN requests |->
     IF i \in S THEN [requests[i] EXCEPT !.fate = fate] ELSE requests[i]]

SlashWaits == \E k \in mined + 1 .. Len(queue) : queue[k].tag[1] = "slash"

LastCommitted == CHOOSE e \in commitments : \A f \in commitments : f <= e

Request(amount) ==
  /\ Len(requests) < MaxRequests
  /\ amount + Total(Pending(LastCommitted, eon)) <= allotment[LastCommitted]
  /\ Note(IF SlashWaits THEN {"slashing"} ELSE {})
  /\ requests' = Append(requests, [amount |-> amount, eon |-> eon,
                                   fate |-> "pending"])
  /\ log' = Append(log, << "request", Len(requests) + 1 >>)
  /\ UNCHANGED << eon, late, records, ledger, transactions, slasher >>

PassSlack ==
  /\ ~ late
  /\ late' = TRUE
  /\ UNCHANGED << eon, requests, log, records, ledger, transactions, slasher, disorder >>

(* slashWithdrawalWithProofOfMinimumAvailableBalance, which fails when the *)
(* marker covers what is pending.                                          *)
Slashable == Pending(eon - 1, eon)

MineSlash ==
  /\ mined < Len(queue)
  /\ queue[mined + 1].tag[1] = "slash"
  /\ mined' = mined + 1
  /\ requests' = IF Total(Slashable) > queue[mined + 1].marker
                 THEN Settle(Slashable, "slashed") ELSE requests
  /\ UNCHANGED << eon, late, log, records, ledger, queue, slasher, disorder >>

(* confirmWithdrawal                                                       *)
Confirmable == Pending(1, eon - 2)

MineConfirmation ==
  /\ mined < Len(queue)
  /\ queue[mined + 1].tag[1] = "confirm"
  /\ mined' = mined + 1
  /\ requests' = Settle(Confirmable, "paid")
  /\ log' = IF Confirmable = {} THEN log
            ELSE Append(log, << "confirmed", Total(Confirmable) >>)
  /\ UNCHANGED << eon, late, records, ledger, queue, slasher, disorder >>

-----------------------------------------------------------------------------
(* The hub's records                                                       *)

Rows == {i \in DOMAIN requests : \E k \in 1 .. seen : log[k] = << "request", i >>}
Unslashed == Rows \ slashed
Of(e) == {i \in Unslashed : requests[i].eon = e}

Tags == {queue[k].tag : k \in DOMAIN queue}

SeeRequest ==
  /\ seen < Len(log)
  /\ log[seen + 1][1] = "request"
  /\ seen' = seen + 1
  /\ UNCHANGED << chain, slashed, withdrawn, ledger, transactions, slasher, disorder >>

NewestFirst(amount) ==
  {i \in Unslashed \ withdrawn :
     Total({j \in Unslashed \ withdrawn : j > i}) < amount}

(* The oldest requests that are not slashed or withdrawn yet, until the    *)
(* amount is reached.                                                      *)
Confirmed(amount) ==
  {i \in Unslashed \ withdrawn :
     Total({j \in Unslashed \ withdrawn : j < i}) < amount}

SeeConfirmation ==
  /\ seen < Len(log)
  /\ log[seen + 1][1] = "confirmed"
  /\ seen' = seen + 1
  /\ withdrawn' = withdrawn \cup Confirmed(log[seen + 1][2])
  /\ UNCHANGED << chain, slashed, ledger, transactions, slasher, disorder >>

-----------------------------------------------------------------------------
(* The ledger                                                              *)

WholeBalance(e) == IF e \notin Eons THEN 0 ELSE allotment[e] - spent[e]

available_funds_at_eon(e) ==
  IF e \notin Eons THEN 0 ELSE allotment[e] - spent[e] - Total(Of(e))

loosely_available_funds_at_eon(e) ==
  (IF e \in commitments THEN 0 ELSE available_funds_at_eon(e - 1))
    + available_funds_at_eon(e)

(* The owner spends and signs how much it will not withdraw below: as much *)
(* as the hub accepts.                                                     *)
Transfer(amount) ==
  LET left == loosely_available_funds_at_eon(eon) - amount
  IN /\ left >= 0
     /\ spent' = [spent EXCEPT ![eon] = @ + amount]
     /\ marker' = [marker EXCEPT ![eon] = @ \cup {left}]
     /\ UNCHANGED << chain, records, allotment, commitments, transactions,
                     slasher, disorder >>

FundsRemain == available_funds_at_eon(eon - 1) > 0
FundsSuffice == available_funds_at_eon(eon - 1) >= 0

(* The checkpoint waits until the hub has seen the last block of the eon   *)
(* before (see ChainSync), and asserts that no balance is negative.        *)
CreateCheckpoint ==
  /\ eon \notin commitments
  /\ slasher = 0
  /\ \A i \in DOMAIN requests : requests[i].eon < eon => i \in Rows
  /\ FundsSuffice
  /\ commitments' = commitments \cup {eon}
  /\ allotment' = [allotment EXCEPT ![eon] = available_funds_at_eon(eon - 1)]
  /\ UNCHANGED << chain, records, spent, marker, transactions, slasher, disorder >>

-----------------------------------------------------------------------------
(* slash_bad_withdrawals: the eon is read before the task waits for the    *)
(* global lock, which the checkpoint may hold.                             *)

OnlyThisEon(e) == Of(e)

(* Requests that are not slashed yet, of this eon or the previous one.     *)
pending_withdrawals(e) == {i \in Unslashed : requests[i].eon >= e - 1}

slash_tag(e) ==
  << "slash", e, Cardinality({i \in Rows : requests[i].eon = e}),
     Total(pending_withdrawals(e)) >>

Markers(e) ==
  LET min_eon == Min({requests[i].eon : i \in pending_withdrawals(e)})
  IN UNION {marker[f] : f \in (min_eon - 1 .. e) \cap Eons}

(* May the requests be slashed as far as the hub knows?                    *)
Covered(e) ==
  Markers(e) # {} => Min(Markers(e)) >= Total(pending_withdrawals(e))

Overdrawn(e) ==
  /\ pending_withdrawals(e) # {}
  /\ loosely_available_funds_at_eon(e) < 0

ForgetToMark(e) == {}
Marked(e) == pending_withdrawals(e)

BeginSlashing ==
  /\ slasher = 0
  /\ slasher' = eon
  /\ UNCHANGED << chain, records, ledger, transactions, disorder >>

Slash ==
  /\ slasher # 0
  /\ Note(IF seen < Len(log) THEN {"slashing"} ELSE {})
  /\ Overdrawn(slasher)
  /\ slash_tag(slasher) \notin Tags
  /\ ~ Covered(slasher)
  /\ queue' = Append(queue, [tag |-> slash_tag(slasher),
                             marker |-> Min(Markers(slasher))])
  /\ slashed' = slashed \cup Marked(slasher)
  /\ slasher' = 0
  /\ UNCHANGED << chain, seen, withdrawn, ledger, mined >>

SkipSlashing ==
  /\ slasher # 0
  /\ Overdrawn(slasher) => slash_tag(slasher) \in Tags \/ Covered(slasher)
  /\ slasher' = 0
  /\ UNCHANGED << chain, records, ledger, transactions, disorder >>

(* confirm_withdrawals.                                                    *)
ToConfirm == {i \in Unslashed : requests[i].eon = eon - 2}

QueueConfirmation ==
  /\ late
  /\ ToConfirm # {}
  /\ << "confirm", eon >> \notin Tags
  /\ queue' = Append(queue, [tag |-> << "confirm", eon >>, marker |-> 0])
  /\ UNCHANGED << chain, records, ledger, mined, slasher, disorder >>

(* What the end of an eon comes before.                                    *)
Overtaken ==
  {kind \in Disorders :
     \/ kind = "unseen" /\ seen < Len(log)
     \/ kind = "negative" /\ loosely_available_funds_at_eon(eon) < 0
     \/ kind = "missed" /\ ToConfirm # {} /\ << "confirm", eon >> \notin Tags
     \/ kind = "mining" /\ SlashWaits}

(* Without a checkpoint for an eon the contract halts.                     *)
NextEon ==
  /\ eon < MaxEon
  /\ late
  /\ eon \in commitments
  /\ Note(Overtaken)
  /\ eon' = eon + 1
  /\ late' = FALSE
  /\ UNCHANGED << requests, log, records, ledger, transactions, slasher >>

-----------------------------------------------------------------------------
Init ==
  /\ eon = 1
  /\ late = FALSE
  /\ requests = << >>
  /\ log = << >>
  /\ seen = 0
  /\ slashed = {}
  /\ withdrawn = {}
  /\ allotment = [e \in Eons |-> IF e = 1 THEN Balance ELSE 0]
  /\ commitments = {1}
  /\ spent = [e \in Eons |-> 0]
  /\ marker = [e \in Eons |-> {}]
  /\ queue = << >>
  /\ mined = 0
  /\ slasher = 0
  /\ disorder = {}

Contract == NextEon \/ PassSlack \/ MineSlash \/ MineConfirmation
See == SeeRequest \/ SeeConfirmation
Slashing == BeginSlashing \/ Slash \/ SkipSlashing

Next ==
  \/ Contract
  \/ See
  \/ Slashing
  \/ CreateCheckpoint
  \/ QueueConfirmation
  \/ \E amount \in Amounts : Request(amount) \/ Transfer(amount)

Spec == Init /\ [][Next]_vars

(* Eons pass, transactions are mined and events come in; the heartbeats of *)
(* both workers run their tasks again and again, so that one that can do   *)
(* something while an eon lasts does it.                                   *)
FairSpec ==
  /\ Spec
  /\ WF_vars(MineSlash \/ MineConfirmation) /\ WF_vars(PassSlack)
  /\ SF_vars(NextEon) /\ WF_vars(See)
  /\ SF_vars(BeginSlashing) /\ SF_vars(Slash) /\ WF_vars(Slash \/ SkipSlashing)
  /\ SF_vars(CreateCheckpoint) /\ SF_vars(QueueConfirmation)

-----------------------------------------------------------------------------
(* Properties                                                              *)

TagType == ({"slash"} \X Eons \X Nat \X Nat) \cup ({"confirm"} \X Eons)

TypeOK ==
  /\ eon \in Eons
  /\ late \in BOOLEAN
  /\ requests \in Seq([amount : Amounts, eon : Eons,
                       fate : {"pending", "slashed", "paid"}])
  /\ log \in Seq({"request", "confirmed"} \X Nat)
  /\ seen \in 0 .. Len(log)
  /\ slashed \subseteq Rows /\ withdrawn \subseteq Rows
  /\ allotment \in [Eons -> Nat]
  /\ commitments \subseteq Eons
  /\ spent \in [Eons -> Nat]
  /\ marker \in [Eons -> SUBSET Nat]
  /\ queue \in Seq([tag : TagType, marker : Nat])
  /\ mined \in 0 .. Len(queue)
  /\ slasher \in {0} \cup Eons
  /\ disorder \subseteq Disorders

(* Nothing is at a bad moment, a missed confirmation aside.                *)
Quiet == disorder \subseteq {"missed"}

Fate(fate) == {i \in DOMAIN requests : requests[i].fate = fate}

(* The contract never pays out what the wallet has spent off chain         *)
(* (contractor/tests.py slashes such requests).  It does when a slashing   *)
(* is turned down or mined too late: what the hub has marked as slashed    *)
(* and no longer deducts is paid.                                          *)
NothingIsPaidTwice == Total(Fate("paid")) + SumFunction(spent) <= Balance

(* Only what the hub has marked as slashed is paid twice, unless an eon    *)
(* has passed while the funds of the wallet were negative: a request that  *)
(* was to be slashed then can be out of reach, and is paid.                *)
OnlySlashedIsPaidTwice ==
  "negative" \notin disorder =>
    Total(Fate("paid") \ slashed) + SumFunction(spent) <= Balance

(* In quiet times a wallet whose funds are negative can be slashed: it has *)
(* signed a marker below its pending requests.  Requests that the contract *)
(* drops with the ones before them are left aside: the hub sees them too   *)
(* late to mark them, and goes on to deduct them.                          *)
OverdrawnIsSlashable ==
  (/\ Quiet
   /\ Overdrawn(eon)
   /\ ~ SlashWaits
   /\ \A i \in pending_withdrawals(eon) : requests[i].fate = "pending")
    => ~ Covered(eon)

(* What is slashed on chain is marked, and what is marked is not paid.     *)
MarksAgree == Fate("slashed") \subseteq slashed /\ slashed \cap Fate("paid") = {}

(* The requests found for a confirmation sum up to its amount ("there is   *)
(* something very wrong going on", withdrawal_confirmation.py:46), as long *)
(* as the marks agree with the contract; whether an eon was too short or a *)
(* slashing came late does not matter then.                                *)
ConfirmationsAddUp ==
  MarksAgree /\ seen < Len(log) /\ log[seen + 1][1] = "confirmed"
    => Total(Confirmed(log[seen + 1][2])) = log[seen + 1][2]

(* No request stays pending, all are paid or slashed, while nothing comes  *)
(* at a bad moment.                                                        *)
Unsettled == {i \in Fate("pending") : requests[i].eon <= MaxEon - 2}

RequestsAreSettled == []<>(Unsettled = {} \/ disorder # {})

-----------------------------------------------------------------------------
(* The inductive invariant.  First what holds at all times.                *)

(* An eon has its checkpoint before the next begins, and nothing happens   *)
(* in an eon before it does.  The eon slash_bad_withdrawals has read may   *)
(* pass, but not the checkpoint of the next.                               *)
EonsFollow ==
  /\ commitments = 1 .. eon \/ (eon > 1 /\ commitments = 1 .. eon - 1)
  /\ slasher \in {0, eon} \/ (eon \notin commitments /\ slasher = eon - 1)
  /\ \A e \in Eons : e > eon => spent[e] = 0
  /\ \A e \in Eons : e \notin commitments => allotment[e] = 0

(* A checkpoint is cut when the hub has seen all requests before it, and a *)
(* request is paid two eons later.                                         *)
RowsFollow ==
  /\ \A i \in DOMAIN requests, c \in commitments : requests[i].eon < c => i \in Rows
  /\ \A i \in Fate("paid") : requests[i].eon <= eon - 2

(* A checkpoint allots no more than what is left of the balance.           *)
Before(e) == {i \in Unslashed : requests[i].eon < e}

NothingIsAllottedTwice ==
  \A c \in commitments :
    allotment[c] + SumFunctionOnSet(spent, 1 .. c - 1) + Total(Before(c))
      <= Balance

(* What is spent in an eon is left from the last one.                      *)
SpendingIsCovered ==
  /\ eon > 1 /\ eon \in commitments =>
       allotment[eon] + spent[eon - 1] <= allotment[eon - 1]
  /\ "negative" \notin disorder =>
       IF eon = 1 THEN spent[eon] <= allotment[eon]
       ELSE spent[eon - 1] + spent[eon] <= allotment[eon - 1]

Always ==
  /\ TypeOK
  /\ EonsFollow
  /\ RowsFollow
  /\ NothingIsAllottedTwice
  /\ SpendingIsCovered

(* Then what holds in quiet times.                                         *)

(* The hub has seen the requests of the eons before.                       *)
RequestsFollow ==
  /\ \A i, j \in DOMAIN requests : i < j => requests[i].eon <= requests[j].eon
  /\ \A i \in DOMAIN requests :
       /\ requests[i].eon <= eon
       /\ requests[i].eon < eon => i \in Rows
       /\ \E k \in DOMAIN log : log[k] = << "request", i >>
  /\ \A k \in DOMAIN log :
       log[k][1] = "request" =>
         /\ log[k][2] \in DOMAIN requests
         /\ k > seen => requests[log[k][2]].eon = eon

(* What is marked as slashed is slashed on chain or waits for it, and only *)
(* that.                                                                   *)
FatesAreKnown ==
  /\ \A i \in Fate("paid") : requests[i].eon <= eon - 2 /\ i \notin slashed
  /\ Fate("slashed") \subseteq slashed
  /\ \A i \in slashed \ Fate("slashed") : SlashWaits /\ requests[i].eon >= eon - 1

(* A slashing that waits slashes what is marked, when it is mined.         *)
SlashingWillDo ==
  \A k \in mined + 1 .. Len(queue) :
    queue[k].tag[1] = "slash" =>
      /\ Pending(eon - 1, eon) \subseteq slashed
      /\ queue[k].marker < Total(Pending(eon - 1, eon))
      /\ \A j \in mined + 1 .. Len(queue) : queue[j].tag[1] = "slash" => j = k

(* The hub lacks one confirmation at most.                                 *)
NewConfirmations == {k \in seen + 1 .. Len(log) : log[k][1] = "confirmed"}

PaymentsAreKnown ==
  /\ withdrawn \subseteq Fate("paid")
  /\ NewConfirmations = {} => withdrawn = Fate("paid")
  /\ \A k \in NewConfirmations :
       /\ log[k][2] = Total(Fate("paid") \ withdrawn)
       /\ NewConfirmations = {k}
       /\ Confirmable = {}

(* Who has spent has signed a marker below what was left to spend, all     *)
(* requests of the eon aside.                                              *)
LeftFrom(e) ==
  IF e \in commitments THEN allotment[e] ELSE available_funds_at_eon(e - 1)

SpendingIsMarked ==
  /\ \A e \in 1 .. eon :
       spent[e] > 0 => \E m \in marker[e] : m <= LeftFrom(e) - spent[e]
  /\ eon > 1 => available_funds_at_eon(eon - 1) >= 0

(* What is pending for this eon was covered by the last checkpoint when it *)
(* was requested, and by this one unless the wallet has overdrawn since.   *)
RequestsWereCovered ==
  ~ SlashWaits =>
    IF eon \in commitments
    THEN \/ Total(Pending(eon, eon)) <= allotment[eon]
         \/ /\ eon > 1
            /\ Total(Pending(eon - 1, eon)) <= allotment[eon - 1]
            /\ allotment[eon] = available_funds_at_eon(eon - 1)
    ELSE \/ Pending(eon, eon) = {}
         \/ Total(Pending(eon - 1, eon)) <= allotment[eon - 1]

InStep ==
  /\ RequestsFollow
  /\ FatesAreKnown
  /\ SlashingWillDo
  /\ PaymentsAreKnown
  /\ SpendingIsMarked
  /\ RequestsWereCovered

WithdrawalsInv == Always /\ (Quiet => InStep)
=============================================================================
