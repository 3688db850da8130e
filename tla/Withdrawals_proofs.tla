-------------------------- MODULE Withdrawals_proofs --------------------------
(***************************************************************************)
(* Proofs about Withdrawals, for any balance, amounts, number of eons and  *)
(* of requests.                                                            *)
(***************************************************************************)
EXTENDS Withdrawals, Sums, TLAPS

USE WithdrawalsAssumption
-----------------------------------------------------------------------------
(* Sums of positive numbers.                                               *)

Positive(f, S) == IsFiniteSet(S) /\ \A x \in S : f[x] \in Nat \ {0}

LEMMA PartOfSum ==
  ASSUME NEW f, NEW S, Positive(f, S), NEW R \in SUBSET S
  PROVE  /\ SumFunctionOnSet(f, R) \in Nat
         /\ SumFunctionOnSet(f, S) \in Nat
         /\ SumFunctionOnSet(f, R) <= SumFunctionOnSet(f, S)
         /\ R # S => SumFunctionOnSet(f, R) < SumFunctionOnSet(f, S)
<1>0. IsFiniteSet(S) /\ IsFiniteSet(R) /\ \A x \in S : f[x] \in Nat
  BY FS_Subset DEF Positive
<1>1. /\ SumFunctionOnSet(f, R) \in Nat /\ SumFunctionOnSet(f, S) \in Nat
      /\ SumFunctionOnSet(f, R) <= SumFunctionOnSet(f, S)
  BY <1>0, SumNotNegative, SumOverSubset
<1>2. ASSUME R # S
      PROVE  SumFunctionOnSet(f, R) < SumFunctionOnSet(f, S)
  <2>1. PICK x \in S : x \notin R
    BY <1>2
  <2>2. f[x] \in Nat /\ f[x] > 0
    BY DEF Positive
  <2>3. Counts(f, R) /\ f[x] \in Int
    BY <1>0 DEF Counts
  <2>4. SumFunctionOnSet(f, R \cup {x}) = f[x] + SumFunctionOnSet(f, R)
    BY <1>0, <2>1, <2>3, SumPutIn
  <2>5. SumFunctionOnSet(f, R \cup {x}) <= SumFunctionOnSet(f, S)
    <3>1. R \cup {x} \in SUBSET S
      BY <2>1
    <3> QED BY <1>0, <3>1, SumOverSubset
  <2>6. SumFunctionOnSet(f, R \cup {x}) \in Nat
    BY <1>1, <2>2, <2>4
  <2> QED BY <1>1, <2>2, <2>4, <2>5
<1> QED BY <1>1, <1>2

LEMMA SumOfParts ==
  ASSUME NEW f, NEW S, Positive(f, S), NEW R, Positive(f, R), R \cap S = {}
  PROVE  SumFunctionOnSet(f, R \cup S)
           = SumFunctionOnSet(f, R) + SumFunctionOnSet(f, S)
BY SumOverUnion DEF Positive, Counts

LEMMA Entries ==
  ASSUME NEW T, NEW s \in Seq(T)
  PROVE  /\ Len(s) \in Nat /\ DOMAIN s = 1 .. Len(s)
         /\ \A k \in DOMAIN s : s[k] \in T
OBVIOUS

(* The rows of requests, and what they are about.                          *)
LEMMA TypedRequests ==
  ASSUME TypeOK
  PROVE  /\ Len(requests) \in Nat /\ DOMAIN requests = 1 .. Len(requests)
         /\ IsFiniteSet(DOMAIN requests)
         /\ \A i \in DOMAIN requests :
              /\ requests[i] \in [amount : Amounts, eon : Eons,
                                  fate : {"pending", "slashed", "paid"}]
              /\ requests[i].amount \in Nat \ {0}
              /\ requests[i].eon \in Nat /\ requests[i].eon >= 1
         /\ Positive(AmountsOf(requests), DOMAIN requests)
         /\ eon \in Nat /\ eon >= 1 /\ eon <= MaxEon
<1>1. requests \in Seq([amount : Amounts, eon : Eons,
                        fate : {"pending", "slashed", "paid"}])
  BY DEF TypeOK
<1>2. Len(requests) \in Nat /\ DOMAIN requests = 1 .. Len(requests)
  BY <1>1
<1>3. IsFiniteSet(DOMAIN requests)
  <2>1. 1 \in Int /\ Len(requests) \in Int
    BY <1>2
  <2> QED BY <1>2, <2>1, FS_Interval
<1>4. ASSUME NEW i \in DOMAIN requests
      PROVE  /\ requests[i] \in [amount : Amounts, eon : Eons,
                                 fate : {"pending", "slashed", "paid"}]
             /\ requests[i].amount \in Nat \ {0}
             /\ requests[i].eon \in Nat /\ requests[i].eon >= 1
  <2>1. requests[i] \in [amount : Amounts, eon : Eons,
                         fate : {"pending", "slashed", "paid"}]
    BY <1>1, Entries, ZenonT(60)
  <2>2. requests[i].amount \in Amounts /\ requests[i].eon \in 1 .. MaxEon
    BY <2>1 DEF Eons
  <2>3. Amounts \subseteq Nat \ {0} /\ MaxEon \in Nat
    OBVIOUS
  <2>4. requests[i].eon \in Nat /\ requests[i].eon >= 1
    BY <2>2, <2>3
  <2> QED BY <2>1, <2>2, <2>3, <2>4, Zenon
<1>5. Positive(AmountsOf(requests), DOMAIN requests)
  BY <1>3, <1>4 DEF Positive, AmountsOf
<1>6. eon \in Nat /\ eon >= 1 /\ eon <= MaxEon
  BY DEF TypeOK, Eons
<1> QED BY <1>2, <1>3, <1>4, <1>5, <1>6

LEMMA TotalsAreNumbers ==
  ASSUME TypeOK, NEW S \in SUBSET DOMAIN requests
  PROVE  /\ Total(S) \in Nat
         /\ Positive(AmountsOf(requests), S)
         /\ S = {} => Total(S) = 0
<1>1. Positive(AmountsOf(requests), S)
  BY TypedRequests, FS_Subset DEF Positive
<1>2. S = {} => Total(S) = 0
  BY SumOfNothing DEF Total
<1> QED BY <1>1, <1>2, PartOfSum DEF Total

LEMMA TotalOfPart ==
  ASSUME TypeOK, NEW S \in SUBSET DOMAIN requests, NEW R \in SUBSET S
  PROVE  Total(R) <= Total(S) /\ (R # S => Total(R) < Total(S))
BY TotalsAreNumbers, PartOfSum DEF Total

LEMMA TotalOfParts ==
  ASSUME TypeOK, NEW S \in SUBSET DOMAIN requests,
         NEW R \in SUBSET DOMAIN requests, R \cap S = {}
  PROVE  Total(R \cup S) = Total(R) + Total(S)
BY TotalsAreNumbers, SumOfParts DEF Total

(* Totals go by the amounts of the requests and not by their fates.        *)
LEMMA TotalsStand ==
  ASSUME TypeOK, NEW S \in SUBSET DOMAIN requests,
         NEW rs, S \subseteq DOMAIN rs,
         \A i \in S : rs[i].amount = requests[i].amount
  PROVE  SumFunctionOnSet(AmountsOf(rs), S) = Total(S)
<1>1. IsFiniteSet(S) /\ Counts(AmountsOf(requests), S)
  <2>1. Positive(AmountsOf(requests), S)
    BY TotalsAreNumbers
  <2> QED BY <2>1 DEF Positive, Counts
<1>2. \A i \in S : AmountsOf(requests)[i] = AmountsOf(rs)[i]
  BY DEF AmountsOf
<1> QED BY <1>1, <1>2, SumsAgree DEF Total
-----------------------------------------------------------------------------
(* The invariant holds at first.                                           *)

LEMMA InitInv == Init => WithdrawalsInv
<1> SUFFICES ASSUME Init PROVE WithdrawalsInv
  OBVIOUS
<1> USE DEF Init
<1>0. /\ DOMAIN requests = {} /\ Len(log) = 0 /\ Len(queue) = 0
      /\ DOMAIN log = {} /\ Rows = {} /\ Unslashed = {} /\ 1 \in Eons
      /\ seen + 1 .. Len(log) = {} /\ mined + 1 .. Len(queue) = {}
  BY DEF Rows, Unslashed, Eons
<1>1. TypeOK
  <2>1. allotment \in [Eons -> Nat]
    OBVIOUS
  <2>2. \A T : << >> \in Seq(T)
    OBVIOUS
  <2>3. /\ requests \in Seq([amount : Amounts, eon : Eons,
                            fate : {"pending", "slashed", "paid"}])
        /\ log \in Seq({"request", "confirmed"} \X Nat)
        /\ queue \in Seq([tag : TagType, marker : Nat])
    BY <2>2, Zenon
  <2>4. /\ seen \in 0 .. Len(log) /\ mined \in 0 .. Len(queue) /\ eon \in Eons
        /\ slasher \in {0} \cup Eons /\ commitments \subseteq Eons
        /\ late \in BOOLEAN /\ slashed \subseteq Rows /\ withdrawn \subseteq Rows
        /\ spent \in [Eons -> Nat] /\ marker \in [Eons -> SUBSET Nat]
        /\ disorder \subseteq Disorders
    <3>1. seen \in 0 .. Len(log) /\ mined \in 0 .. Len(queue)
      BY <1>0
    <3>2. eon \in Eons /\ slasher \in {0} \cup Eons /\ commitments \subseteq Eons
      BY <1>0
    <3>3. late \in BOOLEAN /\ slashed \subseteq Rows /\ withdrawn \subseteq Rows
      OBVIOUS
    <3>4. spent \in [Eons -> Nat] /\ marker \in [Eons -> SUBSET Nat]
      OBVIOUS
    <3> QED BY <3>1, <3>2, <3>3, <3>4
  <2> QED BY <2>1, <2>3, <2>4, Zenon DEF TypeOK
<1>2. EonsFollow
  BY DEF EonsFollow
<1>3. RequestsFollow /\ FatesAreKnown /\ SlashingWillDo /\ PaymentsAreKnown
  BY <1>0 DEF RequestsFollow, FatesAreKnown, SlashingWillDo, PaymentsAreKnown, Fate,
         NewConfirmations
<1>4. SpendingIsMarked
  BY DEF SpendingIsMarked, Eons
<1>5. \A S : S \subseteq {} => Total(S) = 0
  <2>1. \A S : S \subseteq {} => S = {}
    OBVIOUS
  <2> QED BY <2>1, SumOfNothing, Zenon DEF Total
<1>6. RequestsWereCovered
  <2>1. Pending(eon, eon) \subseteq {}
    BY <1>0 DEF Pending
  <2>2. Total(Pending(eon, eon)) = 0
    BY <1>5, <2>1
  <2>3. eon \in commitments /\ allotment[eon] >= 0
    BY <1>0
  <2> QED BY <2>2, <2>3 DEF RequestsWereCovered
<1>7. NothingIsAllottedTwice
  <2> SUFFICES ASSUME NEW c \in commitments
               PROVE  allotment[c] + SumFunctionOnSet(spent, 1 .. c - 1)
                        + Total(Before(c)) <= Balance
    BY DEF NothingIsAllottedTwice
  <2>1. c = 1 /\ 1 .. c - 1 = {} /\ allotment[c] = Balance
    BY <1>0
  <2>2. SumFunctionOnSet(spent, 1 .. c - 1) = 0
    BY <2>1, SumOfNothing, Zenon
  <2>3. Total(Before(c)) = 0
    <3>1. Before(c) \subseteq {}
      BY <1>0 DEF Before
    <3> QED BY <1>5, <3>1
  <2> QED BY <2>1, <2>2, <2>3
<1>8. RowsFollow
  BY <1>0 DEF RowsFollow, Fate
<1>9. SpendingIsCovered
  BY <1>0 DEF SpendingIsCovered
<1> QED BY <1>1, <1>2, <1>3, <1>4, <1>6, <1>7, <1>8, <1>9
        DEF WithdrawalsInv, Always, InStep
-----------------------------------------------------------------------------
(* The records of the hub, read off its variables.                         *)

LEMMA Records ==
  ASSUME TypeOK
  PROVE  /\ Rows \subseteq DOMAIN requests /\ Unslashed \subseteq Rows
         /\ slashed \subseteq Rows
         /\ \A e : Of(e) \subseteq Unslashed
         /\ \A e : pending_withdrawals(e) \subseteq Unslashed
         /\ \A a, b : Pending(a, b) \subseteq DOMAIN requests
         /\ \A f : Fate(f) \subseteq DOMAIN requests
         /\ Len(log) \in Nat /\ seen \in Nat /\ seen <= Len(log)
         /\ Len(queue) \in Nat /\ mined \in Nat /\ mined <= Len(queue)
         /\ DOMAIN log = 1 .. Len(log) /\ DOMAIN queue = 1 .. Len(queue)
         /\ \A k \in DOMAIN log : log[k] \in {"request", "confirmed"} \X Nat
         /\ \A k \in DOMAIN queue :
              /\ queue[k] \in [tag : TagType, marker : Nat]
              /\ queue[k].tag[1] \in {"slash", "confirm"} /\ queue[k].marker \in Nat
<1>1. /\ Rows \subseteq DOMAIN requests /\ Unslashed \subseteq Rows
      /\ slashed \subseteq Rows
      /\ \A e : Of(e) \subseteq Unslashed
      /\ \A e : pending_withdrawals(e) \subseteq Unslashed
      /\ \A a, b : Pending(a, b) \subseteq DOMAIN requests
      /\ \A f : Fate(f) \subseteq DOMAIN requests
  BY DEF TypeOK, Rows, Unslashed, Of, pending_withdrawals, Pending, Fate
<1>2. /\ log \in Seq({"request", "confirmed"} \X Nat)
      /\ queue \in Seq([tag : TagType, marker : Nat])
  BY DEF TypeOK
<1>3. /\ Len(log) \in Nat /\ Len(queue) \in Nat
      /\ DOMAIN log = 1 .. Len(log) /\ DOMAIN queue = 1 .. Len(queue)
      /\ \A k \in DOMAIN log : log[k] \in {"request", "confirmed"} \X Nat
      /\ \A k \in DOMAIN queue : queue[k] \in [tag : TagType, marker : Nat]
  BY <1>2, Entries, Zenon
<1>4. /\ seen \in Nat /\ seen <= Len(log) /\ mined \in Nat /\ mined <= Len(queue)
  BY <1>3 DEF TypeOK
<1>5. \A t \in TagType : t[1] \in {"slash", "confirm"}
  BY DEF TagType
<1> QED BY <1>1, <1>3, <1>4, <1>5
-----------------------------------------------------------------------------
(* What a step leaves alone of the funds.                                  *)

AmountsStand ==
  \A i \in DOMAIN requests :
    /\ i \in DOMAIN requests'
    /\ requests'[i].amount = requests[i].amount
    /\ requests'[i].eon = requests[i].eon

LEMMA TotalStands ==
  ASSUME TypeOK, AmountsStand, NEW S \in SUBSET DOMAIN requests
  PROVE  SumFunctionOnSet(AmountsOf(requests'), S) = Total(S)
BY TotalsStand DEF AmountsStand

LEMMA FundsStand ==
  ASSUME TypeOK, AmountsStand, NEW e \in Eons, Of(e)' = Of(e),
         allotment'[e] = allotment[e], spent'[e] = spent[e]
  PROVE  available_funds_at_eon(e)' = available_funds_at_eon(e)
<1>1. Of(e) \in SUBSET DOMAIN requests
  BY Records
<1>2. SumFunctionOnSet(AmountsOf(requests'), Of(e)) = Total(Of(e))
  BY <1>1, TotalStands
<1>3. Total(Of(e))' = Total(Of(e))
  BY <1>2 DEF Total
<1> QED BY <1>3 DEF available_funds_at_eon

LEMMA SpentIsNumber ==
  ASSUME TypeOK, NEW c \in Eons
  PROVE  /\ SumFunctionOnSet(spent, 1 .. c) \in Nat
         /\ SumFunctionOnSet(spent, 1 .. c - 1) \in Nat
         /\ SumFunctionOnSet(spent, 1 .. c)
              = SumFunctionOnSet(spent, 1 .. c - 1) + spent[c]
         /\ spent[c] \in Nat
<1>1. c \in Nat /\ c >= 1 /\ spent \in [Eons -> Nat] /\ 1 .. c \subseteq Eons
  BY DEF Eons, TypeOK
<1>2. IsFiniteSet(1 .. c) /\ IsFiniteSet(1 .. c - 1)
  <2>1. 1 \in Int /\ c \in Int /\ c - 1 \in Int
    BY <1>1
  <2> QED BY <2>1, FS_Interval
<1>3. (\A x \in 1 .. c : spent[x] \in Nat) /\ (\A x \in 1 .. c - 1 : spent[x] \in Nat)
  <2>1. 1 .. c - 1 \subseteq 1 .. c
    BY <1>1
  <2> QED BY <1>1, <2>1
<1>4. /\ SumFunctionOnSet(spent, 1 .. c) \in Nat
      /\ SumFunctionOnSet(spent, 1 .. c - 1) \in Nat
  BY <1>2, <1>3, SumNotNegative
<1>5. c \in 1 .. c /\ (1 .. c) \ {c} = 1 .. c - 1
  BY <1>1
<1>6. SumFunctionOnSet(spent, 1 .. c)
        = spent[c] + SumFunctionOnSet(spent, (1 .. c) \ {c})
  BY SMTT(60), <1>2, <1>3, <1>5, SumTakeOut DEF Counts
<1>7. SumFunctionOnSet(spent, 1 .. c)
        = spent[c] + SumFunctionOnSet(spent, 1 .. c - 1)
  BY <1>5, <1>6, Zenon
<1> QED BY <1>1, <1>4, <1>7

LEMMA FundsGrow ==
  ASSUME TypeOK, AmountsStand, NEW e \in Eons, Of(e)' \subseteq Of(e),
         allotment'[e] = allotment[e], spent'[e] = spent[e]
  PROVE  /\ available_funds_at_eon(e)' \in Int /\ available_funds_at_eon(e) \in Int
         /\ available_funds_at_eon(e)' >= available_funds_at_eon(e)
<1>1. Of(e) \in SUBSET DOMAIN requests /\ Of(e)' \in SUBSET DOMAIN requests
  BY Records
<1>2. /\ SumFunctionOnSet(AmountsOf(requests'), Of(e)') = Total(Of(e)')
      /\ Total(Of(e)') <= Total(Of(e))
      /\ Total(Of(e)') \in Nat /\ Total(Of(e)) \in Nat
  BY <1>1, TotalStands, TotalOfPart, TotalsAreNumbers
<1>3. Total(Of(e))' = Total(Of(e)')
  BY <1>2 DEF Total
<1>4. allotment[e] \in Nat /\ spent[e] \in Nat
  BY DEF TypeOK
<1> QED BY <1>2, <1>3, <1>4 DEF available_funds_at_eon

LEMMA FundsFrame ==
  ASSUME Always, InStep, AmountsStand, UNCHANGED << eon, ledger >>,
         \A e \in Eons : e < eon => Of(e)' \subseteq Of(e)
  PROVE  SpendingIsMarked'
<1>0. /\ TypeOK /\ EonsFollow /\ SpendingIsMarked
      /\ UNCHANGED << allotment, commitments, spent, marker >>
      /\ eon \in Nat /\ eon <= MaxEon /\ commitments \subseteq Eons
      /\ allotment \in [Eons -> Nat] /\ spent \in [Eons -> Nat]
      /\ marker \in [Eons -> SUBSET Nat]
  BY TypedRequests DEF Always, InStep, ledger, TypeOK
<1>1. ASSUME NEW e \in Eons, e < eon
      PROVE  /\ available_funds_at_eon(e)' \in Int /\ available_funds_at_eon(e) \in Int
             /\ available_funds_at_eon(e)' >= available_funds_at_eon(e)
  BY <1>0, <1>1, FundsGrow
<1>2. ASSUME NEW e \in 1 .. eon
      PROVE  /\ LeftFrom(e)' \in Int /\ LeftFrom(e) \in Int
             /\ LeftFrom(e)' >= LeftFrom(e)
  <2>1. CASE e \in commitments
    <3>1. allotment[e] \in Nat
      BY <1>0, <2>1
    <3> QED BY <1>0, <2>1, <3>1 DEF LeftFrom
  <2>2. CASE e \notin commitments
    <3>1. e > 1 /\ e - 1 \in Eons /\ e - 1 < eon
      BY <1>0, <2>2 DEF EonsFollow, Eons
    <3>2. \A d \in Eons : d = e - 1 =>
            available_funds_at_eon(e - 1)' = available_funds_at_eon(d)'
      OBVIOUS
    <3>3. /\ available_funds_at_eon(e - 1)' >= available_funds_at_eon(e - 1)
          /\ available_funds_at_eon(e - 1)' \in Int
          /\ available_funds_at_eon(e - 1) \in Int
      BY <1>1, <3>1, <3>2
    <3> QED BY <1>0, <2>2, <3>3 DEF LeftFrom
  <2> QED BY <2>1, <2>2
<1>3. eon > 1 => available_funds_at_eon(eon - 1)' >= 0
  <2>1. eon > 1 => eon - 1 \in Eons /\ eon - 1 < eon
    BY <1>0 DEF Eons
  <2>2. \A d \in Eons : d = eon - 1 =>
          available_funds_at_eon(eon - 1)' = available_funds_at_eon(d)'
    BY <1>0
  <2> QED BY <1>0, <1>1, <2>1, <2>2 DEF SpendingIsMarked
<1>4. SpendingIsMarked'
  <2>1. ASSUME NEW e \in 1 .. eon, spent[e] > 0
        PROVE  \E m \in marker[e] : m <= LeftFrom(e)' - spent[e]
    <3>1. PICK m \in marker[e] : m <= LeftFrom(e) - spent[e]
      BY <1>0, <2>1 DEF SpendingIsMarked
    <3>2. m \in Nat /\ spent[e] \in Nat
      BY <1>0 DEF Eons
    <3> QED BY <1>2, <3>1, <3>2
  <2> QED BY <1>0, <1>3, <2>1 DEF SpendingIsMarked
<1> QED BY <1>4

LEMMA CoverFrame ==
  ASSUME Always, InStep, AmountsStand, UNCHANGED << eon, ledger >>,
         ~ SlashWaits' => ~ SlashWaits,
         eon > 1 => Of(eon - 1)' = Of(eon - 1),
         Pending(eon, eon)' = Pending(eon, eon),
         Pending(eon - 1, eon)' = Pending(eon - 1, eon)
  PROVE  RequestsWereCovered'
<1>0. /\ TypeOK /\ RequestsWereCovered
      /\ UNCHANGED << allotment, commitments, spent >>
      /\ eon \in Nat /\ eon >= 1 /\ eon <= MaxEon
  BY TypedRequests DEF Always, InStep, ledger
<1>1. eon > 1 => available_funds_at_eon(eon - 1)' = available_funds_at_eon(eon - 1)
  <2>1. ASSUME NEW d \in Eons, d = eon - 1, eon > 1
        PROVE  available_funds_at_eon(d)' = available_funds_at_eon(d)
    <3>1. Of(d)' = Of(eon - 1)'
      BY <2>1
    <3> QED BY <1>0, <2>1, <3>1, FundsStand
  <2>2. eon > 1 => eon - 1 \in Eons
    BY <1>0 DEF Eons
  <2>3. \A d \in Eons : d = eon - 1 =>
          available_funds_at_eon(eon - 1)' = available_funds_at_eon(d)'
    BY <1>0
  <2> QED BY <2>1, <2>2, <2>3
<1>2. /\ Total(Pending(eon, eon))' = Total(Pending(eon, eon))
      /\ Total(Pending(eon - 1, eon))' = Total(Pending(eon - 1, eon))
  <2>1. /\ SumFunctionOnSet(AmountsOf(requests'), Pending(eon, eon))
              = Total(Pending(eon, eon))
        /\ SumFunctionOnSet(AmountsOf(requests'), Pending(eon - 1, eon))
              = Total(Pending(eon - 1, eon))
    BY <1>0, Records, TotalStands
  <2> QED BY <2>1 DEF Total
<1> QED BY <1>0, <1>1, <1>2 DEF RequestsWereCovered
(* A slashing that goes on waiting will do what it would have done.        *)
LEMMA SlashingFrame ==
  ASSUME SlashingWillDo, UNCHANGED << eon, slashed >>,
         Pending(eon - 1, eon)' = Pending(eon - 1, eon),
         Total(Pending(eon - 1, eon))' = Total(Pending(eon - 1, eon)),
         \A k : (k \in mined' + 1 .. Len(queue') /\ queue'[k].tag[1] = "slash")
                  => k \in mined + 1 .. Len(queue) /\ queue'[k] = queue[k]
  PROVE  SlashingWillDo'
<1> SUFFICES ASSUME NEW k \in mined' + 1 .. Len(queue'),
                    queue'[k].tag[1] = "slash"
             PROVE  /\ Pending(eon - 1, eon)' \subseteq slashed'
                    /\ queue'[k].marker < Total(Pending(eon - 1, eon))'
                    /\ \A j \in mined' + 1 .. Len(queue') :
                         queue'[j].tag[1] = "slash" => j = k
  BY DEF SlashingWillDo
<1>1. /\ k \in mined + 1 .. Len(queue) /\ queue'[k] = queue[k]
      /\ queue[k].tag[1] = "slash"
  OBVIOUS
<1>2. /\ Pending(eon - 1, eon) \subseteq slashed
      /\ queue[k].marker < Total(Pending(eon - 1, eon))
      /\ \A j \in mined + 1 .. Len(queue) : queue[j].tag[1] = "slash" => j = k
  BY <1>1 DEF SlashingWillDo
<1>3. ASSUME NEW j \in mined' + 1 .. Len(queue'), queue'[j].tag[1] = "slash"
      PROVE  j = k
  BY <1>2, <1>3
<1> QED BY <1>1, <1>2, <1>3
-----------------------------------------------------------------------------
(* Sequences, requests and markers.                                        *)

LEMMA Appended ==
  ASSUME NEW T, NEW s \in Seq(T), NEW x \in T
  PROVE  /\ Append(s, x) \in Seq(T) /\ Len(Append(s, x)) = Len(s) + 1
         /\ DOMAIN Append(s, x) = 1 .. Len(s) + 1 /\ Len(s) \in Nat
         /\ \A k \in 1 .. Len(s) : Append(s, x)[k] = s[k]
         /\ Append(s, x)[Len(s) + 1] = x
OBVIOUS

RequestType == [amount : Amounts, eon : Eons, fate : {"pending", "slashed", "paid"}]

LEMMA Settled ==
  ASSUME TypeOK, NEW S, NEW fate \in {"slashed", "paid"},
         requests' = Settle(S, fate)
  PROVE  /\ requests' \in Seq(RequestType)
         /\ DOMAIN requests' = DOMAIN requests
         /\ AmountsStand
         /\ \A i \in DOMAIN requests :
              requests'[i].fate = IF i \in S THEN fate ELSE requests[i].fate
<1>1. /\ requests \in Seq(RequestType) /\ Len(requests) \in Nat
      /\ DOMAIN requests = 1 .. Len(requests)
      /\ \A i \in DOMAIN requests : requests[i] \in RequestType
  BY TypedRequests DEF TypeOK, RequestType
<1>2. ASSUME NEW i \in DOMAIN requests
      PROVE  /\ requests'[i] \in RequestType
             /\ requests'[i].amount = requests[i].amount
             /\ requests'[i].eon = requests[i].eon
             /\ requests'[i].fate = IF i \in S THEN fate ELSE requests[i].fate
  BY <1>1 DEF Settle, RequestType
<1>3. requests' = [i \in 1 .. Len(requests) |-> requests'[i]]
  BY <1>1 DEF Settle
<1>4. requests' \in Seq(RequestType) /\ DOMAIN requests' = DOMAIN requests
  <2>1. requests' \in [1 .. Len(requests) -> RequestType]
    BY <1>1, <1>2, <1>3
  <2> QED BY <1>1, <2>1
<1> QED BY <1>2, <1>4 DEF AmountsStand

LEMMA MarkersAreNumbers ==
  ASSUME TypeOK, NEW e
  PROVE  /\ Markers(e) \subseteq Nat
         /\ Markers(e) # {} =>
              /\ Min(Markers(e)) \in Markers(e)
              /\ \A m \in Markers(e) : Min(Markers(e)) <= m
<1>1. Markers(e) \subseteq Nat
  BY DEF Markers, TypeOK
<1>2. ASSUME Markers(e) # {}
      PROVE  /\ Min(Markers(e)) \in Markers(e)
             /\ \A m \in Markers(e) : Min(Markers(e)) <= m
  <2>1. PICK m \in Markers(e) : \A k \in Markers(e) : m <= k
    BY <1>1, <1>2, LeastNumber
  <2>2. Min(Markers(e)) = CHOOSE x \in Markers(e) : \A y \in Markers(e) : x <= y
    BY DEF Min
  <2> QED BY <2>1, <2>2
<1> QED BY <1>1, <1>2

LEMMA LastCommittedIs ==
  ASSUME Always
  PROVE  /\ LastCommitted \in commitments /\ LastCommitted \in Eons
         /\ LastCommitted = IF eon \in commitments THEN eon ELSE eon - 1
         /\ eon \notin commitments => eon > 1
<1>1. /\ eon \in Nat /\ eon >= 1 /\ commitments \subseteq Eons
      /\ commitments = 1 .. eon \/ (eon > 1 /\ commitments = 1 .. eon - 1)
  BY TypedRequests DEF Always, TypeOK, EonsFollow
<1> DEFINE last == IF eon \in commitments THEN eon ELSE eon - 1
<1>2. /\ last \in commitments /\ \A f \in commitments : f <= last
      /\ commitments \subseteq Nat /\ last \in Nat
      /\ eon \notin commitments => eon > 1
  BY <1>1
<1> HIDE DEF last
<1>3. /\ LastCommitted \in commitments
      /\ \A f \in commitments : f <= LastCommitted
  BY <1>2 DEF LastCommitted
<1>4. LastCommitted = last
  BY <1>2, <1>3
<1> QED BY <1>1, <1>2, <1>3, <1>4 DEF last

LEMMA LooselyLeft ==
  ASSUME Always
  PROVE  /\ LeftFrom(eon) \in Int /\ Total(Of(eon)) \in Nat
         /\ allotment[eon] \in Nat /\ spent[eon] \in Nat
         /\ loosely_available_funds_at_eon(eon)
              = LeftFrom(eon) - spent[eon] - Total(Of(eon))
<1>1. /\ TypeOK /\ eon \in Eons /\ eon \in Nat /\ eon >= 1 /\ eon <= MaxEon
      /\ allotment \in [Eons -> Nat] /\ spent \in [Eons -> Nat]
  BY TypedRequests DEF Always, TypeOK
<1>2. /\ Total(Of(eon)) \in Nat /\ allotment[eon] \in Nat /\ spent[eon] \in Nat
      /\ available_funds_at_eon(eon) = allotment[eon] - spent[eon] - Total(Of(eon))
  BY <1>1, Records, TotalsAreNumbers DEF available_funds_at_eon
<1>3. eon \notin commitments =>
        /\ available_funds_at_eon(eon - 1) \in Int
        /\ allotment[eon] = 0
  <2> SUFFICES ASSUME eon \notin commitments
               PROVE  available_funds_at_eon(eon - 1) \in Int /\ allotment[eon] = 0
    OBVIOUS
  <2>1. eon - 1 \in Eons
    BY <1>1, LastCommittedIs DEF Eons
  <2>2. Total(Of(eon - 1)) \in Nat
    BY <1>1, Records, TotalsAreNumbers
  <2> QED BY <1>1, <2>1, <2>2 DEF available_funds_at_eon, Always, EonsFollow
<1> QED BY <1>2, <1>3 DEF LeftFrom, loosely_available_funds_at_eon
-----------------------------------------------------------------------------
(* What holds at all times.  First the steps that leave the ledger alone.  *)

LEMMA AlwaysFrame ==
  ASSUME Always, TypeOK', AmountsStand, disorder \subseteq disorder',
         UNCHANGED << eon, allotment, commitments, spent >>,
         slasher' \in {0, eon, slasher},
         \A i \in DOMAIN requests' : i \in DOMAIN requests \/ requests'[i].eon = eon,
         Rows \subseteq Rows', slashed \subseteq slashed',
         \A i \in Fate("paid")' : i \in Fate("paid") \/ requests'[i].eon <= eon - 2
  PROVE  Always'
<1>1. /\ TypeOK /\ EonsFollow /\ RowsFollow /\ NothingIsAllottedTwice
      /\ eon \in Nat /\ eon >= 1 /\ commitments \subseteq 1 .. eon
      /\ allotment \in [Eons -> Nat] /\ spent \in [Eons -> Nat]
      /\ commitments \subseteq Eons
  <2>1. /\ TypeOK /\ EonsFollow /\ RowsFollow /\ NothingIsAllottedTwice
        /\ eon \in Nat /\ eon >= 1
    BY TypedRequests DEF Always
  <2>2. commitments \subseteq 1 .. eon
    BY <2>1 DEF EonsFollow
  <2> QED BY <2>1, <2>2 DEF TypeOK
<1>2. EonsFollow'
  BY <1>1 DEF EonsFollow
<1>3. RowsFollow'
  <2>1. ASSUME NEW i \in DOMAIN requests', NEW c \in commitments, requests'[i].eon < c
        PROVE  i \in Rows'
    <3>1. requests'[i].eon # eon
      BY <1>1, <2>1
    <3>2. i \in DOMAIN requests /\ requests[i].eon < c
      BY <2>1, <3>1 DEF AmountsStand
    <3> QED BY <1>1, <3>2 DEF RowsFollow
  <2>2. \A i \in Fate("paid")' : requests'[i].eon <= eon - 2
    BY <1>1, Records DEF RowsFollow, AmountsStand
  <2> QED BY <2>1, <2>2 DEF RowsFollow
<1>4. ASSUME NEW c \in commitments
      PROVE  /\ Total(Before(c))' <= Total(Before(c))
             /\ Total(Before(c))' \in Nat /\ Total(Before(c)) \in Nat
  <2>1. Before(c)' \subseteq Before(c)
    <3> SUFFICES ASSUME NEW i \in Before(c)' PROVE i \in Before(c)
      OBVIOUS
    <3>1. i \in DOMAIN requests' /\ requests'[i].eon < c /\ i \notin slashed
      BY DEF Before, Unslashed, Rows
    <3>2. requests'[i].eon # eon
      BY <1>1, <3>1
    <3>3. i \in DOMAIN requests /\ requests[i].eon < c
      BY <3>1, <3>2 DEF AmountsStand
    <3> QED BY <1>1, <3>1, <3>3 DEF RowsFollow, Before, Unslashed
  <2>2. Before(c) \in SUBSET DOMAIN requests /\ Before(c)' \in SUBSET DOMAIN requests
    BY <1>1, <2>1, Records DEF Before
  <2>3. /\ SumFunctionOnSet(AmountsOf(requests'), Before(c)') = Total(Before(c)')
        /\ Total(Before(c)') <= Total(Before(c))
        /\ Total(Before(c)') \in Nat /\ Total(Before(c)) \in Nat
    BY <1>1, <2>1, <2>2, TotalStands, TotalOfPart, TotalsAreNumbers
  <2> QED BY <2>3 DEF Total
<1>5. NothingIsAllottedTwice'
  <2>1. ASSUME NEW c \in commitments
        PROVE  allotment[c] + SumFunctionOnSet(spent, 1 .. c - 1) + Total(Before(c))'
                 <= Balance
    <3>1. /\ allotment[c] \in Nat
          /\ allotment[c] + SumFunctionOnSet(spent, 1 .. c - 1) + Total(Before(c))
               <= Balance
      BY <1>1 DEF NothingIsAllottedTwice
    <3>2. SumFunctionOnSet(spent, 1 .. c - 1) \in Int
      BY <1>1, SpentIsNumber
    <3> QED BY <1>4, <3>1, <3>2
  <2> QED BY <2>1 DEF NothingIsAllottedTwice
<1>6. SpendingIsCovered'
  BY DEF Always, SpendingIsCovered
<1> QED BY <1>2, <1>3, <1>5, <1>6 DEF Always

LEMMA QuietAlways ==
  ASSUME Always,
         UNCHANGED << eon, requests, log, records, ledger, transactions, disorder >>,
         late' \in BOOLEAN, slasher' \in {0, eon, slasher}
  PROVE  Always'
<1>1. UNCHANGED << seen, slashed, withdrawn, allotment, commitments, spent,
                   marker, queue, mined >>
  BY DEF records, ledger, transactions
<1>2. Rows' = Rows /\ Fate("paid")' = Fate("paid") /\ AmountsStand
  BY <1>1 DEF Rows, Fate, AmountsStand
<1>3. TypeOK'
  <2>1. TypeOK
    BY DEF Always
  <2>2. slasher' \in {0} \cup Eons
    BY <2>1 DEF TypeOK
  <2> QED BY <1>1, <1>2, <2>1, <2>2, Zenon DEF TypeOK
<1> QED BY <1>1, <1>2, <1>3, AlwaysFrame

LEMMA QueueConfirmationAlways ==
  ASSUME Always, QueueConfirmation
  PROVE  Always'
<1> DEFINE call == [tag |-> << "confirm", eon >>, marker |-> 0]
<1>1. /\ UNCHANGED << eon, late, requests, log, seen, slashed, withdrawn, allotment,
                      commitments, spent, marker, mined, slasher, disorder >>
      /\ queue' = Append(queue, call)
  BY DEF QueueConfirmation, chain, records, ledger
<1>2. /\ TypeOK /\ call \in [tag : TagType, marker : Nat]
      /\ queue \in Seq([tag : TagType, marker : Nat])
      /\ mined \in Nat /\ mined <= Len(queue) /\ Len(queue) \in Nat
  BY Records DEF Always, TypeOK, TagType
<1> HIDE DEF call
<1>3. queue' \in Seq([tag : TagType, marker : Nat]) /\ Len(queue') = Len(queue) + 1
  BY <1>1, <1>2, Appended
<1>4. Rows' = Rows /\ Fate("paid")' = Fate("paid") /\ AmountsStand
  BY <1>1 DEF Rows, Fate, AmountsStand
<1>5. TypeOK'
  <2>1. mined' \in 0 .. Len(queue')
    BY <1>1, <1>2, <1>3
  <2> QED BY <1>1, <1>2, <1>3, <1>4, <2>1, Zenon DEF TypeOK
<1> QED BY <1>1, <1>4, <1>5, AlwaysFrame

LEMMA SeeAlways ==
  ASSUME Always, See
  PROVE  Always'
<1>1. /\ UNCHANGED << eon, late, requests, log, slashed, allotment, commitments,
                      spent, marker, queue, mined, slasher, disorder >>
      /\ seen < Len(log) /\ seen' = seen + 1
      /\ \/ withdrawn' = withdrawn
         \/ withdrawn' = withdrawn \cup Confirmed(log[seen + 1][2])
  BY DEF See, SeeRequest, SeeConfirmation, chain, ledger, transactions
<1>2. TypeOK /\ seen \in Nat /\ Len(log) \in Nat
  BY Records DEF Always
<1>3. Rows \subseteq Rows'
  <2>1. \A k \in 1 .. seen : k \in 1 .. seen'
    BY <1>1, <1>2
  <2> QED BY <1>1, <2>1 DEF Rows
<1>4. Fate("paid")' = Fate("paid") /\ AmountsStand
  BY <1>1 DEF Fate, AmountsStand
<1>5. TypeOK'
  <2>1. seen' \in 0 .. Len(log')
    BY <1>1, <1>2
  <2>2. slashed' \subseteq Rows' /\ withdrawn' \subseteq Rows'
    BY <1>1, <1>2, <1>3 DEF TypeOK, Confirmed, Unslashed
  <2> QED BY <1>1, <1>2, <2>1, <2>2, Zenon DEF TypeOK
<1> QED BY <1>1, <1>3, <1>4, <1>5, AlwaysFrame

LEMMA MineConfirmationAlways ==
  ASSUME Always, MineConfirmation
  PROVE  Always'
<1>1. /\ UNCHANGED << eon, late, seen, slashed, withdrawn, allotment, commitments,
                      spent, marker, queue, slasher, disorder >>
      /\ mined < Len(queue) /\ mined' = mined + 1
      /\ requests' = Settle(Confirmable, "paid")
      /\ log' = IF Confirmable = {} THEN log
                ELSE Append(log, << "confirmed", Total(Confirmable) >>)
  BY DEF MineConfirmation, records, ledger
<1>2. /\ TypeOK /\ seen \in Nat /\ Len(log) \in Nat /\ seen <= Len(log)
      /\ eon \in Nat /\ mined \in Nat /\ Len(queue) \in Nat
      /\ log \in Seq({"request", "confirmed"} \X Nat)
      /\ Confirmable \in SUBSET DOMAIN requests
  BY Records, TypedRequests DEF Always, TypeOK, Confirmable
<1>3. /\ requests' \in Seq(RequestType) /\ DOMAIN requests' = DOMAIN requests
      /\ AmountsStand
      /\ \A i \in DOMAIN requests :
           requests'[i].fate = IF i \in Confirmable THEN "paid" ELSE requests[i].fate
  BY <1>1, <1>2, Settled
<1>4. /\ log' \in Seq({"request", "confirmed"} \X Nat)
      /\ \A k \in 1 .. Len(log) : log'[k] = log[k]
      /\ Len(log') \in Nat /\ Len(log') >= Len(log)
  <2> DEFINE event == << "confirmed", Total(Confirmable) >>
  <2>1. event \in {"request", "confirmed"} \X Nat
    BY <1>2, TotalsAreNumbers
  <2>2. log' = log \/ log' = Append(log, event)
    BY <1>1
  <2> HIDE DEF event
  <2>3. CASE log' = log
    BY <1>2, <2>3
  <2>4. CASE log' = Append(log, event)
    BY <1>2, <2>1, <2>4, Appended
  <2> QED BY <2>2, <2>3, <2>4
<1>5. Rows' = Rows
  <2>1. \A k \in 1 .. seen : log'[k] = log[k]
    BY <1>2, <1>4
  <2> QED BY <1>1, <1>3, <2>1 DEF Rows
<1>6. TypeOK'
  <2>1. mined' \in 0 .. Len(queue') /\ seen' \in 0 .. Len(log')
    BY <1>1, <1>2, <1>4
  <2>2. slashed' \subseteq Rows' /\ withdrawn' \subseteq Rows'
    BY <1>1, <1>2, <1>5 DEF TypeOK
  <2> QED BY <1>1, <1>2, <1>3, <1>4, <2>1, <2>2, Zenon DEF TypeOK, RequestType
<1>7. \A i \in Fate("paid")' : i \in Fate("paid") \/ requests'[i].eon <= eon - 2
  <2>1. \A i \in Confirmable : requests[i].eon <= eon - 2
    BY <1>2 DEF Confirmable, Pending
  <2> QED BY <1>2, <1>3, <2>1 DEF Fate, AmountsStand
<1> QED BY <1>1, <1>3, <1>5, <1>6, <1>7, AlwaysFrame

LEMMA MineSlashAlways ==
  ASSUME Always, MineSlash
  PROVE  Always'
<1>1. /\ UNCHANGED << eon, late, log, seen, slashed, withdrawn, allotment,
                      commitments, spent, marker, queue, slasher, disorder >>
      /\ mined < Len(queue) /\ mined' = mined + 1
      /\ requests' = requests \/ requests' = Settle(Slashable, "slashed")
  BY DEF MineSlash, records, ledger
<1>2. /\ TypeOK /\ mined \in Nat /\ Len(queue) \in Nat
      /\ requests \in Seq(RequestType)
  BY Records DEF Always, TypeOK, RequestType
<1>3. /\ requests' \in Seq(RequestType) /\ DOMAIN requests' = DOMAIN requests
      /\ AmountsStand
      /\ \A i \in DOMAIN requests : requests'[i].fate \in {requests[i].fate, "slashed"}
  <2>1. CASE requests' = requests
    BY <1>2, <2>1 DEF AmountsStand
  <2>2. CASE requests' = Settle(Slashable, "slashed")
    BY <1>2, <2>2, Settled
  <2> QED BY <1>1, <2>1, <2>2
<1>4. Rows' = Rows
  BY <1>1, <1>3 DEF Rows
<1>5. TypeOK'
  <2>1. mined' \in 0 .. Len(queue')
    BY <1>1, <1>2
  <2>2. slashed' \subseteq Rows' /\ withdrawn' \subseteq Rows'
    BY <1>1, <1>2, <1>4 DEF TypeOK
  <2> QED BY <1>1, <1>2, <1>3, <2>1, <2>2, Zenon DEF TypeOK, RequestType
<1>6. \A i \in Fate("paid")' : i \in Fate("paid")
  BY <1>3 DEF Fate
<1> QED BY <1>1, <1>3, <1>4, <1>5, <1>6, AlwaysFrame

LEMMA RequestAlways ==
  ASSUME Always, NEW amount \in Amounts, Request(amount)
  PROVE  Always'
<1> DEFINE n == Len(requests) + 1
           request == [amount |-> amount, eon |-> eon, fate |-> "pending"]
           event == << "request", n >>
<1>1. /\ UNCHANGED << eon, late, seen, slashed, withdrawn, allotment,
                      commitments, spent, marker, queue, mined, slasher >>
      /\ requests' = Append(requests, request)
      /\ log' = Append(log, event)
      /\ disorder' \in {disorder, disorder \cup {"slashing"}}
  BY DEF Request, Note, records, ledger, transactions
<1>2. /\ TypeOK /\ eon \in Eons
      /\ requests \in Seq(RequestType) /\ Len(requests) \in Nat
      /\ log \in Seq({"request", "confirmed"} \X Nat) /\ Len(log) \in Nat
      /\ DOMAIN requests = 1 .. Len(requests) /\ seen \in Nat /\ seen <= Len(log)
  BY Records, TypedRequests DEF Always, TypeOK, RequestType
<1>3. request \in RequestType /\ event \in {"request", "confirmed"} \X Nat
  BY <1>2 DEF RequestType
<1>4. /\ requests' \in Seq(RequestType) /\ DOMAIN requests' = 1 .. n
      /\ \A i \in DOMAIN requests : requests'[i] = requests[i]
      /\ requests'[n] = request
  <2> HIDE DEF request
  <2> QED BY <1>1, <1>2, <1>3, Appended
<1>5. /\ log' \in Seq({"request", "confirmed"} \X Nat) /\ Len(log') = Len(log) + 1
      /\ \A k \in 1 .. Len(log) : log'[k] = log[k]
  <2> HIDE DEF event
  <2> QED BY <1>1, <1>2, <1>3, Appended
<1>6. /\ requests'[n].eon = eon /\ requests'[n].fate = "pending"
      /\ DOMAIN requests' = DOMAIN requests \cup {n}
  BY <1>2, <1>4
<1> HIDE DEF request, event, n
<1>7. AmountsStand /\ Rows \subseteq Rows'
  <2>1. \A k \in 1 .. seen : log'[k] = log[k]
    BY <1>2, <1>5
  <2> QED BY <1>1, <1>4, <1>6, <2>1 DEF AmountsStand, Rows
<1>8. TypeOK'
  <2>1. seen' \in 0 .. Len(log')
    BY <1>1, <1>2, <1>5
  <2>2. slashed' \subseteq Rows' /\ withdrawn' \subseteq Rows'
    BY <1>1, <1>2, <1>7 DEF TypeOK
  <2>3. disorder' \subseteq Disorders
    BY <1>1, <1>2 DEF TypeOK, Disorders
  <2> QED BY <1>1, <1>2, <1>4, <1>5, <2>1, <2>2, <2>3, Zenon DEF TypeOK, RequestType
<1>9. /\ \A i \in DOMAIN requests' : i \in DOMAIN requests \/ requests'[i].eon = eon
      /\ \A i \in Fate("paid")' : i \in Fate("paid")
  BY <1>4, <1>6 DEF Fate
<1> QED BY <1>1, <1>7, <1>8, <1>9, AlwaysFrame

LEMMA SlashCall ==
  ASSUME TypeOK, Slash
  PROVE  [tag |-> slash_tag(slasher), marker |-> Min(Markers(slasher))]
           \in [tag : TagType, marker : Nat]
<1>1. slasher \in Eons /\ Markers(slasher) # {}
  BY DEF TypeOK, Slash, Covered
<1>2. Min(Markers(slasher)) \in Nat
  BY <1>1, MarkersAreNumbers
<1>3. /\ pending_withdrawals(slasher) \in SUBSET DOMAIN requests
      /\ {i \in Rows : requests[i].eon = slasher} \subseteq DOMAIN requests
  BY Records
<1>4. /\ Cardinality({i \in Rows : requests[i].eon = slasher}) \in Nat
      /\ Total(pending_withdrawals(slasher)) \in Nat
  BY <1>3, TypedRequests, TotalsAreNumbers, FS_Subset, FS_CardinalityType
<1> QED BY <1>1, <1>2, <1>4 DEF slash_tag, TagType

LEMMA SlashAlways ==
  ASSUME Always, Slash
  PROVE  Always'
<1> DEFINE call == [tag |-> slash_tag(slasher), marker |-> Min(Markers(slasher))]
<1>1. /\ UNCHANGED << eon, late, requests, log, seen, withdrawn, allotment,
                      commitments, spent, marker, mined >>
      /\ queue' = Append(queue, call)
      /\ slashed' = slashed \cup pending_withdrawals(slasher)
      /\ slasher' = 0
      /\ disorder' \in {disorder, disorder \cup {"slashing"}}
  BY DEF Slash, Note, Marked, chain, ledger
<1>2. /\ TypeOK /\ call \in [tag : TagType, marker : Nat]
      /\ queue \in Seq([tag : TagType, marker : Nat])
      /\ mined \in Nat /\ mined <= Len(queue) /\ Len(queue) \in Nat
  BY Records, SlashCall DEF Always, TypeOK
<1> HIDE DEF call
<1>3. queue' \in Seq([tag : TagType, marker : Nat]) /\ Len(queue') = Len(queue) + 1
  BY <1>1, <1>2, Appended
<1>4. Rows' = Rows /\ Fate("paid")' = Fate("paid") /\ AmountsStand
  BY <1>1 DEF Rows, Fate, AmountsStand
<1>5. TypeOK'
  <2>1. mined' \in 0 .. Len(queue') /\ slasher' \in {0} \cup Eons
    BY <1>1, <1>2, <1>3
  <2>2. slashed' \subseteq Rows' /\ withdrawn' \subseteq Rows'
    BY <1>1, <1>2, <1>4, Records DEF TypeOK
  <2>3. disorder' \subseteq Disorders /\ seen' \in 0 .. Len(log')
    BY <1>1, <1>2 DEF TypeOK, Disorders
  <2> QED BY <1>1, <1>2, <1>3, <2>1, <2>2, <2>3, Zenon DEF TypeOK
<1> QED BY <1>1, <1>4, <1>5, AlwaysFrame

(* Then those of the ledger, and the end of the eon.                       *)

LEMMA CreateCheckpointAlways ==
  ASSUME Always, CreateCheckpoint
  PROVE  Always'
<1>0. /\ UNCHANGED << eon, late, requests, log, seen, slashed, withdrawn,
                      spent, marker, queue, mined, slasher, disorder >>
      /\ eon \notin commitments /\ slasher = 0
      /\ \A i \in DOMAIN requests : requests[i].eon < eon => i \in Rows
      /\ available_funds_at_eon(eon - 1) >= 0
      /\ commitments' = commitments \cup {eon}
      /\ allotment' = [allotment EXCEPT ![eon] = available_funds_at_eon(eon - 1)]
  BY DEF CreateCheckpoint, FundsSuffice, chain, records, transactions
<1>1. /\ TypeOK /\ EonsFollow /\ RowsFollow /\ NothingIsAllottedTwice
      /\ SpendingIsCovered /\ eon \in Nat /\ eon >= 1 /\ eon <= MaxEon
      /\ eon \in Eons /\ commitments \subseteq Eons
      /\ allotment \in [Eons -> Nat] /\ spent \in [Eons -> Nat]
  BY TypedRequests DEF Always, TypeOK
<1>2. eon > 1 /\ commitments = 1 .. eon - 1
  BY <1>0, <1>1 DEF EonsFollow
<1>3. PICK p \in Eons : p = eon - 1 /\ p \in commitments /\ p \in Nat
  BY <1>1, <1>2 DEF Eons
<1>4. /\ allotment'[eon] = available_funds_at_eon(p)
      /\ \A e \in Eons : e # eon => allotment'[e] = allotment[e]
      /\ DOMAIN allotment' = Eons
      /\ allotment' = [allotment EXCEPT ![eon] = available_funds_at_eon(p)]
      /\ available_funds_at_eon(p) >= 0
  BY <1>0, <1>1, <1>3
<1>5. /\ available_funds_at_eon(p) = allotment[p] - spent[p] - Total(Of(p))
      /\ Total(Of(p)) \in Nat /\ allotment[p] \in Nat /\ spent[p] \in Nat
      /\ available_funds_at_eon(p) \in Nat
  <2>1. available_funds_at_eon(p) = allotment[p] - spent[p] - Total(Of(p))
    BY DEF available_funds_at_eon
  <2>2. Total(Of(p)) \in Nat
    BY <1>1, Records, TotalsAreNumbers
  <2> QED BY <1>1, <1>4, <2>1, <2>2
<1>6. /\ Rows' = Rows /\ Fate("paid")' = Fate("paid")
      /\ \A e : Before(e)' = Before(e)
  BY <1>0 DEF Rows, Unslashed, Fate, Before
<1>7. TypeOK'
  <2>1. allotment' \in [Eons -> Nat]
    BY <1>1, <1>4, <1>5
  <2>2. commitments' \subseteq Eons
    BY <1>0, <1>1
  <2> QED BY <1>0, <1>1, <1>6, <2>1, <2>2, Zenon DEF TypeOK
<1>8. EonsFollow'
  <2>1. commitments' = 1 .. eon
    BY <1>0, <1>1, <1>2
  <2>2. \A e \in Eons : e \notin commitments' => allotment'[e] = 0
    BY <1>0, <1>1, <1>4 DEF EonsFollow
  <2> QED BY <1>0, <1>1, <2>1, <2>2 DEF EonsFollow
<1>9. RowsFollow'
  BY <1>0, <1>1, <1>6 DEF RowsFollow
<1>10. NothingIsAllottedTwice'
  <2>1. ASSUME NEW c \in commitments'
        PROVE  allotment'[c] + SumFunctionOnSet(spent, 1 .. c - 1) + Total(Before(c))
                 <= Balance
    <3>1. CASE c \in commitments
      BY <1>0, <1>1, <1>4, <3>1 DEF NothingIsAllottedTwice
    <3>2. CASE c = eon
      <4>1. allotment[p] + SumFunctionOnSet(spent, 1 .. p - 1) + Total(Before(p))
              <= Balance
        BY <1>1, <1>3 DEF NothingIsAllottedTwice
      <4>2. /\ SumFunctionOnSet(spent, 1 .. p) \in Nat
            /\ SumFunctionOnSet(spent, 1 .. p - 1) \in Nat
            /\ SumFunctionOnSet(spent, 1 .. p)
                 = SumFunctionOnSet(spent, 1 .. p - 1) + spent[p]
        BY <1>1, SpentIsNumber
      <4>3. Total(Before(eon)) = Total(Before(p)) + Total(Of(p))
        <5>1. /\ Before(p) \in SUBSET DOMAIN requests
              /\ Of(p) \in SUBSET DOMAIN requests
          BY <1>1, Records DEF Before
        <5>2. Before(p) \cap Of(p) = {}
          BY <1>3 DEF Before, Of
        <5>3. Before(eon) = Of(p) \cup Before(p)
          <6>1. \A i \in Unslashed : requests[i].eon < eon
                                      <=> requests[i].eon = p \/ requests[i].eon < p
            <7>1. \A i \in Unslashed : i \in DOMAIN requests
              BY <1>1, Records
            <7>2. \A i \in Unslashed : requests[i].eon \in Nat
              BY <1>1, <7>1, TypedRequests
            <7> QED BY <1>1, <1>3, <7>2
          <6> QED BY <6>1 DEF Before, Of
        <5>4. Total(Of(p) \cup Before(p)) = Total(Of(p)) + Total(Before(p))
          BY <1>1, <5>1, <5>2, TotalOfParts
        <5>5. Total(Of(p)) \in Nat /\ Total(Before(p)) \in Nat
          BY <1>1, <5>1, TotalsAreNumbers
        <5> QED BY <5>3, <5>4, <5>5
      <4>4. Total(Before(p)) \in Nat
        BY <1>1, Records, TotalsAreNumbers DEF Before
      <4>5. /\ c - 1 = p /\ Before(c) = Before(eon)
            /\ allotment'[c] = allotment[p] - spent[p] - Total(Of(p))
        BY <1>3, <1>4, <1>5, <3>2
      <4>6. /\ SumFunctionOnSet(spent, 1 .. c - 1) = SumFunctionOnSet(spent, 1 .. p)
            /\ Total(Before(c)) = Total(Before(p)) + Total(Of(p))
        BY <4>3, <4>5
      <4>7. /\ SumFunctionOnSet(spent, 1 .. c - 1)
                 = SumFunctionOnSet(spent, 1 .. p - 1) + spent[p]
            /\ SumFunctionOnSet(spent, 1 .. p - 1) \in Nat
        BY <4>2, <4>6, Zenon
      <4>8. /\ allotment'[c] = allotment[p] - spent[p] - Total(Of(p))
            /\ Total(Before(c)) = Total(Before(p)) + Total(Of(p))
        BY <4>5, <4>6
      <4> QED BY SMTT(60), <1>5, <4>1, <4>4, <4>7, <4>8
    <3> QED BY <1>0, <3>1, <3>2
  <2>2. ASSUME NEW c \in commitments'
        PROVE  Total(Before(c))' = Total(Before(c))
    BY <1>0, <1>6 DEF Total
  <2> QED BY <1>0, <2>1, <2>2 DEF NothingIsAllottedTwice
<1>11. SpendingIsCovered'
  <2>1. allotment'[eon] + spent[eon - 1] <= allotment'[eon - 1]
    BY <1>1, <1>3, <1>4, <1>5
  <2>2. allotment'[eon - 1] = allotment[eon - 1]
    BY <1>1, <1>3, <1>4
  <2> QED BY <1>0, <1>1, <1>2, <2>1, <2>2 DEF SpendingIsCovered
<1> QED BY <1>7, <1>8, <1>9, <1>10, <1>11 DEF Always

LEMMA TransferAlways ==
  ASSUME Always, NEW amount \in Amounts, Transfer(amount)
  PROVE  Always'
<1> DEFINE left == loosely_available_funds_at_eon(eon) - amount
<1>0. /\ UNCHANGED << eon, late, requests, log, seen, slashed, withdrawn, allotment,
                      commitments, queue, mined, slasher, disorder >>
      /\ left >= 0
      /\ spent' = [spent EXCEPT ![eon] = @ + amount]
      /\ marker' = [marker EXCEPT ![eon] = @ \cup {left}]
  BY DEF Transfer, chain, records, transactions
<1>1. /\ TypeOK /\ EonsFollow /\ RowsFollow /\ NothingIsAllottedTwice
      /\ SpendingIsCovered /\ eon \in Nat /\ eon >= 1 /\ eon <= MaxEon
      /\ eon \in Eons /\ amount \in Nat /\ commitments \subseteq Eons
      /\ allotment \in [Eons -> Nat] /\ spent \in [Eons -> Nat]
      /\ marker \in [Eons -> SUBSET Nat]
  BY TypedRequests DEF Always, TypeOK
<1>2. left \in Nat /\ left <= LeftFrom(eon) - spent[eon] - amount
  BY <1>0, <1>1, LooselyLeft
<1> HIDE DEF left
<1>3. /\ spent' \in [Eons -> Nat] /\ marker' \in [Eons -> SUBSET Nat]
      /\ spent'[eon] = spent[eon] + amount
      /\ \A e \in Eons : e # eon => spent'[e] = spent[e]
  <2>1. spent' \in [Eons -> Nat] /\ marker' \in [Eons -> SUBSET Nat]
    BY <1>0, <1>1, <1>2
  <2> QED BY <1>0, <1>1, <2>1
<1>4. /\ Rows' = Rows /\ Fate("paid")' = Fate("paid")
      /\ \A e : Before(e)' = Before(e)
  BY <1>0 DEF Rows, Unslashed, Fate, Before
<1>5. TypeOK'
  BY <1>0, <1>1, <1>3, <1>4, Zenon DEF TypeOK
<1>6. EonsFollow'
  <2>1. \A e \in Eons : e > eon => spent'[e] = 0
    BY <1>1, <1>3 DEF EonsFollow
  <2> QED BY <1>0, <1>1, <2>1 DEF EonsFollow
<1>7. RowsFollow'
  BY <1>0, <1>1, <1>4 DEF RowsFollow
<1>8. NothingIsAllottedTwice'
  <2>1. ASSUME NEW c \in commitments
        PROVE  /\ SumFunctionOnSet(spent', 1 .. c - 1) = SumFunctionOnSet(spent, 1 .. c - 1)
               /\ Total(Before(c))' = Total(Before(c))
    <3>1. c \in Nat /\ c <= eon
      BY <1>1 DEF EonsFollow, Eons
    <3>2. \A x \in 1 .. c - 1 : x \in Eons /\ x # eon
      BY <1>1, <3>1 DEF Eons
    <3>3. \A x \in 1 .. c - 1 : spent[x] = spent'[x] /\ spent[x] \in Nat
      BY <1>1, <1>3, <3>2
    <3>4. IsFiniteSet(1 .. c - 1)
      <4>1. 1 \in Int /\ c - 1 \in Int
        BY <3>1
      <4> QED BY <4>1, FS_Interval
    <3>5. SumFunctionOnSet(spent, 1 .. c - 1) = SumFunctionOnSet(spent', 1 .. c - 1)
      <4>1. Counts(spent, 1 .. c - 1)
        BY <3>3 DEF Counts
      <4>2. \A x \in 1 .. c - 1 : spent[x] = spent'[x]
        BY <3>3
      <4> QED BY <3>4, <4>1, <4>2, SumsAgree
    <3>6. Total(Before(c))' = Total(Before(c))
      BY <1>0, <1>4 DEF Total
    <3> QED BY <3>5, <3>6
  <2> QED BY <1>0, <1>1, <2>1 DEF NothingIsAllottedTwice
<1>9. SpendingIsCovered'
  <2>1. CASE eon \in commitments
    <3>1. spent'[eon] <= allotment[eon] /\ allotment[eon] \in Nat
          /\ spent[eon] \in Nat
      BY <1>1, <1>2, <1>3, <2>1 DEF LeftFrom
    <3>2. ASSUME eon > 1
          PROVE  /\ spent'[eon - 1] = spent[eon - 1] /\ spent[eon - 1] \in Nat
                 /\ allotment[eon - 1] \in Nat
      <4>1. eon - 1 \in Eons /\ eon - 1 # eon
        BY <1>1, <3>2 DEF Eons
      <4> QED BY <1>1, <1>3, <4>1
    <3>3. CASE eon = 1
      BY <1>0, <1>1, <3>1, <3>3 DEF SpendingIsCovered
    <3>4. CASE eon > 1
      <4>1. allotment[eon] + spent[eon - 1] <= allotment[eon - 1]
        BY <1>1, <2>1, <3>4 DEF SpendingIsCovered
      <4>2. spent'[eon - 1] + spent'[eon] <= allotment[eon - 1]
        BY <1>1, <1>3, <3>1, <3>2, <3>4, <4>1
      <4> QED BY <1>0, <3>2, <3>4, <4>1, <4>2 DEF SpendingIsCovered
    <3> QED BY <1>1, <3>3, <3>4
  <2>2. CASE eon \notin commitments
    <3>1. PICK p \in Eons : p = eon - 1 /\ eon > 1
      BY <1>1, <2>2, LastCommittedIs DEF Eons
    <3>2. /\ LeftFrom(eon) = allotment[p] - spent[p] - Total(Of(p))
          /\ Total(Of(p)) \in Nat /\ allotment[p] \in Nat /\ spent[p] \in Nat
      <4>1. Total(Of(p)) \in Nat
        BY <1>1, Records, TotalsAreNumbers
      <4>2. LeftFrom(eon) = available_funds_at_eon(p)
        BY <2>2, <3>1 DEF LeftFrom
      <4> QED BY <1>1, <4>1, <4>2 DEF available_funds_at_eon
    <3>3. spent[p] + spent'[eon] <= allotment[p] /\ spent'[p] = spent[p]
      BY <1>1, <1>2, <1>3, <3>1, <3>2
    <3>4. spent'[eon - 1] + spent'[eon] <= allotment[eon - 1]
      BY <3>1, <3>3
    <3> QED BY <1>0, <1>1, <2>2, <3>1, <3>4 DEF SpendingIsCovered
  <2> QED BY <2>1, <2>2
<1> QED BY <1>5, <1>6, <1>7, <1>8, <1>9 DEF Always

LEMMA NextEonAlways ==
  ASSUME Always, NextEon
  PROVE  Always'
<1>0. /\ UNCHANGED << requests, log, seen, slashed, withdrawn, allotment,
                      commitments, spent, marker, queue, mined, slasher >>
      /\ eon < MaxEon /\ eon \in commitments /\ eon' = eon + 1 /\ late' = FALSE
      /\ disorder' = disorder \cup Overtaken
  BY DEF NextEon, Note, records, ledger, transactions
<1>1. /\ TypeOK /\ EonsFollow /\ RowsFollow /\ NothingIsAllottedTwice
      /\ eon \in Nat /\ eon >= 1 /\ MaxEon \in Nat /\ eon \in Eons
      /\ allotment \in [Eons -> Nat] /\ spent \in [Eons -> Nat]
  BY TypedRequests DEF Always, TypeOK
<1>2. /\ commitments = 1 .. eon /\ eon' \notin commitments /\ eon' \in Eons
      /\ eon' \in Nat /\ eon' > 1 /\ eon' - 1 = eon
  BY <1>0, <1>1 DEF EonsFollow, Eons
<1>3. /\ Rows' = Rows /\ Fate("paid")' = Fate("paid")
      /\ \A e : Before(e)' = Before(e)
  BY <1>0 DEF Rows, Unslashed, Fate, Before
<1>4. TypeOK'
  <2>1. disorder' \subseteq Disorders
    BY <1>0, <1>1 DEF TypeOK, Overtaken
  <2> QED BY <1>0, <1>1, <1>2, <1>3, <2>1, Zenon DEF TypeOK
<1>5. EonsFollow'
  <2>1. commitments' = 1 .. eon' - 1
    BY <1>0, <1>2
  <2>2. \A e \in Eons : e > eon' => spent'[e] = 0
    BY <1>0, <1>1 DEF EonsFollow, Eons
  <2>3. slasher' \in {0, eon' - 1}
    BY <1>0, <1>1, <1>2 DEF EonsFollow
  <2> QED BY <1>0, <1>1, <1>2, <2>1, <2>2, <2>3 DEF EonsFollow
<1>6. RowsFollow'
  <2>1. \A i \in Fate("paid") : requests[i].eon \in Nat /\ requests[i].eon <= eon - 2
    BY <1>1, Records, TypedRequests DEF RowsFollow
  <2>2. \A i \in Fate("paid") : requests[i].eon <= eon' - 2
    BY <1>0, <1>1, <2>1
  <2> QED BY <1>0, <1>1, <1>3, <2>2 DEF RowsFollow
<1>7. NothingIsAllottedTwice'
  <2>1. \A c \in commitments : Total(Before(c))' = Total(Before(c))
    BY <1>0, <1>3 DEF Total
  <2> QED BY <1>0, <1>1, <2>1 DEF NothingIsAllottedTwice
<1>8. SpendingIsCovered'
  <2>1. ASSUME "negative" \notin disorder'
        PROVE  spent[eon] + spent[eon'] <= allotment[eon]
    <3>1. ~ (loosely_available_funds_at_eon(eon) < 0)
      BY <1>0, <2>1 DEF Overtaken, Disorders
    <3>2. loosely_available_funds_at_eon(eon)
            = allotment[eon] - spent[eon] - Total(Of(eon))
      BY <1>0, LooselyLeft DEF LeftFrom
    <3>3. spent[eon'] = 0
      BY <1>0, <1>1, <1>2 DEF EonsFollow
    <3>4. Total(Of(eon)) \in Nat /\ allotment[eon] \in Nat /\ spent[eon] \in Nat
      BY LooselyLeft
    <3> QED BY <3>1, <3>2, <3>3, <3>4
  <2>2. "negative" \notin disorder' =>
          spent'[eon' - 1] + spent'[eon'] <= allotment'[eon' - 1]
    BY <1>0, <1>2, <2>1
  <2> QED BY <1>0, <1>2, <2>2 DEF SpendingIsCovered
<1> QED BY <1>4, <1>5, <1>6, <1>7, <1>8 DEF Always
-----------------------------------------------------------------------------
(* What holds in quiet times.  First steps that change no request.         *)

LEMMA QuietStep ==
  ASSUME Always, InStep,
         UNCHANGED << eon, requests, log, records, ledger, transactions >>,
         late' \in BOOLEAN
  PROVE  InStep'
<1>0. UNCHANGED << seen, slashed, withdrawn, allotment, commitments, spent,
                   marker, queue, mined >>
  BY DEF records, ledger, transactions
<1> USE <1>0
<1>1. /\ Rows' = Rows /\ Unslashed' = Unslashed /\ SlashWaits' = SlashWaits
      /\ Confirmable' = Confirmable
  BY DEF Rows, Unslashed, SlashWaits, Confirmable, Pending
<1>4. RequestsFollow'
  BY <1>1 DEF Always, InStep, RequestsFollow
<1>5. FatesAreKnown'
  BY <1>1 DEF Always, InStep, FatesAreKnown, Fate
<1>6. AmountsStand
  BY DEF AmountsStand
<1>7. /\ TypeOK /\ \A e : Of(e)' = Of(e) /\ Before(e)' = Before(e)
      /\ \A a, b : Pending(a, b)' = Pending(a, b)
      /\ Fate("paid")' = Fate("paid")
      /\ NewConfirmations' = NewConfirmations
  BY <1>1 DEF Always, InStep, Of, Before, Pending, Fate, NewConfirmations
<1>8. SpendingIsMarked' /\ RequestsWereCovered'
  BY <1>1, <1>6, <1>7, FundsFrame, CoverFrame DEF ledger
<1>9. /\ Total(Pending(eon - 1, eon))' = Total(Pending(eon - 1, eon))
      /\ Total(Fate("paid") \ withdrawn)' = Total(Fate("paid") \ withdrawn)
  BY <1>7 DEF Total
<1>10. SlashingWillDo' /\ PaymentsAreKnown'
  BY <1>1, <1>7, <1>9 DEF Always, InStep, SlashingWillDo, PaymentsAreKnown
<1> QED BY <1>4, <1>5, <1>8, <1>10 DEF Always, InStep

LEMMA QueueConfirmationStep ==
  ASSUME Always, InStep, QueueConfirmation
  PROVE  InStep'
<1> DEFINE call == [tag |-> << "confirm", eon >>, marker |-> 0]
<1>0. /\ UNCHANGED << eon, late, requests, log, seen, slashed, withdrawn,
                      allotment, commitments, spent, marker, mined, slasher >>
      /\ queue' = Append(queue, call)
      /\ UNCHANGED ledger
  BY DEF QueueConfirmation, chain, records, ledger
<1>1. call \in [tag : TagType, marker : Nat] /\ call.tag[1] = "confirm"
  BY DEF Always, InStep, TypeOK, TagType
<1>2. /\ queue' \in Seq([tag : TagType, marker : Nat])
      /\ Len(queue') = Len(queue) + 1 /\ Len(queue) \in Nat
      /\ \A k \in 1 .. Len(queue) : queue'[k] = queue[k]
      /\ queue'[Len(queue) + 1].tag[1] = "confirm"
      /\ mined \in 0 .. Len(queue)
  <2>1. queue \in Seq([tag : TagType, marker : Nat])
    BY DEF Always, InStep, TypeOK
  <2> HIDE DEF call
  <2>2. /\ queue' \in Seq([tag : TagType, marker : Nat])
        /\ Len(queue') = Len(queue) + 1 /\ Len(queue) \in Nat
        /\ \A k \in 1 .. Len(queue) : queue'[k] = queue[k]
        /\ queue'[Len(queue) + 1] = call
    BY <1>0, <1>1, <2>1, Appended
  <2> QED BY <1>1, <2>2 DEF Always, InStep, TypeOK
<1> HIDE DEF call
<1>3. \A k : (k \in mined + 1 .. Len(queue') /\ queue'[k].tag[1] = "slash")
        <=> (k \in mined + 1 .. Len(queue) /\ queue[k].tag[1] = "slash")
  BY <1>2
<1>4. /\ Rows' = Rows /\ Unslashed' = Unslashed /\ SlashWaits' = SlashWaits
      /\ Confirmable' = Confirmable
  <2>1. Rows' = Rows /\ Unslashed' = Unslashed /\ Confirmable' = Confirmable
    BY <1>0 DEF Rows, Unslashed, Confirmable, Pending
  <2>2. SlashWaits' = SlashWaits
    BY <1>0, <1>3 DEF SlashWaits
  <2> QED BY <2>1, <2>2
<1>7. RequestsFollow'
  BY <1>0, <1>4 DEF Always, InStep, RequestsFollow
<1>8. FatesAreKnown'
  BY <1>0, <1>4 DEF Always, InStep, FatesAreKnown, Fate
<1>9. AmountsStand
  BY <1>0 DEF AmountsStand
<1>10. /\ TypeOK /\ \A e : Of(e)' = Of(e) /\ Before(e)' = Before(e)
       /\ \A a, b : Pending(a, b)' = Pending(a, b)
       /\ Fate("paid")' = Fate("paid")
       /\ NewConfirmations' = NewConfirmations
  BY <1>0, <1>4 DEF Always, InStep, Of, Before, Pending, Fate, NewConfirmations
<1>11. SpendingIsMarked' /\ RequestsWereCovered'
  BY <1>0, <1>4, <1>9, <1>10, FundsFrame, CoverFrame
<1>12. /\ Total(Pending(eon - 1, eon))' = Total(Pending(eon - 1, eon))
       /\ Total(Fate("paid") \ withdrawn)' = Total(Fate("paid") \ withdrawn)
  BY <1>0, <1>10 DEF Total
<1>13. SlashingWillDo'
  <2>1. SlashingWillDo
    BY DEF Always, InStep
  <2>2. \A k : (k \in mined' + 1 .. Len(queue') /\ queue'[k].tag[1] = "slash")
                  => k \in mined + 1 .. Len(queue) /\ queue'[k] = queue[k]
    BY <1>0, <1>2, <1>3
  <2> QED BY <1>0, <1>10, <1>12, <2>1, <2>2, SlashingFrame
<1>14. PaymentsAreKnown'
  BY <1>0, <1>4, <1>10, <1>12 DEF Always, InStep, PaymentsAreKnown
<1> QED BY <1>7, <1>8, <1>11, <1>13, <1>14 DEF Always, InStep

LEMMA SeeRequestStep ==
  ASSUME Always, InStep, SeeRequest
  PROVE  InStep'
<1>0. /\ UNCHANGED << eon, late, requests, log, slashed, withdrawn, allotment,
                      commitments, spent, marker, queue, mined, slasher >>
      /\ seen < Len(log) /\ log[seen + 1][1] = "request" /\ seen' = seen + 1
      /\ UNCHANGED ledger
  BY DEF SeeRequest, chain, transactions, ledger
<1> DEFINE i == log[seen + 1][2]
<1>1. /\ TypeOK /\ seen \in Nat /\ Len(log) \in Nat /\ DOMAIN log = 1 .. Len(log)
      /\ seen + 1 \in DOMAIN log /\ eon \in Nat
      /\ log[seen + 1] \in {"request", "confirmed"} \X Nat
      /\ commitments \subseteq 1 .. eon
  BY <1>0, Records, TypedRequests DEF Always, InStep, EonsFollow
<1>2. log[seen + 1] = << "request", i >>
  BY <1>0, <1>1
<1>3. i \in DOMAIN requests /\ requests[i].eon = eon
  BY <1>0, <1>1 DEF Always, InStep, RequestsFollow
<1>4. Rows' = Rows \cup {i}
  <2>1. \A k : k \in 1 .. seen' <=> (k \in 1 .. seen \/ k = seen + 1)
    BY <1>0, <1>1
  <2> QED BY <1>0, <1>2, <1>3, <2>1 DEF Rows
<1> HIDE DEF i
<1>5. /\ Rows \subseteq Rows' /\ UNCHANGED << SlashWaits, Confirmable >>
      /\ \A j : j \in Rows' \ Rows => requests[j].eon = eon
      /\ UNCHANGED << Fate("paid"), Fate("slashed") >>
  BY <1>0, <1>3, <1>4 DEF SlashWaits, Confirmable, Pending, Fate
<1>8. RequestsFollow'
  <2>1. RequestsFollow
    BY DEF Always, InStep
  <2>2. \A k \in DOMAIN log : k > seen' => k > seen
    BY <1>0, <1>1
  <2> QED BY <1>0, <1>5, <2>1, <2>2 DEF RequestsFollow
<1>9. FatesAreKnown'
  BY <1>0, <1>5 DEF Always, InStep, FatesAreKnown
<1>10. AmountsStand
  BY <1>0 DEF AmountsStand
<1>11. /\ \A e \in Eons : e < eon => Of(e)' = Of(e)
       /\ \A c \in commitments : Before(c)' = Before(c)
       /\ \A a, b : Pending(a, b)' = Pending(a, b)
       /\ NewConfirmations' = NewConfirmations
  <2>1. /\ \A e \in Eons : e < eon => e # eon
        /\ \A c \in commitments : ~ (eon < c)
    BY <1>1 DEF Eons
  <2>2. \A e \in Eons : e < eon => Of(e)' = Of(e)
    BY <1>0, <1>5, <2>1 DEF Of, Unslashed
  <2>3. \A c \in commitments : Before(c)' = Before(c)
    BY <1>0, <1>5, <2>1 DEF Before, Unslashed
  <2>4. \A a, b : Pending(a, b)' = Pending(a, b)
    BY <1>0 DEF Pending
  <2>5. NewConfirmations' = NewConfirmations
    <3>1. \A k : k \in seen + 1 .. Len(log)
                   <=> (k \in seen' + 1 .. Len(log) \/ k = seen + 1)
      BY <1>0, <1>1
    <3> QED BY <1>0, <3>1 DEF NewConfirmations
  <2> QED BY <2>2, <2>3, <2>4, <2>5
<1>12. SpendingIsMarked'
  BY <1>0, <1>10, <1>11, FundsFrame
<1>13. RequestsWereCovered'
  <2>1. eon > 1 => Of(eon - 1)' = Of(eon - 1)
    <3>1. \A d \in Eons : d = eon - 1 => Of(eon - 1)' = Of(d)'
      BY <1>0
    <3>2. eon > 1 => eon - 1 \in Eons /\ eon - 1 < eon
      BY <1>1 DEF TypeOK, Eons
    <3> QED BY <1>11, <3>1, <3>2
  <2> QED BY <1>0, <1>5, <1>10, <1>11, <2>1, CoverFrame
<1>14. /\ Total(Pending(eon - 1, eon))' = Total(Pending(eon - 1, eon))
       /\ Total(Fate("paid") \ withdrawn)' = Total(Fate("paid") \ withdrawn)
  BY <1>0, <1>5, <1>11 DEF Total
<1>15. SlashingWillDo'
  BY <1>0, <1>11, <1>14, SlashingFrame DEF Always, InStep
<1>16. PaymentsAreKnown'
  BY <1>0, <1>5, <1>11, <1>14 DEF Always, InStep, PaymentsAreKnown
<1> QED BY <1>8, <1>9, <1>12, <1>13, <1>15, <1>16 DEF Always, InStep
-----------------------------------------------------------------------------
(* What is found for a confirmation is what the contract has paid, and     *)
(* sums up to its amount.                                                  *)

LEMMA RequestsSettle ==
  ASSUME Always, InStep, NEW i \in DOMAIN requests
  PROVE  /\ requests[i].eon \in Nat /\ requests[i].eon >= 1 /\ requests[i].eon <= eon
         /\ eon \in Nat /\ i \in Nat
         /\ requests[i].fate \in {"pending", "slashed", "paid"}
         /\ requests[i].eon < eon => i \in Rows
         /\ requests[i].fate = "paid" => requests[i].eon <= eon - 2 /\ i \notin slashed
         /\ requests[i].fate = "slashed" => i \in slashed
         /\ \A j \in DOMAIN requests : i < j => requests[i].eon <= requests[j].eon
<1>1. TypeOK
  BY DEF Always, InStep
<1>2. /\ requests[i] \in [amount : Amounts, eon : Eons,
                          fate : {"pending", "slashed", "paid"}]
      /\ requests[i].eon \in Nat /\ requests[i].eon >= 1 /\ eon \in Nat
      /\ i \in Nat
  BY <1>1, TypedRequests
<1>3. requests[i].fate \in {"pending", "slashed", "paid"}
  BY <1>2
<1>4. /\ requests[i].eon <= eon
      /\ requests[i].eon < eon => i \in Rows
      /\ \A j \in DOMAIN requests : i < j => requests[i].eon <= requests[j].eon
  BY DEF Always, InStep, RequestsFollow
<1>5. /\ requests[i].fate = "paid" => requests[i].eon <= eon - 2 /\ i \notin slashed
      /\ requests[i].fate = "slashed" => i \in slashed
  BY DEF Always, InStep, FatesAreKnown, Fate
<1> QED BY <1>2, <1>3, <1>4, <1>5

LEMMA ConfirmedArePaid ==
  ASSUME Always, InStep, seen < Len(log), log[seen + 1][1] = "confirmed"
  PROVE  /\ Confirmed(log[seen + 1][2]) = Fate("paid") \ withdrawn
         /\ log[seen + 1][2] = Total(Fate("paid") \ withdrawn)
         /\ NewConfirmations = {seen + 1}
         /\ Confirmable = {}
<1> DEFINE paid == Fate("paid") \ withdrawn
           open == Unslashed \ withdrawn
<1>1. /\ TypeOK /\ seen + 1 \in NewConfirmations /\ eon \in Nat
      /\ Rows \subseteq DOMAIN requests
  BY Records, TypedRequests DEF Always, InStep, NewConfirmations
<1>2. /\ log[seen + 1][2] = Total(paid) /\ NewConfirmations = {seen + 1}
      /\ Confirmable = {}
  BY <1>1 DEF Always, InStep, PaymentsAreKnown
<1>3. open \subseteq DOMAIN requests /\ paid \subseteq open
  <2>1. ASSUME NEW i \in paid PROVE i \in open
    <3>1. i \in DOMAIN requests /\ requests[i].fate = "paid"
      BY DEF Fate
    <3> QED BY <1>1, <3>1, RequestsSettle DEF Unslashed
  <2> QED BY <1>1, <2>1 DEF Unslashed
<1>4. ASSUME NEW i \in open
      PROVE  i \in paid <=> requests[i].eon <= eon - 2
  <2>1. i \in DOMAIN requests /\ i \notin slashed /\ i \notin withdrawn
    BY <1>3 DEF Unslashed
  <2>2. requests[i].fate = "pending" => ~ (requests[i].eon <= eon - 2)
    <3>1. SUFFICES ASSUME requests[i].fate = "pending", requests[i].eon <= eon - 2
                   PROVE  FALSE
      OBVIOUS
    <3>2. requests[i].eon \in 1 .. eon - 2
      BY <2>1, <3>1, RequestsSettle
    <3> QED BY <1>2, <2>1, <3>1, <3>2 DEF Confirmable, Pending
  <2> QED BY <2>1, <2>2, RequestsSettle DEF Fate
<1>5. ASSUME NEW i \in open, NEW j \in open, j < i, i \in paid
      PROVE  j \in paid
  <2>1. requests[j].eon <= requests[i].eon /\ requests[i].eon <= eon - 2
    BY <1>3, <1>4, <1>5, RequestsSettle
  <2> QED BY <1>1, <1>3, <1>4, <2>1, RequestsSettle
<1>6. ASSUME NEW i \in paid
      PROVE  Total({j \in open : j < i}) < Total(paid)
  <2>1. {j \in open : j < i} \in SUBSET paid
    BY <1>3, <1>5
  <2>2. {j \in open : j < i} # paid
    <3>1. i \notin {j \in open : j < i}
      BY <1>3, RequestsSettle
    <3> QED BY <3>1
  <2>3. paid \in SUBSET DOMAIN requests
    BY <1>3
  <2> HIDE DEF paid, open
  <2> QED BY <1>1, <2>1, <2>2, <2>3, TotalOfPart
<1>7. ASSUME NEW i \in open, i \notin paid
      PROVE  ~ (Total({j \in open : j < i}) < Total(paid))
  <2>1. ASSUME NEW j \in paid PROVE j < i
    <3>1. i \in Nat /\ j \in Nat /\ j # i
      BY <1>3, <1>7, RequestsSettle
    <3>2. ~ (i < j)
      BY <1>3, <1>5, <1>7
    <3> QED BY <3>1, <3>2
  <2>2. paid \in SUBSET {j \in open : j < i}
    BY <1>3, <2>1
  <2>3. {j \in open : j < i} \in SUBSET DOMAIN requests
        /\ paid \in SUBSET DOMAIN requests
    BY <1>3
  <2> HIDE DEF paid, open
  <2>4. /\ Total(paid) <= Total({j \in open : j < i})
        /\ Total(paid) \in Nat /\ Total({j \in open : j < i}) \in Nat
    BY <1>1, <2>2, <2>3, TotalOfPart, TotalsAreNumbers
  <2> QED BY <2>4
<1>8. Confirmed(log[seen + 1][2]) = {i \in open : Total({j \in open : j < i}) < Total(paid)}
  BY <1>2 DEF Confirmed
<1>9. Confirmed(log[seen + 1][2]) = paid
  <2> HIDE DEF paid, open
  <2> QED BY <1>3, <1>6, <1>7, <1>8
<1> QED BY <1>2, <1>9

LEMMA SeeConfirmationStep ==
  ASSUME Always, InStep, SeeConfirmation
  PROVE  InStep'
<1>0. /\ UNCHANGED << eon, late, requests, log, slashed, allotment,
                      commitments, spent, marker, queue, mined, slasher >>
      /\ seen < Len(log) /\ log[seen + 1][1] = "confirmed" /\ seen' = seen + 1
      /\ UNCHANGED ledger
      /\ withdrawn' = withdrawn \cup Confirmed(log[seen + 1][2])
  BY DEF SeeConfirmation, chain, transactions, ledger
<1>1. /\ TypeOK /\ seen \in Nat /\ Len(log) \in Nat /\ DOMAIN log = 1 .. Len(log)
      /\ eon \in Nat /\ Fate("paid") \subseteq DOMAIN requests
  BY Records, TypedRequests DEF Always, InStep
<1>2. withdrawn' = Fate("paid") /\ NewConfirmations = {seen + 1}
  BY <1>0, ConfirmedArePaid DEF Always, InStep, PaymentsAreKnown
<1>3. Rows' = Rows
  <2>1. \A k : k \in 1 .. seen' <=> (k \in 1 .. seen \/ k = seen + 1)
    BY <1>0, <1>1
  <2>2. \A i : log[seen + 1] # << "request", i >>
    BY <1>0
  <2> QED BY <1>0, <2>1, <2>2 DEF Rows
<1>4. /\ UNCHANGED << SlashWaits, Confirmable, Unslashed >>
      /\ UNCHANGED << Fate("paid"), Fate("slashed") >>
  BY <1>0, <1>3 DEF SlashWaits, Confirmable, Pending, Fate, Unslashed
<1>7. RequestsFollow'
  <2>1. RequestsFollow
    BY DEF Always, InStep
  <2>2. \A k \in DOMAIN log : k > seen' => k > seen
    BY <1>0, <1>1
  <2> QED BY <1>0, <1>3, <2>1, <2>2 DEF RequestsFollow
<1>8. FatesAreKnown'
  BY <1>0, <1>4 DEF Always, InStep, FatesAreKnown
<1>9. AmountsStand
  BY <1>0 DEF AmountsStand
<1>10. /\ \A e : Of(e)' = Of(e) /\ Before(e)' = Before(e)
       /\ \A a, b : Pending(a, b)' = Pending(a, b)
       /\ NewConfirmations' = {}
  <2>1. /\ \A e : Of(e)' = Of(e) /\ Before(e)' = Before(e)
        /\ \A a, b : Pending(a, b)' = Pending(a, b)
    BY <1>0, <1>4 DEF Of, Before, Pending
  <2>2. NewConfirmations' = {}
    <3>1. \A k : k \in seen' + 1 .. Len(log)
                   => (k \in seen + 1 .. Len(log) /\ k # seen + 1)
      BY <1>0, <1>1
    <3> QED BY <1>0, <1>2, <3>1 DEF NewConfirmations
  <2> QED BY <2>1, <2>2
<1>11. SpendingIsMarked' /\ RequestsWereCovered'
  BY <1>0, <1>4, <1>9, <1>10, FundsFrame, CoverFrame
<1>12. Total(Pending(eon - 1, eon))' = Total(Pending(eon - 1, eon))
  BY <1>0, <1>10 DEF Total
<1>13. SlashingWillDo'
  BY <1>0, <1>10, <1>12, SlashingFrame DEF Always, InStep
<1>14. PaymentsAreKnown'
  BY <1>2, <1>4, <1>10 DEF PaymentsAreKnown
<1> QED BY <1>7, <1>8, <1>11, <1>13, <1>14 DEF Always, InStep
-----------------------------------------------------------------------------
(* The contract settles requests.                                          *)

LEMMA FollowFrame ==
  ASSUME RequestsFollow, AmountsStand, DOMAIN requests' = DOMAIN requests,
         UNCHANGED << eon, seen >>, Rows' = Rows,
         \A k \in DOMAIN log : k \in DOMAIN log' /\ log'[k] = log[k],
         \A k \in DOMAIN log' : k \in DOMAIN log \/ log'[k][1] = "confirmed"
  PROVE  RequestsFollow'
<1>1. \A i, j \in DOMAIN requests' : i < j => requests'[i].eon <= requests'[j].eon
  BY DEF RequestsFollow, AmountsStand
<1>2. \A i \in DOMAIN requests' :
        /\ requests'[i].eon <= eon'
        /\ requests'[i].eon < eon' => i \in Rows'
        /\ \E k \in DOMAIN log' : log'[k] = << "request", i >>
  BY DEF RequestsFollow, AmountsStand
<1>3. \A k \in DOMAIN log' :
        log'[k][1] = "request" =>
          /\ log'[k][2] \in DOMAIN requests'
          /\ k > seen' => requests'[log'[k][2]].eon = eon'
  BY DEF RequestsFollow, AmountsStand
<1> QED BY <1>1, <1>2, <1>3 DEF RequestsFollow

LEMMA MineConfirmationStep ==
  ASSUME Always, InStep, MineConfirmation
  PROVE  InStep'
<1>0. /\ UNCHANGED << eon, late, seen, slashed, withdrawn, allotment,
                      commitments, spent, marker, queue, slasher >>
      /\ mined < Len(queue) /\ queue[mined + 1].tag[1] = "confirm"
      /\ mined' = mined + 1
      /\ requests' = Settle(Confirmable, "paid")
      /\ log' = IF Confirmable = {} THEN log
                ELSE Append(log, << "confirmed", Total(Confirmable) >>)
      /\ UNCHANGED ledger
  BY DEF MineConfirmation, records, ledger
<1>1. /\ TypeOK /\ seen \in Nat /\ Len(log) \in Nat /\ DOMAIN log = 1 .. Len(log)
      /\ seen <= Len(log) /\ eon \in Nat /\ mined \in Nat /\ Len(queue) \in Nat
      /\ log \in Seq({"request", "confirmed"} \X Nat)
      /\ Confirmable \subseteq DOMAIN requests
  BY Records, TypedRequests DEF Always, InStep, TypeOK, Confirmable
<1>2. /\ requests' \in Seq(RequestType) /\ DOMAIN requests' = DOMAIN requests
      /\ AmountsStand
      /\ \A i \in DOMAIN requests :
           requests'[i].fate = IF i \in Confirmable THEN "paid" ELSE requests[i].fate
  BY <1>0, <1>1, Settled
<1>3. /\ log' \in Seq({"request", "confirmed"} \X Nat)
      /\ \A k \in DOMAIN log : k \in DOMAIN log' /\ log'[k] = log[k]
      /\ Len(log') \in Nat /\ Len(log') >= Len(log)
      /\ \A k \in DOMAIN log' : k \in DOMAIN log \/ log'[k][1] = "confirmed"
      /\ Confirmable # {} =>
           /\ Len(log') = Len(log) + 1
           /\ log'[Len(log) + 1] = << "confirmed", Total(Confirmable) >>
  <2>1. CASE Confirmable = {}
    BY <1>0, <1>1, <2>1
  <2>2. CASE Confirmable # {}
    <3> DEFINE event == << "confirmed", Total(Confirmable) >>
    <3>1. event \in {"request", "confirmed"} \X Nat /\ event[1] = "confirmed"
      BY <1>1, TotalsAreNumbers
    <3>2. log' = Append(log, event)
      BY <1>0, <2>2
    <3> HIDE DEF event
    <3>3. /\ log' \in Seq({"request", "confirmed"} \X Nat) /\ Len(log') = Len(log) + 1
          /\ DOMAIN log' = 1 .. Len(log) + 1
          /\ \A k \in 1 .. Len(log) : log'[k] = log[k]
          /\ log'[Len(log) + 1] = event
      BY <1>1, <3>1, <3>2, Appended
    <3>4. log'[Len(log) + 1] = << "confirmed", Total(Confirmable) >>
      BY <3>3 DEF event
    <3> QED BY <1>1, <3>1, <3>3, <3>4
  <2> QED BY <2>1, <2>2
<1>4. Rows' = Rows
  <2>1. \A k \in 1 .. seen : log'[k] = log[k]
    BY <1>1, <1>3
  <2> QED BY <1>0, <1>2, <2>1 DEF Rows
<1>5. /\ Unslashed' = Unslashed
      /\ \A i \in Confirmable : requests[i].fate = "pending" /\ requests[i].eon <= eon - 2
  <2>1. Unslashed' = Unslashed
    BY <1>0, <1>4 DEF Unslashed
  <2>2. \A i \in Confirmable : requests[i].fate = "pending" /\ requests[i].eon <= eon - 2
    BY <1>1 DEF Confirmable, Pending
  <2> QED BY <2>1, <2>2
<1>6. /\ Fate("paid")' = Fate("paid") \cup Confirmable
      /\ Fate("slashed")' = Fate("slashed")
      /\ Fate("paid") \cap Confirmable = {}
  BY <1>1, <1>2, <1>5 DEF Fate
<1>7. /\ \A e : Of(e)' = Of(e) /\ Before(e)' = Before(e)
  BY <1>0, <1>2, <1>4, <1>5, Records DEF Of, Before, AmountsStand, Always, InStep
<1>8. /\ Pending(eon, eon)' = Pending(eon, eon)
      /\ Pending(eon - 1, eon)' = Pending(eon - 1, eon)
      /\ Confirmable' = {}
  <2>1. ASSUME NEW i \in DOMAIN requests
        PROVE  /\ requests[i].eon \in eon - 1 .. eon => i \notin Confirmable
               /\ requests[i].eon \in eon .. eon => i \notin Confirmable
               /\ requests[i].eon \in 1 .. eon - 2 =>
                    i \in Confirmable \/ requests[i].fate # "pending"
    <3>1. i \in Confirmable => requests[i].eon <= eon - 2 /\ requests[i].eon \in Nat
      BY <1>1, <1>5, TypedRequests
    <3>2. requests[i].eon \in 1 .. eon - 2 =>
            i \in Confirmable \/ requests[i].fate # "pending"
      BY DEF Confirmable, Pending
    <3> QED BY <1>1, <3>1, <3>2
  <2>2. \A a, b : Pending(a, b)' =
          {i \in DOMAIN requests : requests'[i].fate = "pending"
                                   /\ requests[i].eon \in a .. b}
    BY <1>2 DEF Pending, AmountsStand
  <2>3. /\ Pending(eon, eon)' = Pending(eon, eon)
        /\ Pending(eon - 1, eon)' = Pending(eon - 1, eon)
    <3>1. Pending(eon, eon)' =
            {i \in DOMAIN requests : requests'[i].fate = "pending"
                                     /\ requests[i].eon \in eon .. eon}
      BY <1>0, <2>2
    <3>2. Pending(eon - 1, eon)' =
            {i \in DOMAIN requests : requests'[i].fate = "pending"
                                     /\ requests[i].eon \in eon - 1 .. eon}
      BY <1>0, <2>2
    <3>3. \A i \in DOMAIN requests : i \notin Confirmable =>
            requests'[i].fate = requests[i].fate
      BY <1>2
    <3>4. Pending(eon, eon)' = Pending(eon, eon)
      BY <2>1, <3>1, <3>3 DEF Pending
    <3>5. Pending(eon - 1, eon)' = Pending(eon - 1, eon)
      BY <2>1, <3>2, <3>3 DEF Pending
    <3> QED BY <3>4, <3>5
  <2>4. Confirmable' = {}
    <3>1. Confirmable' = Pending(1, eon - 2)'
      BY <1>0 DEF Confirmable
    <3>2. Pending(1, eon - 2)' = {}
      BY <1>0, <1>2, <2>1, <2>2
    <3> QED BY <3>1, <3>2
  <2> QED BY <2>3, <2>4
<1>9. \A k : (k \in mined' + 1 .. Len(queue') /\ queue'[k].tag[1] = "slash")
        <=> (k \in mined + 1 .. Len(queue) /\ queue[k].tag[1] = "slash")
  BY <1>0, <1>1
<1>10. SlashWaits' = SlashWaits
  BY <1>0, <1>9 DEF SlashWaits
<1>13. RequestsFollow'
  BY <1>0, <1>2, <1>3, <1>4, FollowFrame DEF Always, InStep
<1>14. FatesAreKnown'
  <2>1. FatesAreKnown
    BY DEF Always, InStep
  <2>2. \A i \in Confirmable : i \notin slashed
    <3>1. \A i \in Confirmable : i \notin Fate("slashed")
      BY <1>5 DEF Fate
    <3>2. \A i \in Confirmable : requests[i].eon \in Nat /\ ~ (requests[i].eon >= eon - 1)
      BY <1>1, <1>5, TypedRequests
    <3> QED BY <2>1, <3>1, <3>2 DEF FatesAreKnown
  <2>3. \A i \in Fate("paid")' : requests'[i].eon <= eon' - 2 /\ i \notin slashed'
    <3>1. \A i \in Fate("paid") \cup Confirmable :
            i \in DOMAIN requests /\ requests[i].eon <= eon - 2 /\ i \notin slashed
      BY <1>1, <1>5, <2>1, <2>2, Records DEF FatesAreKnown
    <3> QED BY <1>0, <1>2, <1>6, <3>1 DEF AmountsStand
  <2>4. \A i \in slashed' \ Fate("slashed")' : SlashWaits' /\ requests'[i].eon >= eon' - 1
    <3>1. slashed \subseteq DOMAIN requests
      BY <1>1, Records
    <3> QED BY <1>0, <1>2, <1>6, <1>10, <2>1, <3>1 DEF FatesAreKnown, AmountsStand
  <2>5. Fate("slashed")' \subseteq slashed'
    BY <1>0, <1>6, <2>1 DEF FatesAreKnown
  <2> QED BY <2>3, <2>4, <2>5 DEF FatesAreKnown
<1>15. SpendingIsMarked' /\ RequestsWereCovered'
  BY <1>0, <1>2, <1>7, <1>8, <1>10, FundsFrame, CoverFrame
<1>16. SlashingWillDo'
  <2>1. Total(Pending(eon - 1, eon))' = Total(Pending(eon - 1, eon))
    BY <1>1, <1>2, <1>8, TotalStands, Records DEF Total
  <2> QED BY <1>0, <1>8, <1>9, <2>1, SlashingFrame DEF Always, InStep
<1>17. PaymentsAreKnown'
  <2>0. PaymentsAreKnown
    BY DEF Always, InStep
  <2>1. CASE Confirmable = {}
    <3>1. NewConfirmations' = NewConfirmations /\ log' = log /\ Fate("paid")' = Fate("paid")
      BY SMTT(60), <1>0, <1>6, <2>1 DEF NewConfirmations
    <3>2. Total(Fate("paid") \ withdrawn)' = Total(Fate("paid") \ withdrawn)
      <4>1. Fate("paid") \ withdrawn \in SUBSET DOMAIN requests
        BY <1>1, Records
      <4> QED BY <1>0, <1>1, <1>2, <3>1, <4>1, TotalStands DEF Total
    <3> QED BY <1>0, <1>8, <2>0, <3>1, <3>2 DEF PaymentsAreKnown
  <2>2. CASE Confirmable # {}
    <3>1. NewConfirmations = {} /\ withdrawn = Fate("paid")
      BY <2>0, <2>2 DEF PaymentsAreKnown
    <3>2. NewConfirmations' = {Len(log) + 1}
      <4>1. \A k \in seen + 1 .. Len(log) : log'[k][1] # "confirmed"
        <5>1. \A k \in seen + 1 .. Len(log) : k \in DOMAIN log
          BY <1>1
        <5>2. \A k \in seen + 1 .. Len(log) : log[k][1] # "confirmed"
          BY <3>1 DEF NewConfirmations
        <5> QED BY <1>3, <5>1, <5>2
      <4>2. \A k : k \in seen' + 1 .. Len(log')
                     <=> (k \in seen + 1 .. Len(log) \/ k = Len(log) + 1)
        BY SMTT(60), <1>0, <1>1, <1>3, <2>2
      <4>3. log'[Len(log) + 1][1] = "confirmed"
        BY <1>3, <2>2
      <4> QED BY <4>1, <4>2, <4>3 DEF NewConfirmations
    <3>3. (Fate("paid") \ withdrawn)' = Confirmable
      BY <1>0, <1>6, <3>1
    <3>4. Total(Fate("paid") \ withdrawn)' = Total(Confirmable)
      BY <1>1, <1>2, <3>3, TotalStands DEF Total
    <3>5. log'[Len(log) + 1][2] = Total(Confirmable)
      BY <1>3, <2>2
    <3> QED BY <1>0, <1>6, <1>8, <3>1, <3>2, <3>4, <3>5 DEF PaymentsAreKnown
  <2> QED BY <2>1, <2>2
<1> QED BY <1>13, <1>14, <1>15, <1>16, <1>17 DEF Always, InStep

LEMMA MineSlashStep ==
  ASSUME Always, InStep, MineSlash
  PROVE  InStep'
<1>0. /\ UNCHANGED << eon, late, log, seen, slashed, withdrawn, allotment,
                      commitments, spent, marker, queue, slasher >>
      /\ mined < Len(queue) /\ queue[mined + 1].tag[1] = "slash"
      /\ mined' = mined + 1
      /\ requests' = IF Total(Slashable) > queue[mined + 1].marker
                     THEN Settle(Slashable, "slashed") ELSE requests
      /\ UNCHANGED ledger
  BY DEF MineSlash, records, ledger
<1>1. /\ TypeOK /\ seen \in Nat /\ Len(log) \in Nat /\ DOMAIN log = 1 .. Len(log)
      /\ seen <= Len(log) /\ eon \in Nat /\ eon >= 1 /\ mined \in Nat
      /\ Len(queue) \in Nat /\ mined + 1 \in mined + 1 .. Len(queue)
      /\ Slashable \subseteq DOMAIN requests
      /\ queue[mined + 1].marker \in Nat /\ Total(Slashable) \in Nat
  <2>1. TypeOK /\ Slashable \subseteq DOMAIN requests
    BY Records DEF Always, InStep, Slashable
  <2>2. Total(Slashable) \in Nat
    BY <2>1, TotalsAreNumbers
  <2> QED BY <1>0, <2>1, <2>2, Records, TypedRequests
<1>2. /\ Slashable \subseteq slashed
      /\ queue[mined + 1].marker < Total(Slashable)
      /\ \A j \in mined + 1 .. Len(queue) :
           queue[j].tag[1] = "slash" => j = mined + 1
  BY <1>0, <1>1 DEF Always, InStep, SlashingWillDo, Slashable
<1>3. /\ requests' \in Seq(RequestType) /\ DOMAIN requests' = DOMAIN requests
      /\ AmountsStand
      /\ \A i \in DOMAIN requests :
           requests'[i].fate = IF i \in Slashable THEN "slashed" ELSE requests[i].fate
  <2>1. requests' = Settle(Slashable, "slashed")
    BY <1>0, <1>1, <1>2
  <2> QED BY <1>1, <2>1, Settled
<1>4. /\ Rows' = Rows /\ Unslashed' = Unslashed
      /\ \A e : Of(e)' = Of(e) /\ Before(e)' = Before(e)
  <2>1. Rows' = Rows /\ Unslashed' = Unslashed
    BY <1>0, <1>3 DEF Rows, Unslashed
  <2> QED BY <1>1, <1>3, <2>1, Records DEF Of, Before, AmountsStand
<1>5. \A i \in DOMAIN requests :
        i \in Slashable <=> /\ requests[i].fate = "pending"
                            /\ requests[i].eon >= eon - 1
  BY <1>1, RequestsSettle DEF Slashable, Pending
<1>6. /\ Fate("paid")' = Fate("paid")
      /\ Fate("slashed")' = Fate("slashed") \cup Slashable
  BY <1>1, <1>3, <1>5 DEF Fate
<1>7. ~ SlashWaits'
  <2>1. \A j \in mined' + 1 .. Len(queue') :
          j \in mined + 1 .. Len(queue) /\ j # mined + 1
    BY <1>0, <1>1
  <2> QED BY <1>0, <1>2, <2>1 DEF SlashWaits
<1>8. /\ Pending(eon, eon)' = {} /\ Pending(eon - 1, eon)' = {}
      /\ Confirmable' = Confirmable
  <2>1. \A a, b : Pending(a, b)' =
          {i \in DOMAIN requests : /\ i \notin Slashable
                                   /\ requests[i].fate = "pending"
                                   /\ requests[i].eon \in a .. b}
    BY <1>3 DEF Pending, AmountsStand
  <2>2. \A i \in DOMAIN requests :
          /\ requests[i].eon \in eon .. eon => requests[i].eon >= eon - 1
          /\ requests[i].eon \in eon - 1 .. eon => requests[i].eon >= eon - 1
          /\ requests[i].eon \in 1 .. eon - 2 => ~ (requests[i].eon >= eon - 1)
    BY <1>1, TypedRequests
  <2>3. Pending(eon, eon)' = {} /\ Pending(eon - 1, eon)' = {}
    BY <1>0, <1>5, <2>1, <2>2
  <2>4. Confirmable' = Confirmable
    <3>1. Confirmable' = Pending(1, eon - 2)'
      BY <1>0 DEF Confirmable
    <3>2. \A i \in DOMAIN requests : requests[i].eon \in 1 .. eon - 2 => i \notin Slashable
      BY <1>5, <2>2
    <3>3. Confirmable' = {i \in DOMAIN requests : /\ i \notin Slashable
                                                  /\ requests[i].fate = "pending"
                                                  /\ requests[i].eon \in 1 .. eon - 2}
      BY <1>0, <2>1, <3>1
    <3> QED BY <3>2, <3>3 DEF Confirmable, Pending
  <2> QED BY <2>3, <2>4
<1>11. RequestsFollow'
  BY <1>0, <1>3, <1>4, FollowFrame DEF Always, InStep
<1>12. FatesAreKnown'
  <2>1. FatesAreKnown
    BY DEF Always, InStep
  <2>2. slashed \subseteq Fate("slashed") \cup Slashable
    <3> SUFFICES ASSUME NEW i \in slashed, i \notin Fate("slashed")
                 PROVE  i \in Slashable
      OBVIOUS
    <3>1. i \in DOMAIN requests
      BY <1>1, Records
    <3>2. requests[i].fate = "pending"
      BY <3>1, RequestsSettle DEF Fate
    <3>3. requests[i].eon >= eon - 1
      BY <2>1 DEF FatesAreKnown
    <3> QED BY <1>5, <3>1, <3>2, <3>3
  <2>3. \A i \in Fate("paid")' : requests'[i].eon <= eon' - 2 /\ i \notin slashed'
    <3>1. \A i \in Fate("paid") :
            i \in DOMAIN requests /\ requests[i].eon <= eon - 2 /\ i \notin slashed
      BY <1>1, <2>1, Records DEF FatesAreKnown
    <3> QED BY <1>0, <1>3, <1>6, <3>1 DEF AmountsStand
  <2>4. Fate("slashed")' \subseteq slashed'
    BY <1>0, <1>2, <1>6, <2>1 DEF FatesAreKnown
  <2> QED BY <1>0, <1>6, <2>2, <2>3, <2>4 DEF FatesAreKnown
<1>13. SpendingIsMarked'
  BY <1>0, <1>3, <1>4, FundsFrame
<1>14. RequestsWereCovered'
  <2>1. Total(Pending(eon, eon))' = 0
    BY <1>8, SumOfNothing DEF Total
  <2>2. eon \in commitments => 0 <= allotment[eon]
    BY <1>1 DEF TypeOK
  <2> QED BY <1>0, <1>8, <2>1, <2>2 DEF RequestsWereCovered
<1>15. SlashingWillDo'
  BY <1>7 DEF SlashingWillDo, SlashWaits
<1>16. PaymentsAreKnown'
  <2>1. Total(Fate("paid") \ withdrawn)' = Total(Fate("paid") \ withdrawn)
    <3>1. Fate("paid") \ withdrawn \in SUBSET DOMAIN requests
      BY <1>1, Records
    <3>2. (Fate("paid") \ withdrawn)' = Fate("paid") \ withdrawn
      BY <1>0, <1>6
    <3> QED BY <1>1, <1>3, <3>1, <3>2, TotalStands DEF Total
  <2>2. NewConfirmations' = NewConfirmations
    BY <1>0 DEF NewConfirmations
  <2> QED BY <1>0, <1>6, <1>8, <2>1, <2>2 DEF Always, InStep, PaymentsAreKnown
<1> QED BY <1>11, <1>12, <1>13, <1>14, <1>15, <1>16 DEF Always, InStep
-----------------------------------------------------------------------------
(* The hub slashes: it has seen all requests, so that it knows what is     *)
(* pending and marks just that.                                            *)

LEMMA AllSeen ==
  ASSUME Always, InStep, ~ (seen < Len(log))
  PROVE  Rows = DOMAIN requests
<1>1. /\ seen = Len(log) /\ DOMAIN log = 1 .. Len(log)
      /\ Rows \subseteq DOMAIN requests
  BY Records DEF Always, InStep
<1>2. ASSUME NEW i \in DOMAIN requests
      PROVE  i \in Rows
  <2>1. PICK k \in DOMAIN log : log[k] = << "request", i >>
    BY DEF Always, InStep, RequestsFollow
  <2> QED BY <1>1, <2>1 DEF Rows
<1> QED BY <1>1, <1>2

LEMMA PendingIsKnown ==
  ASSUME Always, InStep, Rows = DOMAIN requests
  PROVE  /\ pending_withdrawals(eon) = Pending(eon - 1, eon) \ slashed
         /\ ~ SlashWaits => pending_withdrawals(eon) = Pending(eon - 1, eon)
<1>1. /\ TypeOK /\ eon \in Nat /\ Unslashed \subseteq DOMAIN requests
      /\ slashed \subseteq DOMAIN requests
  BY Records, TypedRequests DEF Always, InStep
<1>2. ASSUME NEW i \in DOMAIN requests
      PROVE  i \in pending_withdrawals(eon)
               <=> i \notin slashed /\ requests[i].eon >= eon - 1
  BY <1>2 DEF pending_withdrawals, Unslashed
<1>3. ASSUME NEW i \in DOMAIN requests, requests[i].eon >= eon - 1, i \notin slashed
      PROVE  requests[i].fate = "pending" /\ requests[i].eon \in eon - 1 .. eon
  BY <1>1, <1>3, RequestsSettle
<1>4. ASSUME NEW i \in Pending(eon - 1, eon)
      PROVE  i \in DOMAIN requests /\ requests[i].eon >= eon - 1
             /\ requests[i].fate = "pending"
  <2>1. /\ i \in DOMAIN requests /\ requests[i].eon \in eon - 1 .. eon
        /\ requests[i].fate = "pending"
    BY DEF Pending
  <2> QED BY <1>1, <2>1
<1>5. pending_withdrawals(eon) = Pending(eon - 1, eon) \ slashed
  <2>1. pending_withdrawals(eon) \subseteq DOMAIN requests
    BY <1>1 DEF pending_withdrawals
  <2>2. \A i \in DOMAIN requests : requests[i].fate = "pending" /\
          requests[i].eon \in eon - 1 .. eon => i \in Pending(eon - 1, eon)
    BY DEF Pending
  <2> QED BY <1>2, <1>3, <1>4, <2>1, <2>2
<1>6. ASSUME ~ SlashWaits, NEW i \in Pending(eon - 1, eon)
      PROVE  i \notin slashed
  <2>1. i \notin Fate("slashed")
    BY <1>4 DEF Fate
  <2> QED BY <1>6, <2>1 DEF Always, InStep, FatesAreKnown
<1> QED BY <1>5, <1>6

LEMMA SlashStep ==
  ASSUME Always, InStep, Slash, Quiet'
  PROVE  InStep'
<1> DEFINE W == pending_withdrawals(eon)
           call == [tag |-> slash_tag(eon), marker |-> Min(Markers(eon))]
<1>0. slasher = eon /\ ~ (seen < Len(log))
  <2>1. ~ (seen < Len(log))
    BY DEF Slash, Note, Quiet
  <2>2. slasher = eon \/ (eon \notin commitments /\ slasher = eon - 1)
    BY DEF Slash, Always, EonsFollow
  <2>3. ASSUME eon \notin commitments, slasher = eon - 1 PROVE FALSE
    <3>1. eon > 1 /\ eon - 1 \in commitments /\ eon - 1 \in Eons
      BY <2>3, LastCommittedIs
    <3>2. loosely_available_funds_at_eon(eon - 1) < 0
      BY <2>3 DEF Slash, Overdrawn
    <3>3. /\ available_funds_at_eon(eon - 1) \in Int
          /\ available_funds_at_eon(eon - 1) >= 0
      <4>1. Total(Of(eon - 1)) \in Nat
        BY Records, TotalsAreNumbers DEF Always
      <4>2. allotment[eon - 1] \in Nat /\ spent[eon - 1] \in Nat
        BY <3>1 DEF Always, TypeOK
      <4> QED BY <3>1, <4>1, <4>2
              DEF InStep, SpendingIsMarked, available_funds_at_eon
    <3> QED BY <3>1, <3>2, <3>3 DEF loosely_available_funds_at_eon
  <2> QED BY <2>1, <2>2, <2>3
<1>1. /\ UNCHANGED << eon, late, requests, log, seen, withdrawn, allotment,
                      commitments, spent, marker, mined >>
      /\ UNCHANGED ledger
      /\ W # {} /\ ~ Covered(eon)
      /\ queue' = Append(queue, call)
      /\ slashed' = slashed \cup W
      /\ slasher' = 0
  BY <1>0 DEF Slash, Overdrawn, Marked, chain, ledger
<1>2. /\ TypeOK /\ eon \in Nat /\ eon >= 1 /\ W \subseteq DOMAIN requests
      /\ Rows = DOMAIN requests /\ seen \in Nat /\ Len(log) \in Nat
      /\ mined \in Nat /\ Len(queue) \in Nat /\ mined <= Len(queue)
  BY <1>0, AllSeen, Records, TypedRequests DEF Always, InStep
<1>3. ~ SlashWaits
  <2> SUFFICES ASSUME SlashWaits PROVE FALSE
    OBVIOUS
  <2>1. PICK k \in mined + 1 .. Len(queue) : queue[k].tag[1] = "slash"
    BY DEF SlashWaits
  <2>2. Pending(eon - 1, eon) \subseteq slashed
    BY <2>1 DEF Always, InStep, SlashingWillDo
  <2> QED BY <1>1, <1>2, <2>2, PendingIsKnown
<1>4. W = Pending(eon - 1, eon)
  BY <1>2, <1>3, PendingIsKnown
<1>5. /\ Min(Markers(eon)) \in Nat /\ Min(Markers(eon)) < Total(W)
      /\ Total(W) \in Nat
  <2>1. Total(W) \in Nat
    BY <1>2, TotalsAreNumbers
  <2>2. Markers(eon) # {} /\ ~ (Min(Markers(eon)) >= Total(W))
    BY <1>1 DEF Covered
  <2> HIDE DEF W
  <2> QED BY <1>2, <2>1, <2>2, MarkersAreNumbers
<1>6. call \in [tag : TagType, marker : Nat] /\ call.tag[1] = "slash"
  <2>1. Cardinality({i \in Rows : requests[i].eon = eon}) \in Nat
    BY <1>2, TypedRequests, FS_Subset, FS_CardinalityType
  <2>2. slash_tag(eon) \in TagType /\ slash_tag(eon)[1] = "slash"
    BY <1>2, <1>5, <2>1 DEF slash_tag, TagType, TypeOK
  <2> QED BY <1>5, <2>2
<1>7. /\ queue' \in Seq([tag : TagType, marker : Nat])
      /\ Len(queue') = Len(queue) + 1
      /\ \A k \in 1 .. Len(queue) : queue'[k] = queue[k]
      /\ queue'[Len(queue) + 1] = call
  <2>1. queue \in Seq([tag : TagType, marker : Nat])
    BY <1>2 DEF TypeOK
  <2> HIDE DEF call, W
  <2> QED BY <1>1, <1>6, <2>1, Appended
<1>8. SlashWaits'
  <2>1. Len(queue) + 1 \in mined' + 1 .. Len(queue')
    BY <1>1, <1>2, <1>7
  <2> QED BY <1>6, <1>7, <2>1 DEF SlashWaits
<1>9. /\ Rows' = Rows /\ Confirmable' = Confirmable
      /\ Unslashed' = Unslashed \ W
      /\ \A a, b : Pending(a, b)' = Pending(a, b)
      /\ UNCHANGED << Fate("paid"), Fate("slashed"), NewConfirmations >>
  <2> HIDE DEF W, call
  <2> QED BY <1>1 DEF Rows, Confirmable, Pending, Unslashed, Fate, NewConfirmations
<1> HIDE DEF W, call
<1>12. RequestsFollow'
  BY <1>1, <1>9 DEF Always, InStep, RequestsFollow
<1>13. FatesAreKnown'
  <2>1. \A i \in W : requests[i].eon >= eon - 1 /\ requests[i].fate = "pending"
    <3>1. \A i \in Pending(eon - 1, eon) :
            requests[i].eon \in eon - 1 .. eon /\ requests[i].fate = "pending"
      BY DEF Pending
    <3> QED BY <1>2, <1>4, <3>1
  <2>2. \A i \in Fate("paid") : i \notin W
    BY <2>1 DEF Fate
  <2> QED BY <1>1, <1>8, <1>9, <2>1, <2>2 DEF Always, InStep, FatesAreKnown
<1>14. AmountsStand
  BY <1>1 DEF AmountsStand
<1>15. /\ \A e : Of(e)' \subseteq Of(e)
       /\ \A e : Before(e)' \subseteq Before(e)
  BY <1>1, <1>9 DEF Of, Before
<1>16. SpendingIsMarked'
  BY <1>1, <1>14, <1>15, FundsFrame
<1>17. RequestsWereCovered'
  BY <1>8 DEF RequestsWereCovered
<1>18. SlashingWillDo'
  <2>1. \A k \in mined' + 1 .. Len(queue') :
          queue'[k].tag[1] = "slash" => k = Len(queue) + 1
    <3>1. \A k \in mined + 1 .. Len(queue) : queue'[k].tag[1] # "slash"
      BY <1>2, <1>3, <1>7 DEF SlashWaits
    <3>2. \A k \in mined' + 1 .. Len(queue') :
            k \in mined + 1 .. Len(queue) \/ k = Len(queue) + 1
      BY <1>1, <1>2, <1>7
    <3> QED BY <3>1, <3>2
  <2>2. /\ Pending(eon - 1, eon)' \subseteq slashed'
        /\ Total(Pending(eon - 1, eon))' = Total(W)
    BY <1>1, <1>4, <1>9 DEF Total
  <2>3. queue'[Len(queue) + 1].marker < Total(W)
    BY <1>5, <1>7 DEF call
  <2> QED BY <2>1, <2>2, <2>3 DEF SlashingWillDo
<1>19. PaymentsAreKnown'
  <2>1. (Fate("paid") \ withdrawn)' = Fate("paid") \ withdrawn
    BY <1>1, <1>9
  <2>2. Total(Fate("paid") \ withdrawn)' = Total(Fate("paid") \ withdrawn)
    BY <1>1, <2>1 DEF Total
  <2> QED BY <1>1, <1>9, <2>2 DEF Always, InStep, PaymentsAreKnown
<1> QED BY <1>12, <1>13, <1>16, <1>17, <1>18, <1>19
        DEF Always, InStep
-----------------------------------------------------------------------------
(* The checkpoint allots what is left.                                     *)

LEMMA CreateCheckpointStep ==
  ASSUME Always, InStep, CreateCheckpoint
  PROVE  InStep'
<1>0. /\ UNCHANGED << eon, late, requests, log, seen, slashed, withdrawn,
                      spent, marker, queue, mined, slasher >>
      /\ eon \notin commitments
      /\ available_funds_at_eon(eon - 1) >= 0
      /\ commitments' = commitments \cup {eon}
      /\ allotment' = [allotment EXCEPT ![eon] = available_funds_at_eon(eon - 1)]
  BY DEF CreateCheckpoint, FundsSuffice, chain, records, transactions
<1>1. /\ TypeOK /\ EonsFollow /\ eon \in Nat /\ eon >= 1 /\ eon <= MaxEon
      /\ eon \in Eons /\ commitments \subseteq Eons
      /\ allotment \in [Eons -> Nat] /\ spent \in [Eons -> Nat]
  BY TypedRequests DEF Always, InStep, TypeOK
<1>2. eon > 1 /\ commitments = 1 .. eon - 1
  BY <1>0, <1>1 DEF EonsFollow
<1>3. PICK p \in Eons : p = eon - 1 /\ p \in commitments /\ p \in Nat
  BY <1>1, <1>2 DEF Eons
<1>4. /\ allotment'[eon] = available_funds_at_eon(p)
      /\ \A e \in Eons : e # eon => allotment'[e] = allotment[e]
      /\ DOMAIN allotment' = Eons
      /\ allotment' = [allotment EXCEPT ![eon] = available_funds_at_eon(p)]
      /\ available_funds_at_eon(p) >= 0
  BY <1>0, <1>1, <1>3
<1>5. /\ available_funds_at_eon(p) = allotment[p] - spent[p] - Total(Of(p))
      /\ Total(Of(p)) \in Nat /\ allotment[p] \in Nat /\ spent[p] \in Nat
      /\ available_funds_at_eon(p) \in Nat
  <2>1. available_funds_at_eon(p) = allotment[p] - spent[p] - Total(Of(p))
    BY DEF available_funds_at_eon
  <2>2. Total(Of(p)) \in Nat
    BY <1>1, Records, TotalsAreNumbers
  <2> QED BY <1>1, <1>4, <2>1, <2>2
<1>6. /\ AmountsStand /\ Rows' = Rows /\ Unslashed' = Unslashed
      /\ UNCHANGED << SlashWaits, Confirmable, NewConfirmations, Fate("paid"),
                      Fate("slashed") >>
      /\ \A e : Of(e)' = Of(e) /\ Before(e)' = Before(e)
      /\ \A a, b : Pending(a, b)' = Pending(a, b)
  BY <1>0 DEF AmountsStand, Rows, Unslashed, SlashWaits, Confirmable, NewConfirmations,
              Fate, Of, Before, Pending
<1>9. RequestsFollow' /\ FatesAreKnown'
  BY <1>0, <1>6 DEF Always, InStep, RequestsFollow, FatesAreKnown
<1>10. SlashingWillDo' /\ PaymentsAreKnown'
  <2>1. /\ Total(Pending(eon - 1, eon))' = Total(Pending(eon - 1, eon))
        /\ Total(Fate("paid") \ withdrawn)' = Total(Fate("paid") \ withdrawn)
    BY <1>0, <1>6 DEF Total
  <2>2. SlashingWillDo'
    BY <1>0, <1>6, <2>1, SlashingFrame DEF Always, InStep
  <2>3. PaymentsAreKnown'
    BY <1>0, <1>6, <2>1 DEF Always, InStep, PaymentsAreKnown
  <2> QED BY <2>2, <2>3
<1>11. available_funds_at_eon(p)' = available_funds_at_eon(p)
  BY <1>0, <1>1, <1>3, <1>4, <1>6, FundsStand
<1>12. /\ available_funds_at_eon(eon - 1)' = available_funds_at_eon(p)
       /\ available_funds_at_eon(eon - 1) = available_funds_at_eon(p)
  <2>1. available_funds_at_eon(eon - 1)' = available_funds_at_eon(p)'
    BY <1>0, <1>3
  <2> QED BY <1>3, <1>11, <2>1
<1>13. SpendingIsMarked'
  <2>1. ASSUME NEW e \in 1 .. eon
        PROVE  LeftFrom(e)' = LeftFrom(e)
    <3>1. CASE e = eon
      <4>1. LeftFrom(eon)' = allotment'[eon]
        BY <1>0 DEF LeftFrom
      <4>2. LeftFrom(eon) = available_funds_at_eon(eon - 1)
        BY <1>0 DEF LeftFrom
      <4>3. LeftFrom(e)' = LeftFrom(eon)'
        BY <1>0, <3>1
      <4> QED BY <1>4, <1>12, <3>1, <4>1, <4>2, <4>3
    <3>2. CASE e # eon
      <4>1. e \in commitments /\ e \in Eons
        BY <1>1, <1>2, <3>2
      <4> QED BY <1>0, <1>4, <3>2, <4>1 DEF LeftFrom
    <3> QED BY <3>1, <3>2
  <2> QED BY <1>0, <1>4, <1>12, <2>1 DEF Always, InStep, SpendingIsMarked
<1>14. RequestsWereCovered'
  <2> SUFFICES ASSUME ~ SlashWaits
               PROVE  \/ Total(Pending(eon, eon))' <= allotment'[eon']
                      \/ /\ eon' > 1
                         /\ Total(Pending(eon - 1, eon))' <= allotment'[eon' - 1]
                         /\ allotment'[eon'] = available_funds_at_eon(eon - 1)'
    BY <1>0, <1>6 DEF RequestsWereCovered
  <2>1. \/ Pending(eon, eon) = {}
        \/ Total(Pending(eon - 1, eon)) <= allotment[eon - 1]
    BY <1>0 DEF Always, InStep, RequestsWereCovered
  <2>2. CASE Pending(eon, eon) = {}
    <3>1. Total(Pending(eon, eon))' = 0
      BY <1>0, <1>6, <2>2, SumOfNothing DEF Total
    <3> QED BY <1>0, <1>4, <3>1
  <2>3. CASE Total(Pending(eon - 1, eon)) <= allotment[eon - 1]
    <3>1. Total(Pending(eon - 1, eon))' = Total(Pending(eon - 1, eon))
      BY <1>0, <1>6 DEF Total
    <3>2. allotment'[eon - 1] = allotment[eon - 1]
      BY <1>1, <1>3, <1>4
    <3> QED BY <1>0, <1>2, <1>4, <1>12, <2>3, <3>1, <3>2
  <2> QED BY <2>1, <2>2, <2>3
<1> QED BY <1>9, <1>10, <1>13, <1>14 DEF Always, InStep
-----------------------------------------------------------------------------
(* The next eon begins when the hub has seen and judged everything.        *)

LEMMA NextEonStep ==
  ASSUME Always, InStep, NextEon, Quiet'
  PROVE  InStep'
<1>0. /\ UNCHANGED << requests, log, seen, slashed, withdrawn, allotment,
                      commitments, spent, marker, queue, mined, slasher >>
      /\ eon < MaxEon /\ eon \in commitments /\ eon' = eon + 1 /\ late' = FALSE
      /\ ~ SlashWaits /\ ~ (seen < Len(log))
      /\ ~ (loosely_available_funds_at_eon(eon) < 0)
  <2>1. \A kind \in Overtaken : kind = "missed"
    BY DEF NextEon, Note, Quiet
  <2>2. /\ "mining" \notin Overtaken /\ "unseen" \notin Overtaken
        /\ "negative" \notin Overtaken
    BY <2>1
  <2>3. /\ ~ SlashWaits /\ ~ (seen < Len(log))
        /\ ~ (loosely_available_funds_at_eon(eon) < 0)
    BY <2>2 DEF Overtaken, Disorders
  <2> QED BY <2>3 DEF NextEon, records, ledger, transactions
<1>1. /\ TypeOK /\ EonsFollow /\ eon \in Nat /\ eon >= 1 /\ MaxEon \in Nat
      /\ eon \in Eons /\ Rows = DOMAIN requests
      /\ seen = Len(log) /\ seen \in Nat /\ DOMAIN log = 1 .. Len(log)
      /\ allotment \in [Eons -> Nat] /\ spent \in [Eons -> Nat]
      /\ marker \in [Eons -> SUBSET Nat]
  <2>1. /\ TypeOK /\ EonsFollow
        /\ allotment \in [Eons -> Nat] /\ spent \in [Eons -> Nat]
        /\ marker \in [Eons -> SUBSET Nat] /\ eon \in Eons
    BY DEF Always, InStep, TypeOK
  <2>2. Rows = DOMAIN requests
    BY <1>0, AllSeen
  <2>3. seen = Len(log) /\ seen \in Nat /\ DOMAIN log = 1 .. Len(log)
    BY <1>0, <2>1, Records
  <2> QED BY <2>1, <2>2, <2>3, TypedRequests
<1>2. /\ commitments = 1 .. eon /\ eon' \notin commitments /\ eon' \in Eons
      /\ eon' \in Nat /\ eon' > 1
  BY <1>0, <1>1 DEF EonsFollow, Eons
<1>3. /\ AmountsStand /\ Rows' = Rows /\ Unslashed' = Unslashed
      /\ UNCHANGED << SlashWaits, NewConfirmations, Fate("paid"), Fate("slashed") >>
      /\ \A e : Of(e)' = Of(e)
  BY <1>0 DEF AmountsStand, Rows, Unslashed, SlashWaits, NewConfirmations, Fate, Of
<1>4. NewConfirmations = {}
  BY <1>1 DEF NewConfirmations
<1>7. RequestsFollow'
  <2>1. \A i \in DOMAIN requests :
          /\ requests[i].eon <= eon' /\ i \in Rows
          /\ \E k \in DOMAIN log : log[k] = << "request", i >>
    <3>1. ASSUME NEW i \in DOMAIN requests
          PROVE  requests[i].eon <= eon' /\ i \in Rows
      <4>1. requests[i].eon \in Nat /\ requests[i].eon <= eon
        BY RequestsSettle
      <4> QED BY <1>0, <1>1, <4>1
    <3> QED BY <3>1 DEF Always, InStep, RequestsFollow
  <2>2. \A k \in DOMAIN log : ~ (k > seen)
    BY <1>1
  <2> QED BY <1>0, <1>3, <2>1, <2>2 DEF Always, InStep, RequestsFollow
<1>8. FatesAreKnown'
  <2>1. \A i \in Fate("paid") : requests[i].eon <= eon' - 2 /\ i \notin slashed
    <3>1. \A i \in Fate("paid") : i \in DOMAIN requests /\ requests[i].eon <= eon - 2
                                  /\ i \notin slashed
      BY DEF Always, InStep, FatesAreKnown, Fate
    <3>2. \A i \in Fate("paid") : requests[i].eon \in Nat
      BY <1>1, <3>1, TypedRequests
    <3> QED BY <1>0, <1>1, <3>1, <3>2
  <2> QED BY <1>0, <1>3, <2>1 DEF Always, InStep, FatesAreKnown
<1>9. SlashingWillDo'
  BY <1>0, <1>3 DEF SlashingWillDo, SlashWaits
<1>10. PaymentsAreKnown'
  BY <1>0, <1>3, <1>4 DEF Always, InStep, PaymentsAreKnown
<1>11. available_funds_at_eon(eon) >= 0
  <2>1. /\ available_funds_at_eon(eon) = allotment[eon] - spent[eon] - Total(Of(eon))
        /\ available_funds_at_eon(eon) \in Int
        /\ allotment[eon] \in Nat /\ spent[eon] \in Nat
    <3>1. Total(Of(eon)) \in Nat
      BY <1>1, Records, TotalsAreNumbers
    <3> QED BY <1>1, <3>1 DEF available_funds_at_eon
  <2>2. loosely_available_funds_at_eon(eon) = available_funds_at_eon(eon)
    BY <1>0, <2>1 DEF loosely_available_funds_at_eon
  <2> QED BY <1>0, <2>1, <2>2
<1>12. available_funds_at_eon(eon - 1)' >= 0
  <2>1. \A d \in Eons : d = eon' - 1 =>
          available_funds_at_eon(eon - 1)' = available_funds_at_eon(d)'
    OBVIOUS
  <2>2. eon' - 1 = eon
    BY <1>0, <1>1
  <2>3. \A d \in Eons : available_funds_at_eon(d)' = available_funds_at_eon(d)
    BY <1>0, <1>1, <1>3, FundsStand
  <2> QED BY <1>1, <1>11, <2>1, <2>2, <2>3
<1>13. SpendingIsMarked'
  <2>1. ASSUME NEW e \in 1 .. eon', spent[e] > 0
        PROVE  \E m \in marker[e] : m <= LeftFrom(e)' - spent[e]
    <3>1. spent[eon'] = 0
      BY <1>0, <1>1, <1>2 DEF EonsFollow
    <3>2. e # eon'
      BY <2>1, <3>1
    <3>3. e \in 1 .. eon /\ e \in commitments
      BY <1>0, <1>1, <1>2, <3>2
    <3>4. LeftFrom(e)' = LeftFrom(e)
      BY <1>0, <3>3 DEF LeftFrom
    <3>5. \E m \in marker[e] : m <= LeftFrom(e) - spent[e]
      BY <2>1, <3>3 DEF Always, InStep, SpendingIsMarked
    <3> QED BY <3>4, <3>5
  <2> QED BY <1>0, <1>12, <2>1 DEF SpendingIsMarked
<1>14. RequestsWereCovered'
  <2>1. Pending(eon, eon)' = {}
    <3>1. \A i \in DOMAIN requests : ~ (requests[i].eon \in eon' .. eon')
      <4>1. \A i \in DOMAIN requests : requests[i].eon \in Nat /\ requests[i].eon <= eon
        BY RequestsSettle
      <4> QED BY <1>0, <1>1, <4>1
    <3> QED BY <1>0, <3>1 DEF Pending
  <2>2. eon' \notin commitments'
    BY <1>0, <1>2
  <2> QED BY <2>1, <2>2 DEF RequestsWereCovered
<1> QED BY <1>7, <1>8, <1>9, <1>10, <1>13, <1>14 DEF Always, InStep
-----------------------------------------------------------------------------
(* The owner asks for no more than what it can prove to have.              *)

LEMMA RequestStep ==
  ASSUME Always, InStep, NEW amount \in Amounts, Request(amount), Quiet'
  PROVE  InStep'
<1> DEFINE n == Len(requests) + 1
           request == [amount |-> amount, eon |-> eon, fate |-> "pending"]
           event == << "request", n >>
<1>0. /\ UNCHANGED << eon, late, seen, slashed, withdrawn, allotment,
                      commitments, spent, marker, queue, mined, slasher >>
      /\ UNCHANGED ledger
      /\ amount + Total(Pending(LastCommitted, eon)) <= allotment[LastCommitted]
      /\ ~ SlashWaits
      /\ requests' = Append(requests, request)
      /\ log' = Append(log, event)
  BY DEF Request, Note, Quiet, records, ledger, transactions
<1>1. /\ TypeOK /\ RequestsFollow /\ eon \in Nat /\ eon >= 1 /\ eon \in Eons
      /\ requests \in Seq(RequestType) /\ Len(requests) \in Nat
      /\ log \in Seq({"request", "confirmed"} \X Nat) /\ Len(log) \in Nat
      /\ DOMAIN requests = 1 .. Len(requests) /\ DOMAIN log = 1 .. Len(log)
      /\ seen \in Nat /\ seen <= Len(log) /\ amount \in Nat /\ amount \in Amounts
      /\ n \in Nat /\ n \notin DOMAIN requests
  <2>1. TypeOK /\ RequestsFollow
    BY DEF Always, InStep
  <2>2. /\ eon \in Eons /\ requests \in Seq(RequestType)
        /\ log \in Seq({"request", "confirmed"} \X Nat)
    BY <2>1 DEF TypeOK, RequestType
  <2>3. /\ Len(requests) \in Nat /\ DOMAIN requests = 1 .. Len(requests)
        /\ eon \in Nat /\ eon >= 1
    BY <2>1, TypedRequests
  <2>4. /\ Len(log) \in Nat /\ DOMAIN log = 1 .. Len(log)
        /\ seen \in Nat /\ seen <= Len(log)
    BY <2>1, Records
  <2>5. amount \in Nat /\ n \in Nat /\ n \notin DOMAIN requests
    BY <2>3
  <2> QED BY <2>1, <2>2, <2>3, <2>4, <2>5
<1>2. request \in RequestType /\ event \in {"request", "confirmed"} \X Nat
  BY <1>1 DEF RequestType
<1>3. /\ requests' \in Seq(RequestType) /\ DOMAIN requests' = 1 .. n
      /\ \A i \in DOMAIN requests : requests'[i] = requests[i]
      /\ requests'[n] = request
  <2> HIDE DEF request
  <2> QED BY <1>0, <1>1, <1>2, Appended
<1>4. /\ log' \in Seq({"request", "confirmed"} \X Nat) /\ Len(log') = Len(log) + 1
      /\ DOMAIN log' = 1 .. Len(log) + 1
      /\ \A k \in 1 .. Len(log) : log'[k] = log[k]
      /\ log'[Len(log) + 1] = event
  <2> HIDE DEF event
  <2> QED BY <1>0, <1>1, <1>2, Appended
<1>5. /\ requests'[n].amount = amount /\ requests'[n].eon = eon
      /\ requests'[n].fate = "pending"
      /\ log'[Len(log) + 1][1] = "request" /\ log'[Len(log) + 1][2] = n
      /\ DOMAIN requests' = DOMAIN requests \cup {n}
  BY <1>1, <1>3, <1>4
<1> HIDE DEF request, event, n
<1>6. AmountsStand
  BY <1>3, <1>5 DEF AmountsStand
<1>7. Rows' = Rows
  <2>1. \A k \in 1 .. seen : k \in DOMAIN log /\ log'[k] = log[k]
    BY SMTT(60), <1>1, <1>4
  <2>2. \A k \in 1 .. seen : log[k] # << "request", n >>
    <3>1. ASSUME NEW k \in 1 .. seen, log[k] = << "request", n >>
          PROVE  FALSE
      <4>1. log[k][1] = "request" /\ log[k][2] = n
        BY <3>1
      <4>2. n \in DOMAIN requests
        BY <1>1, <2>1, <4>1 DEF RequestsFollow
      <4> QED BY <1>1, <4>2
    <3> QED BY <3>1
  <2>3. Rows' = {i \in DOMAIN requests' : \E k \in 1 .. seen : log[k] = << "request", i >>}
    BY <1>0, <2>1 DEF Rows
  <2> QED BY <1>5, <2>2, <2>3 DEF Rows
<1>8. /\ Unslashed' = Unslashed /\ SlashWaits' = SlashWaits
      /\ Fate("paid")' = Fate("paid") /\ Fate("slashed")' = Fate("slashed")
      /\ \A e : Of(e)' = Of(e) /\ Before(e)' = Before(e)
  <2>1. Unslashed' = Unslashed /\ SlashWaits' = SlashWaits
    BY <1>0, <1>7 DEF Unslashed, SlashWaits
  <2>2. Fate("paid")' = Fate("paid") /\ Fate("slashed")' = Fate("slashed")
    BY <1>3, <1>5 DEF Fate
  <2>3. \A i \in Unslashed : requests'[i] = requests[i]
    BY <1>1, <1>3, Records
  <2> QED BY <2>1, <2>2, <2>3 DEF Of, Before
<1>9. /\ Pending(eon, eon)' = Pending(eon, eon) \cup {n}
      /\ Pending(eon - 1, eon)' = Pending(eon - 1, eon) \cup {n}
      /\ Confirmable' = Confirmable
  <2>1. eon \in eon .. eon /\ eon \in eon - 1 .. eon /\ eon \notin 1 .. eon - 2
    BY <1>1
  <2>2. ASSUME NEW a, NEW b
        PROVE  /\ eon \in a .. b => Pending(a, b)' = Pending(a, b) \cup {n}
               /\ eon \notin a .. b => Pending(a, b)' = Pending(a, b)
    <3>1. ASSUME NEW i \in DOMAIN requests
          PROVE  i \in Pending(a, b)' <=> i \in Pending(a, b)
      BY <1>3, <1>5 DEF Pending
    <3>2. n \in Pending(a, b)' <=> eon \in a .. b
      BY <1>5 DEF Pending
    <3>3. /\ Pending(a, b)' \subseteq DOMAIN requests \cup {n}
          /\ Pending(a, b) \subseteq DOMAIN requests
      BY <1>5 DEF Pending
    <3> QED BY <3>1, <3>2, <3>3
  <2>3. \A a, b : /\ eon \in a .. b => Pending(a, b)' = Pending(a, b) \cup {n}
                  /\ eon \notin a .. b => Pending(a, b)' = Pending(a, b)
    BY <2>2
  <2>4. Pending(eon, eon)' = Pending(eon, eon) \cup {n}
    BY <1>0, <2>1, <2>3
  <2>5. Pending(eon - 1, eon)' = Pending(eon - 1, eon) \cup {n}
    BY <1>0, <2>1, <2>3
  <2>6. Confirmable' = Confirmable
    <3>1. Confirmable' = Pending(1, eon - 2)'
      BY DEF Confirmable
    <3>2. Pending(1, eon - 2)' = Pending(1, eon - 2)
      BY <1>0, <2>1, <2>3
    <3> QED BY <3>1, <3>2 DEF Confirmable
  <2> QED BY <2>4, <2>5, <2>6
<1>10. ASSUME NEW S \in SUBSET DOMAIN requests
       PROVE  SumFunctionOnSet(AmountsOf(requests'), S \cup {n}) = Total(S) + amount
  <2>1. /\ SumFunctionOnSet(AmountsOf(requests'), S) = Total(S)
        /\ Total(S) \in Nat /\ Positive(AmountsOf(requests), S)
    BY <1>1, <1>6, TotalStands, TotalsAreNumbers
  <2>2. AmountsOf(requests')[n] = amount
    BY <1>5 DEF AmountsOf
  <2>3. IsFiniteSet(S) /\ Counts(AmountsOf(requests'), S) /\ n \notin S
    <3>1. \A i \in S : AmountsOf(requests')[i] = AmountsOf(requests)[i]
      BY <1>6 DEF AmountsOf, AmountsStand
    <3> QED BY <1>1, <2>1, <3>1 DEF Positive, Counts
  <2>4. SumFunctionOnSet(AmountsOf(requests'), S \cup {n})
          = AmountsOf(requests')[n] + SumFunctionOnSet(AmountsOf(requests'), S)
    <3>1. AmountsOf(requests')[n] \in Int
      BY <1>1, <2>2
    <3> QED BY <2>3, <3>1, SumPutIn
  <2> QED BY <1>1, <2>1, <2>2, <2>4
<1>13. RequestsFollow'
  <2>1. \A i \in DOMAIN requests' : /\ requests'[i].eon <= eon
                                    /\ requests'[i].eon < eon => i \in Rows
    <3>1. ASSUME NEW i \in DOMAIN requests', i # n
          PROVE  requests'[i].eon <= eon /\ (requests'[i].eon < eon => i \in Rows)
      BY <1>1, <1>3, <1>5, <3>1 DEF RequestsFollow
    <3> QED BY <1>1, <1>5, <3>1
  <2>2. \A i, j \in DOMAIN requests' : i < j => requests'[i].eon <= requests'[j].eon
    <3> SUFFICES ASSUME NEW i \in DOMAIN requests', NEW j \in DOMAIN requests', i < j
                 PROVE  requests'[i].eon <= requests'[j].eon
      OBVIOUS
    <3>1. CASE j = n
      BY <1>5, <2>1, <3>1
    <3>2. CASE j # n
      <4>1. i \in DOMAIN requests /\ j \in DOMAIN requests
        BY <1>1, <1>5, <3>2 DEF n
      <4> QED BY <1>1, <1>3, <4>1 DEF RequestsFollow
    <3> QED BY <3>1, <3>2
  <2>3. \A i \in DOMAIN requests' : \E k \in DOMAIN log' : log'[k] = << "request", i >>
    <3>1. ASSUME NEW i \in DOMAIN requests
          PROVE  \E k \in DOMAIN log' : log'[k] = << "request", i >>
      <4>1. PICK k \in DOMAIN log : log[k] = << "request", i >>
        BY <1>1 DEF RequestsFollow
      <4>2. k \in DOMAIN log' /\ log'[k] = log[k]
        BY <1>1, <1>4
      <4> QED BY <4>1, <4>2
    <3>2. Len(log) + 1 \in DOMAIN log' /\ log'[Len(log) + 1] = << "request", n >>
      BY <1>1, <1>4 DEF event
    <3> QED BY <1>5, <3>1, <3>2
  <2>4. ASSUME NEW k \in DOMAIN log', log'[k][1] = "request"
        PROVE  /\ log'[k][2] \in DOMAIN requests'
               /\ k > seen => requests'[log'[k][2]].eon = eon
    <3>1. CASE k \in DOMAIN log
      <4>1. /\ log[k][2] \in DOMAIN requests /\ log'[k] = log[k]
            /\ k > seen => requests[log[k][2]].eon = eon
        BY <1>1, <1>4, <2>4, <3>1 DEF RequestsFollow
      <4> QED BY <1>3, <1>5, <4>1
    <3>2. CASE k = Len(log) + 1
      BY <1>5, <3>2
    <3> QED BY <1>1, <1>4, <3>1, <3>2
  <2> QED BY <1>0, <1>7, <2>1, <2>2, <2>3, <2>4 DEF RequestsFollow
<1>14. FatesAreKnown'
  <2>1. \A i \in Fate("paid") : requests'[i] = requests[i]
    BY <1>3 DEF Fate
  <2>2. slashed \ Fate("slashed") = {}
    BY <1>0 DEF Always, InStep, FatesAreKnown
  <2> QED BY <1>0, <1>8, <2>1, <2>2 DEF Always, InStep, FatesAreKnown
<1>15. SpendingIsMarked'
  BY <1>0, <1>6, <1>8, FundsFrame
<1>16. RequestsWereCovered'
  <2>1. CASE eon \in commitments
    <3>1. amount + Total(Pending(eon, eon)) <= allotment[eon]
      BY <1>0, <2>1, LastCommittedIs
    <3>2. Total(Pending(eon, eon))' = Total(Pending(eon, eon)) + amount
      BY <1>1, <1>9, <1>10, Records DEF Total
    <3>3. Total(Pending(eon, eon)) \in Nat
      BY <1>1, Records, TotalsAreNumbers
    <3> QED BY <1>0, <1>1, <2>1, <3>1, <3>2, <3>3 DEF RequestsWereCovered
  <2>2. CASE eon \notin commitments
    <3>1. amount + Total(Pending(eon - 1, eon)) <= allotment[eon - 1]
      BY <1>0, <2>2, LastCommittedIs
    <3>2. Total(Pending(eon - 1, eon))' = Total(Pending(eon - 1, eon)) + amount
      BY <1>1, <1>9, <1>10, Records DEF Total
    <3>3. Total(Pending(eon - 1, eon)) \in Nat
      BY <1>1, Records, TotalsAreNumbers
    <3> QED BY <1>0, <1>1, <2>2, <3>1, <3>2, <3>3 DEF RequestsWereCovered
  <2> QED BY <2>1, <2>2
<1>17. SlashingWillDo'
  BY <1>0, <1>8 DEF SlashingWillDo, SlashWaits
<1>18. PaymentsAreKnown'
  <2>1. NewConfirmations' = NewConfirmations
    <3>1. \A k : k \in seen' + 1 .. Len(log')
                   <=> (k \in seen + 1 .. Len(log) \/ k = Len(log) + 1)
      BY <1>0, <1>1, <1>4
    <3>2. \A k \in seen + 1 .. Len(log) : log'[k] = log[k]
      BY <1>1, <1>4
    <3>3. log'[Len(log) + 1][1] # "confirmed"
      BY <1>5
    <3> QED BY <3>1, <3>2, <3>3 DEF NewConfirmations
  <2>2. \A k \in NewConfirmations : log'[k] = log[k]
    BY <1>1, <1>4 DEF NewConfirmations
  <2>3. Total(Fate("paid") \ withdrawn)' = Total(Fate("paid") \ withdrawn)
    <3>1. Fate("paid") \ withdrawn \in SUBSET DOMAIN requests
      BY <1>1, Records
    <3>2. (Fate("paid") \ withdrawn)' = Fate("paid") \ withdrawn
      BY <1>0, <1>8
    <3> QED BY <1>1, <1>6, <3>1, <3>2, TotalStands DEF Total
  <2>4. PaymentsAreKnown
    BY DEF Always, InStep
  <2>5. /\ withdrawn' \subseteq Fate("paid")'
        /\ NewConfirmations' = {} => withdrawn' = Fate("paid")'
    BY <1>0, <1>8, <2>1, <2>4 DEF PaymentsAreKnown
  <2>6. \A k \in NewConfirmations' :
          /\ log'[k][2] = Total(Fate("paid") \ withdrawn)'
          /\ NewConfirmations' = {k}
          /\ Confirmable' = {}
    BY <1>9, <2>1, <2>2, <2>3, <2>4 DEF PaymentsAreKnown
  <2> QED BY <2>5, <2>6 DEF PaymentsAreKnown
<1> QED BY <1>13, <1>14, <1>15, <1>16, <1>17, <1>18 DEF Always, InStep
-----------------------------------------------------------------------------
(* The owner spends.                                                       *)

LEMMA TransferStep ==
  ASSUME Always, InStep, NEW amount \in Amounts, Transfer(amount)
  PROVE  InStep'
<1> DEFINE left == loosely_available_funds_at_eon(eon) - amount
<1>0. /\ UNCHANGED << eon, late, requests, log, seen, slashed, withdrawn, allotment,
                      commitments, queue, mined, slasher >>
      /\ left >= 0
      /\ spent' = [spent EXCEPT ![eon] = @ + amount]
      /\ marker' = [marker EXCEPT ![eon] = @ \cup {left}]
  BY DEF Transfer, chain, records, transactions
<1>1. /\ TypeOK /\ EonsFollow /\ eon \in Nat /\ eon >= 1 /\ eon <= MaxEon
      /\ eon \in Eons /\ amount \in Nat /\ commitments \subseteq Eons
      /\ allotment \in [Eons -> Nat] /\ spent \in [Eons -> Nat]
      /\ marker \in [Eons -> SUBSET Nat]
  BY TypedRequests DEF Always, InStep, TypeOK
<1>2. left \in Nat /\ left <= LeftFrom(eon) - spent[eon] - amount
  BY <1>0, <1>1, LooselyLeft
<1> HIDE DEF left
<1>3. /\ spent' \in [Eons -> Nat] /\ marker' \in [Eons -> SUBSET Nat]
      /\ spent'[eon] = spent[eon] + amount
      /\ \A e \in Eons : e # eon => spent'[e] = spent[e] /\ marker'[e] = marker[e]
      /\ left \in marker'[eon]
  <2>1. spent' \in [Eons -> Nat] /\ marker' \in [Eons -> SUBSET Nat]
    BY <1>0, <1>1, <1>2
  <2> QED BY <1>0, <1>1, <2>1
<1>4. /\ AmountsStand /\ Rows' = Rows /\ Unslashed' = Unslashed
      /\ UNCHANGED << SlashWaits, Confirmable, NewConfirmations, Fate("paid"),
                      Fate("slashed") >>
      /\ \A e : Of(e)' = Of(e) /\ Before(e)' = Before(e)
      /\ \A a, b : Pending(a, b)' = Pending(a, b)
  BY <1>0 DEF AmountsStand, Rows, Unslashed, SlashWaits, Confirmable, NewConfirmations,
              Fate, Of, Before, Pending
<1>7. RequestsFollow' /\ FatesAreKnown'
  BY <1>0, <1>4 DEF Always, InStep, RequestsFollow, FatesAreKnown
<1>8. SlashingWillDo' /\ PaymentsAreKnown'
  <2>1. /\ Total(Pending(eon - 1, eon))' = Total(Pending(eon - 1, eon))
        /\ Total(Fate("paid") \ withdrawn)' = Total(Fate("paid") \ withdrawn)
    BY <1>0, <1>4 DEF Total
  <2>2. SlashingWillDo'
    BY <1>0, <1>4, <2>1, SlashingFrame DEF Always, InStep
  <2>3. PaymentsAreKnown'
    BY <1>0, <1>4, <2>1 DEF Always, InStep, PaymentsAreKnown
  <2> QED BY <2>2, <2>3
<1>9. ASSUME NEW e \in Eons, e # eon
      PROVE  available_funds_at_eon(e)' = available_funds_at_eon(e)
  BY <1>0, <1>1, <1>3, <1>4, <1>9, FundsStand
<1>10. \A d : d \in Eons /\ d # eon /\ d = eon - 1 =>
         available_funds_at_eon(eon - 1)' = available_funds_at_eon(eon - 1)
  <2> SUFFICES ASSUME NEW d \in Eons, d # eon, d = eon - 1
               PROVE  available_funds_at_eon(eon - 1)' = available_funds_at_eon(eon - 1)
    OBVIOUS
  <2>1. available_funds_at_eon(eon - 1)' = available_funds_at_eon(d)'
    BY <1>0
  <2> QED BY <1>9, <2>1
<1>11. eon > 1 => available_funds_at_eon(eon - 1)' = available_funds_at_eon(eon - 1)
  <2>1. eon > 1 => eon - 1 \in Eons /\ eon - 1 # eon
    BY <1>1 DEF Eons
  <2> QED BY <1>10, <2>1
<1>12. SpendingIsMarked'
  <2>1. ASSUME NEW e \in 1 .. eon, spent'[e] > 0
        PROVE  \E m \in marker'[e] : m <= LeftFrom(e)' - spent'[e]
    <3>0. e \in Eons
      BY <1>1 DEF Eons
    <3>1. CASE e = eon
      <4>1. LeftFrom(eon)' = LeftFrom(eon)
        BY <1>0, <1>11, LastCommittedIs DEF LeftFrom
      <4>2. LeftFrom(e)' = LeftFrom(eon)'
        BY <1>0, <3>1
      <4>3. left <= LeftFrom(eon) - spent'[eon]
        BY <1>1, <1>2, <1>3, LooselyLeft
      <4> QED BY <1>3, <3>1, <4>1, <4>2, <4>3
    <3>2. CASE e # eon
      <4>1. e \in commitments
        BY <1>1, <3>2 DEF EonsFollow
      <4>2. LeftFrom(e)' = LeftFrom(e)
        BY <1>0, <4>1 DEF LeftFrom
      <4>3. \E m \in marker[e] : m <= LeftFrom(e) - spent[e]
        BY <1>3, <2>1, <3>0, <3>2 DEF Always, InStep, SpendingIsMarked
      <4> QED BY <1>3, <3>0, <3>2, <4>2, <4>3
    <3> QED BY <3>1, <3>2
  <2>2. eon > 1 => available_funds_at_eon(eon - 1) >= 0
    BY DEF Always, InStep, SpendingIsMarked
  <2> QED BY <1>0, <1>11, <2>1, <2>2 DEF SpendingIsMarked
<1>13. RequestsWereCovered'
  <2>1. /\ Total(Pending(eon, eon))' = Total(Pending(eon, eon))
        /\ Total(Pending(eon - 1, eon))' = Total(Pending(eon - 1, eon))
    BY <1>0, <1>4 DEF Total
  <2> QED BY <1>0, <1>4, <1>11, <2>1 DEF Always, InStep, RequestsWereCovered
<1> QED BY <1>7, <1>8, <1>12, <1>13 DEF Always, InStep
-----------------------------------------------------------------------------
(* What follows from the invariant.                                        *)

LEMMA MarksAgreeAndAddUp ==
  ASSUME Always, InStep
  PROVE  MarksAgree /\ ConfirmationsAddUp
BY ConfirmedArePaid DEF MarksAgree, ConfirmationsAddUp, InStep, FatesAreKnown

LEMMA SumOfZeros ==
  ASSUME NEW S, IsFiniteSet(S), NEW f, \A x \in S : f[x] = 0
  PROVE  SumFunctionOnSet(f, S) = 0
<1>1. Counts(f, S) /\ \A x \in S : f[x] = f[x] + f[x]
  BY DEF Counts
<1>2. SumFunctionOnSet(f, S) = SumFunctionOnSet(f, S) + SumFunctionOnSet(f, S)
  BY <1>1, SumOfSums
<1>3. SumFunctionOnSet(f, S) \in Int
  BY <1>1, SumIsNumber
<1>4. \A x \in Int : x = x + x => x = 0
  OBVIOUS
<1> QED BY <1>2, <1>3, <1>4, Zenon

LEMMA SpentSoFar ==
  ASSUME Always
  PROVE  SumFunction(spent) = SumFunctionOnSet(spent, 1 .. eon)
<1>1. /\ eon \in Nat /\ eon >= 1 /\ eon <= MaxEon /\ MaxEon \in Nat
      /\ spent \in [Eons -> Nat] /\ Eons = 1 .. MaxEon
      /\ \A e \in Eons : e > eon => spent[e] = 0
  BY TypedRequests DEF Always, TypeOK, EonsFollow, Eons
<1> DEFINE past == 1 .. eon
           rest == eon + 1 .. MaxEon
<1>2. /\ Eons = rest \cup past /\ rest \cap past = {}
      /\ \A e \in rest : spent[e] = 0
      /\ \A e \in past : spent[e] \in Nat
  BY <1>1
<1>3. IsFiniteSet(past) /\ IsFiniteSet(rest)
  <2>1. 1 \in Int /\ eon \in Int /\ eon + 1 \in Int /\ MaxEon \in Int
    BY <1>1
  <2> QED BY <2>1, FS_Interval
<1>4. Counts(spent, past) /\ Counts(spent, rest)
  BY <1>2 DEF Counts
<1> HIDE DEF past, rest
<1>5. /\ SumFunctionOnSet(spent, rest \cup past)
           = SumFunctionOnSet(spent, rest) + SumFunctionOnSet(spent, past)
      /\ SumFunctionOnSet(spent, rest) = 0
      /\ SumFunctionOnSet(spent, past) \in Int
  BY <1>2, <1>3, <1>4, SumOverUnion, SumOfZeros, SumIsNumber
<1>6. DOMAIN spent = rest \cup past
  BY <1>1, <1>2
<1>7. SumFunction(spent) = SumFunctionOnSet(spent, DOMAIN spent)
  BY DEF SumFunction, SumFunctionOnSet, FoldFunction
<1>8. SumFunction(spent) = SumFunctionOnSet(spent, rest \cup past)
  BY <1>6, <1>7, Zenon
<1> QED BY <1>5, <1>8 DEF past

(* What is paid and not marked is of an eon that the last checkpoint has   *)
(* deducted it from, and what was spent since is left from it.             *)
LEMMA AlwaysImpliesOnlySlashedIsPaidTwice == Always => OnlySlashedIsPaidTwice
<1> DEFINE unmarked == Fate("paid") \ slashed
<1> SUFFICES ASSUME Always, "negative" \notin disorder
             PROVE  Total(unmarked) + SumFunction(spent) <= Balance
  BY DEF OnlySlashedIsPaidTwice
<1>1. /\ TypeOK /\ EonsFollow /\ RowsFollow /\ NothingIsAllottedTwice
      /\ eon \in Nat /\ eon >= 1 /\ eon \in Eons /\ eon <= MaxEon
      /\ allotment \in [Eons -> Nat] /\ spent \in [Eons -> Nat]
      /\ \A i \in unmarked : /\ i \in DOMAIN requests /\ requests[i].eon \in Nat
                              /\ requests[i].eon >= 1 /\ requests[i].eon <= eon - 2
                              /\ i \notin slashed
  <2>1. /\ TypeOK /\ EonsFollow /\ RowsFollow /\ NothingIsAllottedTwice
        /\ eon \in Eons /\ allotment \in [Eons -> Nat] /\ spent \in [Eons -> Nat]
    BY DEF Always, TypeOK
  <2>2. unmarked \subseteq DOMAIN requests
    BY <2>1, Records
  <2> QED BY <2>1, <2>2, TypedRequests DEF RowsFollow
<1>2. PICK c \in Eons : /\ c \in commitments /\ c \in Nat
                        /\ c = IF eon = 1 THEN 1 ELSE eon - 1
  <2>1. (IF eon = 1 THEN 1 ELSE eon - 1) \in commitments
    BY <1>1 DEF EonsFollow
  <2> QED BY <1>1, <2>1 DEF TypeOK, Eons
<1>3. /\ allotment[c] + SumFunctionOnSet(spent, 1 .. c - 1) + Total(Before(c)) <= Balance
      /\ allotment[c] \in Nat /\ Balance \in Nat
  BY <1>1, <1>2 DEF NothingIsAllottedTwice
<1>4. /\ Total(unmarked) <= Total(Before(c))
      /\ Total(unmarked) \in Nat /\ Total(Before(c)) \in Nat
  <2>1. ASSUME NEW i \in unmarked PROVE i \in Before(c)
    <3>1. i \in DOMAIN requests /\ requests[i].eon < c /\ i \notin slashed
      BY <1>1, <1>2
    <3> QED BY <1>1, <1>2, <3>1 DEF RowsFollow, Before, Unslashed
  <2>2. Before(c) \in SUBSET DOMAIN requests /\ unmarked \in SUBSET Before(c)
    BY <1>1, <2>1, Records DEF Before
  <2>3. unmarked \in SUBSET DOMAIN requests
    BY <2>2
  <2> HIDE DEF unmarked
  <2> QED BY <1>1, <2>2, <2>3, TotalOfPart, TotalsAreNumbers
<1>5. /\ SumFunctionOnSet(spent, 1 .. c - 1) \in Nat
      /\ SumFunctionOnSet(spent, 1 .. c)
           = SumFunctionOnSet(spent, 1 .. c - 1) + spent[c]
      /\ spent[c] \in Nat
  BY <1>1, SpentIsNumber
<1>6. CASE eon = 1
  <2>1. SumFunction(spent) = SumFunctionOnSet(spent, 1 .. c) /\ c = 1
    BY <1>2, <1>6, SpentSoFar
  <2>2. spent[c] <= allotment[c]
    BY <1>2, <1>6 DEF Always, SpendingIsCovered
  <2> QED BY <1>3, <1>4, <1>5, <2>1, <2>2
<1>7. CASE eon # 1
  <2>1. c = eon - 1
    BY <1>2, <1>7
  <2>2. spent[c] + spent[eon] <= allotment[c]
    BY <1>7, <2>1 DEF Always, SpendingIsCovered
  <2>3. /\ SumFunction(spent) = SumFunctionOnSet(spent, 1 .. c) + spent[eon]
        /\ spent[eon] \in Nat
    <3>1. /\ SumFunctionOnSet(spent, 1 .. eon)
               = SumFunctionOnSet(spent, 1 .. eon - 1) + spent[eon]
          /\ spent[eon] \in Nat
      BY <1>1, SpentIsNumber
    <3>2. SumFunctionOnSet(spent, 1 .. eon - 1) = SumFunctionOnSet(spent, 1 .. c)
      BY <2>1
    <3> QED BY <3>1, <3>2, SpentSoFar
  <2> QED BY <1>3, <1>4, <1>5, <2>2, <2>3
<1> QED BY <1>6, <1>7

(* The wallet has signed a marker below what is pending.                   *)
LEMMA InStepImpliesOverdrawnIsSlashable ==
  ASSUME Always, InStep
  PROVE  OverdrawnIsSlashable
<1> DEFINE W == pending_withdrawals(eon)
<1> SUFFICES ASSUME Overdrawn(eon), ~ SlashWaits,
                    \A i \in W : requests[i].fate = "pending"
             PROVE  ~ Covered(eon)
  BY DEF OverdrawnIsSlashable
<1>1. /\ TypeOK /\ eon \in Nat /\ eon >= 1 /\ eon \in Eons /\ eon <= MaxEon
      /\ MaxEon \in Nat
      /\ allotment \in [Eons -> Nat] /\ spent \in [Eons -> Nat]
      /\ marker \in [Eons -> SUBSET Nat]
      /\ W # {} /\ loosely_available_funds_at_eon(eon) < 0
  BY TypedRequests DEF Always, InStep, TypeOK, Overdrawn
<1>2. /\ W \in SUBSET DOMAIN requests
      /\ \A i \in W : /\ requests[i].eon \in Nat /\ requests[i].fate = "pending"
                      /\ requests[i].eon >= eon - 1 /\ requests[i].eon <= eon
                      /\ i \in Unslashed
  <2>1. W \subseteq Unslashed /\ Unslashed \subseteq DOMAIN requests
    BY <1>1, Records
  <2>2. \A i \in W : requests[i].eon >= eon - 1
    BY DEF pending_withdrawals
  <2> QED BY <2>1, <2>2, RequestsSettle
<1>3. W \subseteq Pending(eon - 1, eon)
  <2>1. \A i \in W : requests[i].eon \in eon - 1 .. eon
    BY <1>1, <1>2
  <2> QED BY <1>2, <2>1 DEF Pending
<1>4. Of(eon) \subseteq W /\ Of(eon) \subseteq Pending(eon, eon)
  <2>1. Of(eon) \subseteq W
    BY <1>1 DEF Of, pending_withdrawals
  <2>2. \A i \in Of(eon) : requests[i].eon \in eon .. eon
    BY <1>1 DEF Of
  <2> QED BY <1>2, <2>1, <2>2 DEF Pending
<1>5. /\ Total(W) \in Nat /\ Total(Of(eon)) \in Nat /\ Total(Of(eon)) <= Total(W)
      /\ Total(Pending(eon, eon)) \in Nat /\ Total(Pending(eon - 1, eon)) \in Nat
      /\ Total(Of(eon)) <= Total(Pending(eon, eon))
      /\ Total(W) <= Total(Pending(eon - 1, eon))
      /\ Pending(eon, eon) = {} => Total(Pending(eon, eon)) = 0
  <2>1. /\ Pending(eon, eon) \in SUBSET DOMAIN requests
        /\ Pending(eon - 1, eon) \in SUBSET DOMAIN requests
        /\ Of(eon) \in SUBSET DOMAIN requests
    BY <1>1, Records
  <2> HIDE DEF W
  <2>2. /\ Total(W) \in Nat /\ Total(Of(eon)) \in Nat
        /\ Total(Pending(eon, eon)) \in Nat /\ Total(Pending(eon - 1, eon)) \in Nat
        /\ Pending(eon, eon) = {} => Total(Pending(eon, eon)) = 0
    BY <1>1, <1>2, <2>1, TotalsAreNumbers
  <2>3. Total(Of(eon)) <= Total(W)
    BY <1>1, <1>2, <1>4, TotalOfPart
  <2>4. Total(Of(eon)) <= Total(Pending(eon, eon))
    BY <1>1, <1>4, <2>1, TotalOfPart
  <2>5. Total(W) <= Total(Pending(eon - 1, eon))
    BY <1>1, <1>3, <2>1, TotalOfPart
  <2> QED BY <2>2, <2>3, <2>4, <2>5
<1>6. ASSUME NEW f \in Eons, f = eon \/ f = eon - 1, NEW m \in marker[f], m < Total(W)
      PROVE  ~ Covered(eon)
  <2> DEFINE eons == {requests[i].eon : i \in W}
  <2>1. /\ eons \subseteq Nat /\ eons # {}
        /\ \A e \in eons : e <= eon
    BY <1>1, <1>2
  <2>2. Min(eons) \in eons
    <3>1. PICK e \in eons : \A k \in eons : e <= k
      <4> HIDE DEF eons
      <4> QED BY <2>1, LeastNumber
    <3>2. Min(eons) = CHOOSE x \in eons : \A y \in eons : x <= y
      BY DEF Min
    <3> HIDE DEF eons
    <3> QED BY <3>1, <3>2
  <2>3. f \in (Min(eons) - 1 .. eon) \cap Eons
    <3>1. Min(eons) \in Nat /\ Min(eons) <= eon
      BY <2>1, <2>2
    <3> HIDE DEF eons
    <3> QED BY <1>1, <1>6, <3>1 DEF Eons
  <2>4. Markers(eon) = UNION {marker[g] : g \in (Min(eons) - 1 .. eon) \cap Eons}
    BY DEF Markers
  <2>5. m \in Markers(eon)
    <3> HIDE DEF eons
    <3> QED BY <1>6, <2>3, <2>4
  <2>6. /\ Markers(eon) # {} /\ Min(Markers(eon)) <= m
        /\ Min(Markers(eon)) \in Nat /\ m \in Nat
    BY <1>1, <2>5, MarkersAreNumbers
  <2> HIDE DEF W
  <2>7. ~ (Min(Markers(eon)) >= Total(W))
    BY <1>5, <1>6, <2>6
  <2> QED BY <2>6, <2>7 DEF Covered, W
<1>7. CASE spent[eon] > 0
  <2>1. PICK m \in marker[eon] : m <= LeftFrom(eon) - spent[eon]
    BY <1>1, <1>7 DEF Always, InStep, SpendingIsMarked
  <2>2. m < Total(W)
    <3>1. m \in Nat
      BY <1>1
    <3> QED BY <1>1, <1>5, <2>1, <3>1, LooselyLeft
  <2> QED BY <1>1, <1>6, <2>2
<1>8. CASE ~ (spent[eon] > 0)
  <2>1. LeftFrom(eon) < Total(Of(eon)) /\ LeftFrom(eon) \in Int
    BY <1>1, <1>5, <1>8, LooselyLeft
  <2>2. /\ eon > 1
        /\ Total(Pending(eon - 1, eon)) <= allotment[eon - 1]
        /\ LeftFrom(eon) = available_funds_at_eon(eon - 1)
    <3>1. CASE eon \in commitments
      <4>1. LeftFrom(eon) = allotment[eon]
        BY <3>1 DEF LeftFrom
      <4>2. ~ (Total(Pending(eon, eon)) <= allotment[eon])
        BY <1>1, <1>5, <2>1, <4>1
      <4> QED BY <3>1, <4>1, <4>2 DEF Always, InStep, RequestsWereCovered
    <3>2. CASE eon \notin commitments
      <4>1. LeftFrom(eon) = available_funds_at_eon(eon - 1) /\ eon > 1
        BY <3>2, LastCommittedIs DEF LeftFrom
      <4>2. available_funds_at_eon(eon - 1) >= 0
        BY <4>1 DEF Always, InStep, SpendingIsMarked
      <4>3. Pending(eon, eon) # {}
        BY <1>5, <2>1, <4>1, <4>2
      <4> QED BY <3>2, <4>1, <4>3 DEF Always, InStep, RequestsWereCovered
    <3> QED BY <3>1, <3>2
  <2>3. PICK p \in Eons : p = eon - 1 /\ p \in commitments
    BY <1>1, <2>2 DEF Always, InStep, EonsFollow, Eons
  <2>4. /\ LeftFrom(eon) = allotment[p] - spent[p] - Total(Of(p))
        /\ Total(Of(p)) \in Nat /\ allotment[p] \in Nat /\ spent[p] \in Nat
    <3>1. available_funds_at_eon(p) = allotment[p] - spent[p] - Total(Of(p))
      BY DEF available_funds_at_eon
    <3>2. Total(Of(p)) \in Nat
      BY <1>1, Records, TotalsAreNumbers
    <3> QED BY <1>1, <2>2, <2>3, <3>1, <3>2
  <2>5. Total(W) = Total(Of(eon)) + Total(Of(p))
    <3>1. Of(p) \in SUBSET DOMAIN requests /\ Of(eon) \in SUBSET DOMAIN requests
      BY <1>1, Records
    <3>2. W = Of(eon) \cup Of(p) /\ Of(eon) \cap Of(p) = {}
      <4>1. \A i \in W : requests[i].eon = eon \/ requests[i].eon = p
        BY <1>1, <1>2, <2>3
      <4>2. Of(p) \subseteq W
        BY <1>1, <2>3 DEF Of, pending_withdrawals
      <4>3. eon # p
        BY <1>1, <2>3
      <4>4. \A i \in W : i \in Of(eon) \/ i \in Of(p)
        BY <1>2, <4>1 DEF Of
      <4>5. Of(eon) \cap Of(p) = {}
        BY <4>3 DEF Of
      <4> HIDE DEF W
      <4> QED BY <1>4, <4>2, <4>4, <4>5
    <3>3. Total(Of(eon) \cup Of(p)) = Total(Of(eon)) + Total(Of(p))
      BY <1>1, <3>1, <3>2, TotalOfParts
    <3> HIDE DEF W
    <3> QED BY <3>2, <3>3
  <2>6. allotment[p] = allotment[eon - 1]
    BY <2>3
  <2> HIDE DEF W
  <2>7. allotment[p] - spent[p] < Total(W) /\ Total(W) <= allotment[p]
    BY <1>5, <2>1, <2>2, <2>4, <2>5, <2>6
  <2>8. spent[p] > 0
    BY <1>5, <2>4, <2>7
  <2>9. PICK m \in marker[p] : m <= LeftFrom(p) - spent[p]
    BY <1>1, <2>3, <2>8 DEF Always, InStep, SpendingIsMarked, Eons
  <2>10. m < Total(W)
    <3>1. m \in Nat /\ LeftFrom(p) = allotment[p]
      BY <1>1, <2>3 DEF LeftFrom
    <3> QED BY <1>5, <2>4, <2>7, <2>9, <3>1
  <2> QED BY <1>6, <2>3, <2>10
<1> QED BY <1>7, <1>8
-----------------------------------------------------------------------------
(* The theorems.                                                           *)

LEMMA NextKeepsAlways == Always /\ [Next]_vars => Always'
<1> SUFFICES ASSUME Always, [Next]_vars
             PROVE  Always'
  OBVIOUS
<1>0. late \in BOOLEAN
  BY DEF Always, TypeOK
<1>1. CASE PassSlack \/ BeginSlashing \/ SkipSlashing
  BY <1>0, <1>1, QuietAlways DEF PassSlack, BeginSlashing, SkipSlashing, chain
<1>2. CASE MineSlash \/ MineConfirmation
  BY <1>2, MineSlashAlways, MineConfirmationAlways
<1>3. CASE See
  BY <1>3, SeeAlways
<1>4. CASE Slash
  BY <1>4, SlashAlways
<1>5. CASE CreateCheckpoint
  BY <1>5, CreateCheckpointAlways
<1>6. CASE QueueConfirmation
  BY <1>6, QueueConfirmationAlways
<1>7. CASE NextEon
  BY <1>7, NextEonAlways
<1>8. ASSUME NEW amount \in Amounts, Request(amount) \/ Transfer(amount)
      PROVE  Always'
  BY <1>8, RequestAlways, TransferAlways
<1>9. CASE UNCHANGED vars
  BY <1>0, <1>9, QuietAlways DEF vars, chain
<1> QED BY <1>1, <1>2, <1>3, <1>4, <1>5, <1>6, <1>7, <1>8, <1>9
        DEF Next, Contract, Slashing

LEMMA NextKeepsInStep == Always /\ InStep /\ [Next]_vars /\ Quiet' => InStep'
<1> SUFFICES ASSUME Always, InStep, [Next]_vars, Quiet'
             PROVE  InStep'
  OBVIOUS
<1>0. late \in BOOLEAN
  BY DEF Always, TypeOK
<1>1. CASE PassSlack \/ BeginSlashing \/ SkipSlashing
  BY <1>0, <1>1, QuietStep DEF PassSlack, BeginSlashing, SkipSlashing, chain
<1>2. CASE MineSlash \/ MineConfirmation
  BY <1>2, MineSlashStep, MineConfirmationStep
<1>3. CASE SeeRequest \/ SeeConfirmation
  BY <1>3, SeeRequestStep, SeeConfirmationStep
<1>4. CASE Slash
  BY <1>4, SlashStep
<1>5. CASE CreateCheckpoint
  BY <1>5, CreateCheckpointStep
<1>6. CASE QueueConfirmation
  BY <1>6, QueueConfirmationStep
<1>7. CASE NextEon
  BY <1>7, NextEonStep
<1>8. ASSUME NEW amount \in Amounts, Request(amount) \/ Transfer(amount)
      PROVE  InStep'
  BY <1>8, RequestStep, TransferStep
<1>9. CASE UNCHANGED vars
  BY <1>0, <1>9, QuietStep DEF vars, chain
<1> QED BY <1>1, <1>2, <1>3, <1>4, <1>5, <1>6, <1>7, <1>8, <1>9
        DEF Next, Contract, See, Slashing

(* Disorder stays: a step that ends in quiet times begins in them.         *)
LEMMA DisorderStays == [Next]_vars /\ Quiet' => Quiet
<1> SUFFICES ASSUME [Next]_vars PROVE disorder \subseteq disorder'
  BY DEF Quiet
<1>1. CASE UNCHANGED vars
  BY <1>1 DEF vars
<1>2. CASE Next
  BY <1>2 DEF Next, Contract, See, Slashing, NextEon, PassSlack, MineSlash,
              MineConfirmation, SeeRequest, SeeConfirmation, BeginSlashing, Slash,
              SkipSlashing, CreateCheckpoint, QueueConfirmation, Request, Transfer, Note
<1> QED BY <1>1, <1>2

LEMMA NextKeepsInv == WithdrawalsInv /\ [Next]_vars => WithdrawalsInv'
BY NextKeepsAlways, NextKeepsInStep, DisorderStays DEF WithdrawalsInv

(* The records of the hub and of the contract stay in step, as InStep says *)
(* part by part, until something comes at a bad moment; what a checkpoint  *)
(* allots is covered whatever comes when.                                  *)
THEOREM WithdrawalsStayInStep == Spec => []WithdrawalsInv
BY InitInv, NextKeepsInv, PTL DEF Spec

(* slash_bad_withdrawals can act on every wallet that is overdrawn, in     *)
(* quiet times.                                                            *)
THEOREM SlashingIsPossible == Spec => []OverdrawnIsSlashable
<1>1. WithdrawalsInv => OverdrawnIsSlashable
  BY InStepImpliesOverdrawnIsSlashable DEF WithdrawalsInv, OverdrawnIsSlashable
<1> QED BY <1>1, WithdrawalsStayInStep, PTL

(* What is spent off chain is paid out on chain only when the hub has      *)
(* marked it as slashed, or let an eon pass at negative funds: wherever    *)
(* requests, slashings and eons come.                                      *)
THEOREM DoubleSpendingIsMarked == Spec => []OnlySlashedIsPaidTwice
<1>1. WithdrawalsInv => OnlySlashedIsPaidTwice
  BY AlwaysImpliesOnlySlashedIsPaidTwice DEF WithdrawalsInv
<1> QED BY <1>1, WithdrawalsStayInStep, PTL

(* The loop of withdrawal_confirmation.py ends with an accumulator equal   *)
(* to the confirmed amount, and the marks of the hub agree with the        *)
(* contract, until something comes at a bad moment.                        *)
THEOREM ConfirmationsAreMatched == Spec => [](Quiet => MarksAgree /\ ConfirmationsAddUp)
<1>1. WithdrawalsInv => (Quiet => MarksAgree /\ ConfirmationsAddUp)
  BY MarksAgreeAndAddUp DEF WithdrawalsInv
<1> QED BY <1>1, WithdrawalsStayInStep, PTL
=============================================================================
