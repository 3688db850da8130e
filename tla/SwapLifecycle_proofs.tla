------------------------ MODULE SwapLifecycle_proofs ------------------------
(***************************************************************************)
(* LifeInv is an inductive invariant of SwapLifecycle, whatever the number *)
(* of orders, their size and the eons they are valid in.  Its first part,  *)
(* RowsInv, is inductive also when a handler acts for an eon that has      *)
(* passed; the second is about handlers that do not, and gives the action  *)
(* properties of the module.                                               *)
(*                                                                         *)
(* Either is restated order by order (Good, Settled) and row by row        *)
(* (RowOK, PairOK, RowSettled) without the variables of the module, and    *)
(* each operation on the rows of an order is shown to keep it.             *)
(***************************************************************************)
EXTENDS SwapLifecycle, TLAPS, WellFoundedInduction

(* What RowsInv says of the row of eon e: c are the eons with a checkpoint,*)
(* l is the latest eon and f what is filled of the order.                  *)
RowOK(r, e, c, l, f) ==
  /\ "voided" \in r => "processed" \in r /\ "appended" \notin r
  /\ "complete" \in r => "processed" \in r \/ "appended" \in r
  /\ "processed" \in r /\ "appended" \in r => \/ e < l
                                              \/ "complete" \in r
                                              \/ "cancelled" \in r
  /\ "complete" \in r => f = Size
  /\ e + 1 \in c /\ "appended" \in r => "processed" \in r
  /\ "cancellation_state" \in r \/ "finalization_state" \in r
       => "processed" \in r
  /\ "complete" \in r => /\ "operator_signature" \in r
                         /\ "fulfillment_signed" \in r
                         /\ "finalization_state" \in r
                              => "finalization_signed" \in r

Over(r) ==
  \/ "complete" \in r
  \/ "cancelled" \in r /\ "processed" \in r /\ "appended" \in r

Void(r) == "voided" \in r /\ "processed" \in r /\ "appended" \notin r

(* What it says of the row of an eon and that of a later one.              *)
PairOK(r, s) ==
  /\ Over(r) => Void(s)
  /\ ~ ("complete" \in r /\ "complete" \in s)

(* What it says of an order.                                               *)
Good(current, rs, c, l, f) ==
  /\ \A e \in Eons \ current : rs[e] = {}
  /\ \A e \in current : RowOK(rs[e], e, c, l, f)
  /\ \A e, g \in current : e < g => PairOK(rs[e], rs[g])

Rows == [Eons -> SUBSET Flags]

(* RowsInv is TypeOK and Good for every order.                             *)
LEMMA Gather ==
  TypeOK =>
    (RowsInv <=>
       /\ commitments \subseteq 1 .. latest_eon
       /\ \A o \in Orders :
            Good(rows[o], row[o], commitments, latest_eon, filled[o]))
<1> HAVE TypeOK
<1>1. ASSUME NEW o \in Orders
      PROVE  rows[o] \subseteq Eons /\ (\A e \in rows[o] : e \in Int)
  BY <1>1, SwapLifecycleAssumption DEF TypeOK, Eons
<1>2. ASSUME RowsInv, NEW o \in Orders
      PROVE  Good(rows[o], row[o], commitments, latest_eon, filled[o])
  <2>1. \A e \in Eons \ rows[o] : row[o][e] = {}
    BY <1>2 DEF RowsInv, OrderSound, NewRow
  <2>2. ASSUME NEW e \in rows[o]
        PROVE  RowOK(row[o][e], e, commitments, latest_eon, filled[o])
    BY <1>2, <2>2 DEF RowsInv, OrderSound, RowSound, Complete,
       RetiredByCheckpoint, NothingLeftToCountersign, FulfilledIsSigned,
       is_open, RowOK
  <2>3. ASSUME NEW e \in rows[o], NEW g \in rows[o], e < g
        PROVE  PairOK(row[o][e], row[o][g])
    <3>1. Over(row[o][e]) => Void(row[o][g])
      BY <1>2, <2>3 DEF RowsInv, NothingComesAfter, Complete, WasCancelled,
         Over, Void
    <3>2. ~ ("complete" \in row[o][e] /\ "complete" \in row[o][g])
      BY <1>1, <1>2, <2>3 DEF RowsInv, OrderSound, Complete
    <3> QED BY <3>1, <3>2 DEF PairOK
  <2> QED BY <2>1, <2>2, <2>3 DEF Good
<1>3. ASSUME commitments \subseteq 1 .. latest_eon,
             \A o \in Orders :
               Good(rows[o], row[o], commitments, latest_eon, filled[o])
      PROVE  RowsInv
  <2>1. ASSUME NEW o \in Orders PROVE OrderSound(o)
    <3>1. Good(rows[o], row[o], commitments, latest_eon, filled[o])
      BY <1>3, <2>1
    <3>2. \A e \in Eons \ rows[o] : row[o][e] = NewRow
      BY <3>1 DEF Good, NewRow
    <3>3. ASSUME NEW e \in rows[o]
          PROVE  /\ RowSound(row[o][e])
                 /\ (/\ {"processed", "appended"} \subseteq row[o][e]
                     /\ row[o][e] \cap {"complete", "cancelled"} = {})
                       => e < latest_eon
                 /\ Complete(row[o][e]) => filled[o] = Size
      <4>1. RowOK(row[o][e], e, commitments, latest_eon, filled[o])
        BY <3>1, <3>3 DEF Good
      <4> QED BY <4>1 DEF RowOK, RowSound, Complete
    <3>4. ASSUME NEW e \in rows[o], NEW g \in rows[o],
                 Complete(row[o][e]), Complete(row[o][g])
          PROVE  e = g
      <4>1. ~ (e < g) /\ ~ (g < e)
        BY <3>1, <3>4 DEF Good, PairOK, Complete
      <4> QED BY <1>1, <2>1, <4>1
    <3> QED BY <3>2, <3>3, <3>4 DEF OrderSound
  <2>2. ASSUME NEW o \in Orders, NEW e \in rows[o]
        PROVE  RowOK(row[o][e], e, commitments, latest_eon, filled[o])
    BY <1>3, <2>2 DEF Good
  <2>3. NothingComesAfter
    <3> SUFFICES ASSUME NEW o \in Orders, NEW e \in rows[o],
                        NEW f \in rows[o], e < f,
                        Complete(row[o][e]) \/ WasCancelled(row[o][e])
                 PROVE  /\ {"voided", "processed"} \subseteq row[o][f]
                        /\ "appended" \notin row[o][f]
      BY DEF NothingComesAfter
    <3>1. PairOK(row[o][e], row[o][f])
      BY <1>3 DEF Good
    <3> QED BY <3>1 DEF PairOK, Over, Void, Complete, WasCancelled
  <2>4. RetiredByCheckpoint
    BY <2>2 DEF RetiredByCheckpoint, RowOK, is_open
  <2>5. NothingLeftToCountersign
    BY <2>2 DEF NothingLeftToCountersign, RowOK, is_open
  <2>6. FulfilledIsSigned
    BY <2>2 DEF FulfilledIsSigned, RowOK, Complete
  <2> QED BY <1>3, <2>1, <2>3, <2>4, <2>5, <2>6 DEF RowsInv
<1> QED BY <1>2, <1>3 DEF RowsInv

-----------------------------------------------------------------------------
(* Operations on the rows of one order                                     *)

LEMMA EonsAreInts == Eons \subseteq Int /\ \A e \in Eons : e >= 1
BY SwapLifecycleAssumption DEF Eons

(* An operation that works on the open row of eon e and on later rows: it  *)
(* keeps the invariant when it keeps that of each row, when the later rows *)
(* become void with an outcome that ends the order, and when it does not   *)
(* complete two rows.                                                      *)
LEMMA Ends ==
  ASSUME NEW current \in SUBSET Eons, NEW rs \in Rows, NEW c, NEW l \in Int,
         NEW f, NEW f2, Good(current, rs, c, l, f),
         NEW e \in current, "processed" \notin rs[e],
         NEW ts \in Rows,
         \A x \in Eons : x \notin current \/ x < e => ts[x] = rs[x],
         \A x \in current : "complete" \in rs[x] => f2 = Size,
         RowOK(ts[e], e, c, l, f2),
         "complete" \in ts[e] =>
           \A x \in current \ {e} : "complete" \notin rs[x],
         \A x \in current : x > e =>
           /\ RowOK(ts[x], x, c, l, f2)
           /\ Void(rs[x]) => Void(ts[x])
           /\ Over(ts[e]) => Void(ts[x])
           /\ Over(ts[x]) => Over(rs[x])
           /\ "complete" \in ts[x] => "complete" \in rs[x]
  PROVE  Good(current, ts, c, l, f2)
<1>1. \A x \in current : x \in Int /\ (x < e \/ x = e \/ x > e)
  BY EonsAreInts
<1>2. \A x \in Eons \ current : ts[x] = {}
  BY DEF Good
<1>3. ASSUME NEW x \in current, x < e PROVE RowOK(ts[x], x, c, l, f2)
  <2>1. RowOK(rs[x], x, c, l, f) /\ ts[x] = rs[x]
    BY <1>3 DEF Good
  <2> QED BY <2>1 DEF RowOK
<1>4. \A x \in current : RowOK(ts[x], x, c, l, f2)
  BY <1>1, <1>3
<1>5. ASSUME NEW x \in current, x < e PROVE ~ Over(rs[x]) /\ ts[x] = rs[x]
  <2>1. PairOK(rs[x], rs[e])
    BY <1>5 DEF Good
  <2> QED BY <1>5, <2>1 DEF PairOK, Void
<1>6. ASSUME NEW x \in current, NEW y \in current, x < y
      PROVE  PairOK(ts[x], ts[y])
  <2>1. CASE x < e
    BY <1>5, <2>1 DEF PairOK, Over
  <2>2. CASE x = e
    BY <1>1, <1>6, <2>2 DEF PairOK, Over
  <2>3. CASE x > e
    <3>1. PairOK(rs[x], rs[y])
      BY <1>6 DEF Good
    <3>2. y > e
      BY <1>1, <1>6, <2>3
    <3> QED BY <2>3, <3>1, <3>2 DEF PairOK
  <2> QED BY <1>1, <2>1, <2>2, <2>3
<1> QED BY <1>2, <1>4, <1>6 DEF Good

(* What change_state does to the row of its eon and to the others.  The    *)
(* operators keep sets out of sight where only their names matter.         *)
VoidedRow(r) == (r \ {"appended"}) \cup {"processed", "voided"}
EndsOrder(outcome) == outcome \cap {"complete", "cancelled", "voided"} # {}

LEMMA ChangeState ==
  ASSUME NEW current, NEW rs \in Rows, NEW e \in Eons, NEW outcome,
         NEW x \in Eons
  PROVE  /\ change_state(rs, current, e, outcome)[e]
              = With(rs[e], Outcome, outcome)
         /\ (x < e \/ x \notin current) /\ x # e =>
              change_state(rs, current, e, outcome)[x] = rs[x]
         /\ x > e /\ x \in current =>
              change_state(rs, current, e, outcome)[x]
                = IF EndsOrder(outcome) /\ "voided" \notin rs[x]
                  THEN VoidedRow(rs[x]) ELSE rs[x]
<1>1. change_state(rs, current, e, outcome) = [y \in Eons |->
        IF y = e THEN With(rs[y], Outcome, outcome)
        ELSE IF y > e /\ y \in current /\ EndsOrder(outcome)
                /\ "voided" \notin rs[y]
             THEN VoidedRow(rs[y]) ELSE rs[y]]
  BY DEF change_state, With, EndsOrder, VoidedRow, Rows
<1>2. (x < e \/ x > e => x # e) /\ ~ (x < e /\ x > e)
  BY EonsAreInts
<1> QED BY <1>1, <1>2

LEMMA ChangeInRows ==
  ASSUME NEW current, NEW rs \in Rows, NEW e \in Eons,
         NEW outcome \in SUBSET Outcome
  PROVE  change_state(rs, current, e, outcome) \in Rows
<1>1. DOMAIN rs = Eons /\ (\A y \in Eons : rs[y] \subseteq Flags)
  BY DEF Rows
<1>2. Outcome \subseteq Flags
  BY DEF Outcome, Flags
<1>3. change_state(rs, current, e, outcome) = [y \in Eons |->
        IF y = e THEN (rs[y] \ Outcome) \cup outcome
        ELSE IF /\ y > e /\ y \in current
                /\ outcome \cap {"complete", "cancelled", "voided"} # {}
                /\ "voided" \notin rs[y]
             THEN (rs[y] \ {"appended"}) \cup {"processed", "voided"}
             ELSE rs[y]]
  BY <1>1 DEF change_state, With
<1>4. ASSUME NEW y \in Eons
      PROVE  change_state(rs, current, e, outcome)[y] \in SUBSET Flags
  <2>1. rs[y] \subseteq Flags /\ {"processed", "voided"} \subseteq Flags
    BY <1>1 DEF Flags
  <2> QED BY <1>2, <1>3, <2>1
<1> QED BY <1>3, <1>4 DEF Rows

(* A row that is voided or stays as it is keeps what is said of it.        *)
LEMMA Voiding ==
  ASSUME NEW r, NEW s, NEW e, NEW c, NEW l, NEW f, NEW f2,
         RowOK(r, e, c, l, f), "complete" \in r => f2 = Size,
         s = r \/ s = VoidedRow(r)
  PROVE  /\ RowOK(s, e, c, l, f2)
         /\ Void(r) => Void(s)
         /\ Over(s) => Over(r)
         /\ "complete" \in s => "complete" \in r
BY DEF RowOK, Void, Over, VoidedRow

(* change_state on an open row, with an outcome whose row is in order.     *)
LEMMA Changed ==
  ASSUME NEW current \in SUBSET Eons, NEW rs \in Rows, NEW c, NEW l \in Int,
         NEW f, NEW f2, Good(current, rs, c, l, f),
         NEW e \in current, "processed" \notin rs[e],
         NEW outcome \in SUBSET Outcome,
         NEW ts \in Rows,
         \A x \in Eons \ {e} :
           ts[x] = change_state(rs, current, e, outcome)[x],
         \A x \in current : "complete" \in rs[x] => f2 = Size,
         RowOK(ts[e], e, c, l, f2),
         Over(ts[e]) => EndsOrder(outcome),
         "complete" \in ts[e] =>
           \A x \in current \ {e} : "complete" \notin rs[x]
  PROVE  Good(current, ts, c, l, f2)
<1>1. \A x \in Eons : x \notin current \/ x < e => ts[x] = rs[x]
  <2>1. ASSUME NEW x \in Eons, x \notin current \/ x < e
        PROVE  ts[x] = rs[x]
    <3>1. x # e
      BY <2>1, EonsAreInts
    <3> QED BY <2>1, <3>1, ChangeState
  <2> QED BY <2>1
<1>2. ASSUME NEW x \in current, x > e
      PROVE  /\ RowOK(ts[x], x, c, l, f2)
             /\ Void(rs[x]) => Void(ts[x])
             /\ Over(ts[e]) => Void(ts[x])
             /\ Over(ts[x]) => Over(rs[x])
             /\ "complete" \in ts[x] => "complete" \in rs[x]
  <2>1. x \in Eons /\ x # e
    BY <1>2, EonsAreInts
  <2>2. ts[x] = IF EndsOrder(outcome) /\ "voided" \notin rs[x]
                THEN VoidedRow(rs[x]) ELSE rs[x]
    BY <1>2, <2>1, ChangeState
  <2>3. RowOK(rs[x], x, c, l, f)
    BY DEF Good
  <2>4. "complete" \in rs[x] => f2 = Size
    OBVIOUS
  <2>5. /\ RowOK(ts[x], x, c, l, f2)
        /\ Void(rs[x]) => Void(ts[x])
        /\ Over(ts[x]) => Over(rs[x])
        /\ "complete" \in ts[x] => "complete" \in rs[x]
    <3>1. ts[x] = rs[x] \/ ts[x] = VoidedRow(rs[x])
      BY <2>2
    <3> QED BY <2>3, <2>4, <3>1, Voiding
  <2>6. Over(ts[e]) => Void(ts[x])
    <3>1. "voided" \in rs[x] => Void(rs[x])
      BY <2>3 DEF RowOK, Void
    <3>2. "voided" \notin rs[x] =>
            Void(VoidedRow(rs[x]))
      BY DEF Void, VoidedRow
    <3> QED BY <2>2, <3>1, <3>2
  <2> QED BY <2>5, <2>6
<1> QED BY <1>1, <1>2, Ends

(* retire_swap, when a checkpoint for the latest eon is there.             *)
LEMMA Retired ==
  ASSUME NEW current \in SUBSET Eons, NEW rs \in Rows,
         NEW l \in Int, NEW e \in Int, e + 1 = l,
         NEW c, NEW c2, c2 = c \cup {l},
         NEW f, Good(current, rs, c, l, f)
  PROVE  /\ retire_swap(rs, current, e) \in Rows
         /\ Good(current, retire_swap(rs, current, e), c2, l, f)
<1>1. ASSUME NEW x \in current, NEW r, RowOK(r, x, c, l, f),
             x = e => ("appended" \in r => "processed" \in r)
      PROVE  RowOK(r, x, c2, l, f)
  <2>1. x \in Int
    BY EonsAreInts
  <2>2. x + 1 \in c2 => x + 1 \in c \/ x = e
    BY <2>1
  <2> QED BY <1>1, <2>2 DEF RowOK
<1>2. CASE ~ (e \in current /\ "appended" \in rs[e] /\ is_open(rs[e]))
  <2>1. retire_swap(rs, current, e) = rs
    BY <1>2 DEF retire_swap
  <2>2. \A x \in current : RowOK(rs[x], x, c2, l, f)
    BY <1>1, <1>2 DEF Good, is_open
  <2> QED BY <2>1, <2>2 DEF Good
<1>3. CASE e \in current /\ "appended" \in rs[e] /\ is_open(rs[e])
  <2> DEFINE kept == (rs[e] \cap {"complete"}) \cup
                     (IF is_signed_by_operator(rs[e]) THEN {"appended"}
                      ELSE IF "complete" \in rs[e] THEN {} ELSE {"voided"})
             outcome == kept \cup {"processed"}
             ts == change_state(rs, current, e, outcome)
  <2>1. retire_swap(rs, current, e) = ts
    BY <1>3 DEF retire_swap, close
  <2>2. outcome \in SUBSET Outcome
    BY DEF Outcome
  <2>3. e \in Eons /\ e < l
    BY <1>3
  <2>4. RowOK(rs[e], e, c, l, f)
    BY <1>3 DEF Good
  <2>5. ts \in Rows /\ ts[e] = (rs[e] \ Outcome) \cup outcome
    <3>1. ts \in Rows
      BY <2>2, <2>3, ChangeInRows
    <3>2. ts[e] = With(rs[e], Outcome, outcome)
      BY <2>2, <2>3, ChangeState
    <3> QED BY <3>1, <3>2 DEF With
  <2>6. RowOK(ts[e], e, c, l, f)
    <3>1. "processed" \in outcome /\ "cancelled" \notin outcome
      OBVIOUS
    <3>2. "complete" \in outcome <=> "complete" \in rs[e]
      OBVIOUS
    <3>3. "voided" \in outcome => "appended" \notin outcome
      OBVIOUS
    <3>4. \A m \in Outcome : m \in ts[e] <=> m \in outcome
      BY <2>5
    <3>5. \A m \in {"operator_signature", "fulfillment_signed",
                    "finalization_state", "finalization_signed"} :
            m \in ts[e] <=> m \in rs[e]
      BY <2>2, <2>5 DEF Outcome
    <3> HIDE DEF outcome, ts
    <3>6. "operator_signature" \in ts[e] <=> "operator_signature" \in rs[e]
      BY <3>5
    <3>7. "fulfillment_signed" \in ts[e] <=> "fulfillment_signed" \in rs[e]
      BY <3>5
    <3>8. "finalization_state" \in ts[e] <=> "finalization_state" \in rs[e]
      BY <3>5
    <3>9. "finalization_signed" \in ts[e] <=> "finalization_signed" \in rs[e]
      BY <3>5
    <3>10. /\ "processed" \in ts[e]
           /\ "complete" \in ts[e] <=> "complete" \in rs[e]
           /\ "voided" \in ts[e] => "appended" \notin ts[e]
      BY <3>1, <3>2, <3>3, <3>4 DEF Outcome
    <3> QED BY <2>3, <2>4, <3>6, <3>7, <3>8, <3>9, <3>10 DEF RowOK
  <2>7. \A x \in current : "complete" \in rs[x] => f = Size
    BY DEF Good, RowOK
  <2>8. Over(ts[e]) => EndsOrder(outcome)
    BY <2>5 DEF Over, Outcome, EndsOrder
  <2>9. "complete" \in ts[e] =>
          \A x \in current \ {e} : "complete" \notin rs[x]
    <3>1. "complete" \in ts[e] => "complete" \in rs[e]
      BY <2>5 DEF Outcome
    <3>2. \A x \in current \ {e} : x < e \/ e < x
      BY <2>3, EonsAreInts
    <3> QED BY <1>3, <3>1, <3>2 DEF Good, PairOK
  <2>10. Good(current, ts, c, l, f)
    <3> HIDE DEF ts, outcome
    <3>1. \A x \in Eons \ {e} :
            ts[x] = change_state(rs, current, e, outcome)[x]
      BY DEF ts
    <3>2. "processed" \notin rs[e] /\ e \in current
      BY <1>3 DEF is_open
    <3>3. ts \in Rows
      BY <2>5
    <3> QED BY <2>2, <2>6, <2>7, <2>8, <2>9, <3>1, <3>2, <3>3, Changed
  <2>11. "processed" \in ts[e]
    BY <2>5
  <2> HIDE DEF ts
  <2>12. \A x \in current : RowOK(ts[x], x, c2, l, f)
    BY <1>1, <2>10, <2>11 DEF Good
  <2> QED BY <2>1, <2>5, <2>10, <2>12 DEF Good
<1> QED BY <1>2, <1>3

(* PlaceSwap.                                                              *)
LEMMA Placed ==
  ASSUME NEW rs \in Rows, NEW l \in Int, NEW c, NEW f,
         Good({}, rs, c, l, f),
         NEW current \in SUBSET Eons, NEW e \in current, e + 1 \notin c
  PROVE  /\ [rs EXCEPT ![e] = sign_swap(NewRow)] \in Rows
         /\ Good(current, [rs EXCEPT ![e] = sign_swap(NewRow)], c, l, f)
<1> DEFINE ts == [rs EXCEPT ![e] = sign_swap(NewRow)]
<1>1. \A x \in Eons : rs[x] = {}
  BY DEF Good
<1>2. sign_swap(NewRow) = {"operator_signature", "appended"}
  BY DEF sign_swap, NewRow, is_signed_by_operator
<1>3. e \in Eons /\ ts[e] = {"operator_signature", "appended"}
  BY <1>2 DEF Rows
<1>4. \A x \in Eons \ {e} : ts[x] = {}
  BY <1>1 DEF Rows
<1>5. {"operator_signature", "appended"} \subseteq Flags
  BY DEF Flags
<1>6. ts \in Rows
  BY <1>2, <1>3, <1>5 DEF Rows
<1> HIDE DEF ts
<1>7. ASSUME NEW x \in current PROVE RowOK(ts[x], x, c, l, f)
  BY <1>3, <1>4 DEF RowOK
<1>8. ASSUME NEW x \in current, NEW y \in current PROVE PairOK(ts[x], ts[y])
  BY <1>3, <1>4 DEF PairOK, Over
<1>9. Good(current, ts, c, l, f)
  BY <1>3, <1>4, <1>7, <1>8 DEF Good
<1> QED BY <1>6, <1>9 DEF ts

(* sign_swap on the row of an eon without a later checkpoint.              *)
LEMMA Signed ==
  ASSUME NEW current \in SUBSET Eons, NEW rs \in Rows, NEW c, NEW l \in Int,
         NEW f, Good(current, rs, c, l, f),
         NEW e \in current, Live(rs[e]), e + 1 \notin c
  PROVE  \A ts : ts = [rs EXCEPT ![e] = sign_swap(@)] =>
                 ts \in Rows /\ Good(current, ts, c, l, f)
<1> DEFINE ts == [rs EXCEPT ![e] = sign_swap(@)]
<1>1. e \in Eons /\ ts[e] = sign_swap(rs[e])
  BY DEF Rows
<1>2. \A x \in Eons \ {e} : ts[x] = rs[x]
  BY DEF Rows
<1>3. rs[e] \subseteq Flags /\ {"operator_signature", "appended"} \subseteq Flags
  BY <1>1 DEF Rows, Flags
<1>4. ts[e] \subseteq Flags
  BY <1>1, <1>3 DEF sign_swap
<1>5. ts \in Rows
  BY <1>1, <1>3, <1>4 DEF Rows
<1> HIDE DEF ts
<1>6. RowOK(rs[e], e, c, l, f)
  BY DEF Good
<1>7. /\ "processed" \notin rs[e] /\ "complete" \notin rs[e]
      /\ "voided" \notin rs[e]
  BY DEF Live
<1>8. ts[e] = rs[e] \/ ts[e] = rs[e] \cup {"operator_signature", "appended"}
  BY <1>1 DEF sign_swap
<1>9. /\ "processed" \notin ts[e] /\ "complete" \notin ts[e]
      /\ "voided" \notin ts[e]
      /\ "cancellation_state" \in ts[e] => "cancellation_state" \in rs[e]
      /\ "finalization_state" \in ts[e] => "finalization_state" \in rs[e]
  BY <1>7, <1>8
<1>10. RowOK(ts[e], e, c, l, f)
  BY <1>6, <1>7, <1>9 DEF RowOK
<1>11. ~ Over(ts[e])
  BY <1>9 DEF Over
<1>12. \A x \in current : "complete" \in rs[x] => f = Size
  BY DEF Good, RowOK
<1>13. \A x \in current : x > e =>
         /\ RowOK(ts[x], x, c, l, f)
         /\ Void(rs[x]) => Void(ts[x])
         /\ Over(ts[e]) => Void(ts[x])
         /\ Over(ts[x]) => Over(rs[x])
         /\ "complete" \in ts[x] => "complete" \in rs[x]
  <2>1. \A x \in current : x > e => x \in Eons \ {e}
    BY EonsAreInts
  <2> QED BY <2>1, <1>2, <1>11 DEF Good
<1>14. \A x \in Eons : x \notin current \/ x < e => ts[x] = rs[x]
  BY <1>2, EonsAreInts
<1>15. Good(current, ts, c, l, f)
  BY <1>5, <1>7, <1>9, <1>10, <1>12, <1>13, <1>14, Ends
<1> QED BY <1>5, <1>15 DEF ts

(* close on a live row, to void it.                                        *)
LEMMA Voided ==
  ASSUME NEW current \in SUBSET Eons, NEW rs \in Rows, NEW c, NEW l \in Int,
         NEW f, Good(current, rs, c, l, f),
         NEW e \in current, Live(rs[e])
  PROVE  \A ts : ts = close(rs, current, e, {"voided"}) =>
                 ts \in Rows /\ Good(current, ts, c, l, f)
<1> DEFINE outcome == {"voided"} \cup {"processed"}
           ts == change_state(rs, current, e, outcome)
<1>1. close(rs, current, e, {"voided"}) = ts
  BY DEF close
<1>2. outcome \in SUBSET Outcome /\ e \in Eons
  BY DEF Outcome
<1>3. ts \in Rows /\ ts[e] = (rs[e] \ Outcome) \cup outcome
  <2>1. ts \in Rows
    BY <1>2, ChangeInRows
  <2>2. ts[e] = With(rs[e], Outcome, outcome)
    BY <1>2, ChangeState
  <2> QED BY <2>1, <2>2 DEF With
<1>4. /\ "processed" \in ts[e] /\ "voided" \in ts[e]
      /\ "appended" \notin ts[e] /\ "complete" \notin ts[e]
  BY <1>3 DEF Outcome
<1>5. "processed" \notin rs[e]
  BY DEF Live
<1>6. RowOK(ts[e], e, c, l, f) /\ ~ Over(ts[e])
  BY <1>4 DEF RowOK, Over
<1>7. \A x \in current : "complete" \in rs[x] => f = Size
  BY DEF Good, RowOK
<1>8. \A x \in Eons \ {e} : ts[x] = change_state(rs, current, e, outcome)[x]
  OBVIOUS
<1> HIDE DEF ts, outcome
<1>9. Good(current, ts, c, l, f)
  <2>1. ts \in Rows /\ outcome \in SUBSET Outcome
    BY <1>2, <1>3
  <2>2. Over(ts[e]) => EndsOrder(outcome)
    BY <1>6
  <2>3. "complete" \in ts[e] =>
          \A x \in current \ {e} : "complete" \notin rs[x]
    BY <1>4
  <2>4. RowOK(ts[e], e, c, l, f)
    BY <1>6
  <2> QED BY <1>5, <1>7, <1>8, <2>1, <2>2, <2>3, <2>4, Changed
<1> QED BY <1>1, <1>3, <1>9

(* A match that leaves something of the order.                             *)
LEMMA PartlyMatched ==
  ASSUME NEW current \in SUBSET Eons, NEW rs, NEW c, NEW l, NEW f, NEW f2,
         Good(current, rs, c, l, f), f # Size
  PROVE  Good(current, rs, c, l, f2)
<1>1. \A x \in current : RowOK(rs[x], x, c, l, f2)
  BY DEF Good, RowOK
<1> QED BY <1>1 DEF Good

(* The match that fills the order.                                         *)
LEMMA Matched ==
  ASSUME NEW current \in SUBSET Eons, NEW rs \in Rows, NEW c, NEW l \in Int,
         NEW f, Good(current, rs, c, l, f), f # Size,
         NEW e \in current, Live(rs[e]), "operator_signature" \in rs[e],
         e + 1 \notin c
  PROVE  \A ts :
           ts = [change_state(rs, current, e, {"complete", "appended"})
                   EXCEPT ![e] = sign_swap_fulfillment(@)] =>
             ts \in Rows /\ Good(current, ts, c, l, Size)
<1> DEFINE outcome == {"complete", "appended"}
           us == change_state(rs, current, e, outcome)
           ts == [us EXCEPT ![e] = sign_swap_fulfillment(@)]
<1>1. outcome \in SUBSET Outcome /\ e \in Eons
  BY DEF Outcome
<1>2. us \in Rows /\ us[e] = (rs[e] \ Outcome) \cup outcome
  <2>1. us \in Rows
    BY <1>1, ChangeInRows
  <2>2. us[e] = With(rs[e], Outcome, outcome)
    BY <1>1, ChangeState
  <2> QED BY <2>1, <2>2 DEF With
<1>3. /\ "processed" \notin us[e] /\ "voided" \notin us[e]
      /\ "cancelled" \notin us[e]
      /\ "complete" \in us[e] /\ "appended" \in us[e]
      /\ "operator_signature" \in us[e]
      /\ "cancellation_state" \in us[e] => "cancellation_state" \in rs[e]
      /\ "finalization_state" \in us[e] => "finalization_state" \in rs[e]
  BY <1>2 DEF Outcome
<1> HIDE DEF us
<1>4. sign_swap_fulfillment(us[e]) = us[e] \cup {"fulfillment_signed"}
  BY <1>3 DEF sign_swap_fulfillment, is_open, is_signed_by_operator
<1>5. ts[e] = us[e] \cup {"fulfillment_signed"}
  BY <1>1, <1>2, <1>4 DEF Rows
<1>6. \A x \in Eons \ {e} : ts[x] = us[x]
  BY <1>2 DEF Rows
<1>7. us[e] \subseteq Flags /\ "fulfillment_signed" \in Flags
  BY <1>1, <1>2 DEF Rows, Flags
<1>8. ts \in Rows
  <2>1. ts[e] \subseteq Flags
    BY <1>5, <1>7
  <2> QED BY <1>2, <1>4, <1>5, <2>1 DEF Rows
<1> HIDE DEF ts
<1>9. RowOK(rs[e], e, c, l, f) /\ "processed" \notin rs[e]
  BY DEF Good, Live
<1>10. \A x \in current : "complete" \notin rs[x]
  BY DEF Good, RowOK
<1>11. RowOK(ts[e], e, c, l, Size)
  BY <1>3, <1>5, <1>9 DEF RowOK
<1>12. EndsOrder(outcome)
  BY DEF EndsOrder
<1>13. \A x \in Eons \ {e} : ts[x] = change_state(rs, current, e, outcome)[x]
  BY <1>6 DEF us
<1> HIDE DEF outcome
<1>14. Good(current, ts, c, l, Size)
  BY <1>1, <1>8, <1>9, <1>10, <1>11, <1>12, <1>13, Changed
<1> QED BY <1>8, <1>14 DEF ts, us, outcome

(* First chooses the least eon.                                            *)
LEMMA Least ==
  ASSUME NEW S \in SUBSET Nat, S # {}
  PROVE  \E x \in S : \A y \in S : x <= y
<1> DEFINE R == {ss \in Nat \X Nat : ss[1] < ss[2]}
<1>1. IsWellFoundedOn(R, Nat)
  BY NatLessThanWellFounded DEF OpToRel
<1>2. \A x, y \in Nat : << y, x >> \notin R => x <= y
  OBVIOUS
<1> HIDE DEF R
<1>3. \E x \in S : \A y \in S : << y, x >> \notin R
  BY <1>1, WFMin
<1> QED BY <1>2, <1>3

LEMMA FirstIsLeast ==
  ASSUME NEW S \in SUBSET Eons, S # {}
  PROVE  First(S) \in S /\ \A x \in S : x # First(S) => First(S) < x
<1>1. S \subseteq Nat
  BY EonsAreInts
<1>2. \E x \in S : \A y \in S : x <= y
  BY <1>1, Least
<1>3. First(S) \in S /\ \A y \in S : First(S) <= y
  BY <1>2 DEF First
<1>4. \A x \in S : x \in Nat
  BY <1>1
<1>5. \A x \in S : x # First(S) => First(S) < x
  <2>1. ASSUME NEW x \in S, x # First(S) PROVE First(S) < x
    <3>1. x \in Nat /\ First(S) \in Nat /\ First(S) <= x
      BY <1>3, <1>4
    <3> QED BY <2>1, <3>1
  <2> QED BY <2>1
<1> QED BY <1>3, <1>5

(* A handler, which acts for the latest eon or the one before it, goes by  *)
(* the first of the rows found.  Rows after it do not count yet: none was  *)
(* retired.                                                                *)
FirstRow(k, S, current, e) ==
  /\ k \in current /\ k \in S /\ k >= e
  /\ \A x \in S : x # k => x > k /\ x > e
  /\ \A x \in current \ S : x < k /\ x # k
  /\ \A x \in current : x > k => x \in S

LEMMA LaterRows ==
  ASSUME NEW current \in SUBSET Eons, NEW e \in Eons,
         NEW S \in SUBSET current, \A x \in current : x \in S <=> x >= e,
         S # {}
  PROVE  FirstRow(First(S), S, current, e)
<1>1. First(S) \in S /\ \A x \in S : x # First(S) => First(S) < x
  <2>1. S \in SUBSET Eons
    OBVIOUS
  <2> QED BY <2>1, FirstIsLeast
<1>2. e \in Int /\ \A x \in current : x \in Int
  BY EonsAreInts
<1>3. First(S) \in current /\ First(S) \in Int /\ First(S) >= e
  BY <1>1, <1>2
<1>4. \A x \in S : x # First(S) => x > First(S) /\ x > e
  <2>1. ASSUME NEW x \in S, x # First(S) PROVE x > First(S) /\ x > e
    <3>1. First(S) < x /\ x \in Int
      BY <1>1, <1>2, <2>1
    <3> QED BY <1>2, <1>3, <3>1
  <2> QED BY <2>1
<1>5. ASSUME NEW x \in current \ S PROVE x < First(S) /\ x # First(S)
  BY <1>2, <1>3
<1>6. ASSUME NEW x \in current, x > First(S) PROVE x \in S
  BY <1>2, <1>3, <1>6
<1> QED BY <1>1, <1>3, <1>4, <1>5, <1>6 DEF FirstRow

(* FreezeSwap.                                                             *)
LEMMA Frozen ==
  ASSUME NEW current \in SUBSET Eons, NEW rs \in Rows, NEW c, NEW l \in Int,
         NEW f, Good(current, rs, c, l, f),
         NEW e \in Eons, e = l - 1 \/ e = l,
         NEW S \in SUBSET current, \A x \in current : x \in S <=> x >= e,
         S # {},
         "complete" \notin rs[First(S)], "processed" \notin rs[First(S)],
         NEW ts, ts = [x \in Eons |->
                         IF x \in S
                         THEN rs[x] \cup {"cancelled", "freezing_signature"}
                         ELSE rs[x]]
  PROVE  ts \in Rows /\ Good(current, ts, c, l, f)
<1> DEFINE k == First(S)
<1>0. FirstRow(k, S, current, e)
  BY LaterRows
<1>1. /\ k \in current /\ k >= e /\ k \in S
      /\ \A x \in S : x # k => x > k /\ x > e
      /\ \A x \in current \ S : x < k /\ x # k
      /\ \A x \in current : x > k => x \in S
  BY <1>0 DEF FirstRow
<1>2. \A x \in Eons : rs[x] \subseteq Flags
  BY DEF Rows
<1>3. {"cancelled", "freezing_signature"} \subseteq Flags
  BY DEF Flags
<1>4. ts \in Rows
  BY <1>2, <1>3 DEF Rows
<1> HIDE DEF k
<1>5. ASSUME NEW x \in S
      PROVE  /\ RowOK(ts[x], x, c, l, f)
             /\ Void(rs[x]) => Void(ts[x])
             /\ "complete" \in ts[x] => "complete" \in rs[x]
  <2>1. RowOK(rs[x], x, c, l, f)
    BY DEF Good
  <2>2. ts[x] = rs[x] \cup {"cancelled", "freezing_signature"}
    BY EonsAreInts
  <2> QED BY <2>1, <2>2 DEF RowOK, Void
<1>6. ASSUME NEW x \in S, x # k PROVE Over(ts[x]) => Over(rs[x])
  <2>1. RowOK(rs[x], x, c, l, f)
    BY DEF Good
  <2>2. ts[x] = rs[x] \cup {"cancelled", "freezing_signature"}
    BY EonsAreInts
  <2>3. ~ (x < l)
    BY <1>1, <1>6, EonsAreInts
  <2>4. "processed" \in rs[x] /\ "appended" \in rs[x] => Over(rs[x])
    BY <2>1, <2>3 DEF RowOK, Over
  <2> QED BY <2>2, <2>4 DEF Over
<1>7. ts[k] = rs[k] \cup {"cancelled", "freezing_signature"}
  BY <1>1, EonsAreInts
<1>8. ~ Over(ts[k]) /\ "complete" \notin ts[k] /\ "processed" \notin rs[k]
  BY <1>7 DEF Over, k
<1>9. \A x \in Eons : x \notin current \/ x < k => ts[x] = rs[x]
  <2>1. \A x \in current : x < k => x \notin S
    BY <1>1, EonsAreInts
  <2> QED BY <2>1
<1>10. \A x \in current : "complete" \in rs[x] => f = Size
  BY DEF Good, RowOK
<1>11. ASSUME NEW x \in current, x > k
       PROVE  /\ RowOK(ts[x], x, c, l, f)
              /\ Void(rs[x]) => Void(ts[x])
              /\ Over(ts[k]) => Void(ts[x])
              /\ Over(ts[x]) => Over(rs[x])
              /\ "complete" \in ts[x] => "complete" \in rs[x]
  <2>1. x \in S /\ x # k
    BY <1>1, <1>11, EonsAreInts
  <2> QED BY <1>5, <1>6, <1>8, <2>1
<1>12. RowOK(ts[k], k, c, l, f)
  BY <1>1, <1>5
<1>13. Good(current, ts, c, l, f)
  BY <1>1, <1>4, <1>8, <1>9, <1>10, <1>11, <1>12, Ends
<1> QED BY <1>4, <1>13

(* The owner ends the order: a state is attached to the rows found, the    *)
(* first is signed and closed, the others are voided.                      *)
LEMMA Ended ==
  ASSUME NEW current \in SUBSET Eons, NEW rs \in Rows, NEW c, NEW l \in Int,
         NEW f, Good(current, rs, c, l, f),
         NEW e \in Eons, e = l - 1 \/ e = l,
         NEW S \in SUBSET current, \A x \in current : x \in S <=> x >= e,
         S # {},
         "processed" \notin rs[First(S)],
         NEW state \in {"cancellation_state", "finalization_state"},
         state = "finalization_state" => "complete" \in rs[First(S)],
         NEW outcome \in SUBSET Outcome,
         EndsOrder(outcome),
         NEW signed \in Rows,
         \A x \in Eons \ S : signed[x] = rs[x],
         \A x \in S \ {First(S)} :
           signed[x] = (rs[x] \ {"appended"}) \cup
                         {state, "voided", "processed"},
         NEW ts, ts = close(signed, current, First(S), outcome),
         RowOK(ts[First(S)], First(S), c, l, f),
         "complete" \in ts[First(S)] => "complete" \in rs[First(S)]
  PROVE  ts \in Rows /\ Good(current, ts, c, l, f)
<1> DEFINE k == First(S)
           out == outcome \cup {"processed"}
<1>0. FirstRow(k, S, current, e)
  BY LaterRows
<1>1. /\ k \in current /\ k \in S /\ k \in Eons
      /\ \A x \in S : x # k => x > k /\ x > e
      /\ \A x \in current \ S : x < k /\ x # k
      /\ \A x \in current : x > k => x \in S
  BY <1>0 DEF FirstRow
<1>2. out \in SUBSET Outcome
  BY DEF Outcome
<1>3. ts = change_state(signed, current, k, out)
  BY DEF close
<1> HIDE DEF k, out
<1>4. /\ ts \in Rows
      /\ \A x \in Eons :
           /\ x < k => ts[x] = signed[x]
           /\ x \notin current /\ x # k => ts[x] = signed[x]
           /\ x > k /\ x \in current /\ "voided" \in signed[x] =>
                ts[x] = signed[x]
  <2>1. ts \in Rows
    BY <1>1, <1>2, <1>3, ChangeInRows
  <2>2. ASSUME NEW x \in Eons
        PROVE  /\ x < k => ts[x] = signed[x]
               /\ x \notin current /\ x # k => ts[x] = signed[x]
               /\ x > k /\ x \in current /\ "voided" \in signed[x] =>
                    ts[x] = signed[x]
    <3>1. x < k => x # k
      BY <1>1, EonsAreInts
    <3> QED BY <1>1, <1>3, <3>1, ChangeState
  <2> QED BY <2>1, <2>2
<1>5. ASSUME NEW x \in current, x > k
      PROVE  ts[x] = (rs[x] \ {"appended"}) \cup {state, "voided", "processed"}
  <2>1. x \in S /\ x # k
    BY <1>1, <1>5, EonsAreInts
  <2>2. signed[x] = (rs[x] \ {"appended"}) \cup
                      {state, "voided", "processed"}
    BY <2>1 DEF k
  <2> QED BY <1>4, <1>5, <2>2
<1>6. \A x \in Eons : x \notin current \/ x < k => ts[x] = rs[x]
  <2>1. ASSUME NEW x \in Eons, x \notin current PROVE ts[x] = rs[x]
    BY <1>1, <1>4, <2>1
  <2>2. ASSUME NEW x \in current, x < k PROVE ts[x] = rs[x]
    <3>1. x \notin S
      BY <1>1, <2>2, EonsAreInts
    <3> QED BY <1>4, <2>2, <3>1
  <2> QED BY <2>1, <2>2
<1>7. \A x \in current : "complete" \in rs[x] => f = Size
  BY DEF Good, RowOK
<1>8. "complete" \in rs[k] => \A x \in current \ {k} : "complete" \notin rs[x]
  <2>1. \A x \in current \ {k} : x < k \/ k < x
    BY <1>1, EonsAreInts
  <2> QED BY <1>1, <2>1 DEF Good, PairOK
<1>9. ASSUME NEW x \in current, x > k
      PROVE  /\ RowOK(ts[x], x, c, l, f)
             /\ Void(rs[x]) => Void(ts[x])
             /\ Over(ts[k]) => Void(ts[x])
             /\ Over(ts[x]) => Over(rs[x])
             /\ "complete" \in ts[x] => "complete" \in rs[x]
  <2>1. ts[x] = (rs[x] \ {"appended"}) \cup {state, "voided", "processed"}
    BY <1>5, <1>9
  <2>2. /\ "voided" \in ts[x] /\ "processed" \in ts[x]
        /\ "appended" \notin ts[x]
        /\ "complete" \in ts[x] <=> "complete" \in rs[x]
    BY <2>1
  <2>3. RowOK(rs[x], x, c, l, f)
    BY DEF Good
  <2>4. RowOK(ts[x], x, c, l, f)
    <3>1. "complete" \in rs[x] => state = "cancellation_state"
      BY <1>1, <1>8, <1>9, EonsAreInts DEF k
    <3>2. \A m \in {"operator_signature", "fulfillment_signed",
                    "finalization_signed"} : m \in ts[x] <=> m \in rs[x]
      BY <2>1
    <3>3. state = "cancellation_state" =>
            ("finalization_state" \in ts[x] <=> "finalization_state" \in rs[x])
      BY <2>1
    <3>4. /\ "operator_signature" \in ts[x] <=> "operator_signature" \in rs[x]
          /\ "fulfillment_signed" \in ts[x] <=> "fulfillment_signed" \in rs[x]
          /\ "finalization_signed" \in ts[x] <=> "finalization_signed" \in rs[x]
      BY <3>2
    <3> QED BY <2>2, <2>3, <3>1, <3>3, <3>4 DEF RowOK
  <2>5. Void(ts[x]) /\ (Over(ts[x]) => Over(rs[x]))
    BY <2>2 DEF Void, Over
  <2> QED BY <2>2, <2>4, <2>5
<1>10. Good(current, ts, c, l, f)
  BY <1>1, <1>4, <1>6, <1>7, <1>8, <1>9, Ends DEF k
<1> QED BY <1>4, <1>10

-----------------------------------------------------------------------------
(* The actions                                                             *)

(* What is known of the order of an action before a step.                  *)
LEMMA Before ==
  ASSUME RowsInv, NEW o \in Orders
  PROVE  /\ TypeOK
         /\ latest_eon \in Int /\ latest_eon \in Eons
         /\ commitments \in SUBSET (1 .. latest_eon)
         /\ rows[o] \in SUBSET Eons
         /\ row[o] \in Rows
         /\ filled[o] \in 0 .. Size
         /\ Good(rows[o], row[o], commitments, latest_eon, filled[o])
<1>1. TypeOK
  BY DEF RowsInv
<1>2. latest_eon \in Eons /\ rows[o] \in SUBSET Eons /\ row[o] \in Rows
      /\ filled[o] \in 0 .. Size
  BY <1>1 DEF TypeOK, Rows
<1> QED BY <1>1, <1>2, Gather, EonsAreInts

(* A step keeps RowsInv if each order is in order after it.                *)
LEMMA EveryOrder ==
  ASSUME TypeOK', commitments' \subseteq 1 .. latest_eon',
         \A o \in Orders :
           Good(rows'[o], row'[o], commitments', latest_eon', filled'[o])
  PROVE  RowsInv'
<1>1. (TypeOK =>
         (RowsInv <=>
            /\ commitments \subseteq 1 .. latest_eon
            /\ \A o \in Orders :
                 Good(rows[o], row[o], commitments, latest_eon, filled[o])))'
  BY Gather, PTL
<1> QED BY <1>1

(* A step that only concerns the rows of one order.                        *)
LEMMA OneOrder ==
  ASSUME RowsInv, NEW o \in Orders,
         UNCHANGED << latest_eon, commitments, deposits, stale_eon >>,
         NEW rs2 \in SUBSET Eons, rows' = [rows EXCEPT ![o] = rs2],
         NEW r2 \in Rows, row' = [row EXCEPT ![o] = r2],
         NEW f2 \in 0 .. Size, filled' = [filled EXCEPT ![o] = f2],
         Good(rs2, r2, commitments, latest_eon, f2)
  PROVE  RowsInv'
<1>1. TypeOK /\ (\A p \in Orders :
        Good(rows[p], row[p], commitments, latest_eon, filled[p]))
      /\ commitments \subseteq 1 .. latest_eon
  BY Before, Gather DEF RowsInv
<1>2. TypeOK'
  BY <1>1 DEF TypeOK, Rows
<1>3. ASSUME NEW p \in Orders
      PROVE  Good(rows[p], row[p], commitments, latest_eon, filled[p])'
  <2>1. CASE p = o
    <3>1. rows'[p] = rs2 /\ row'[p] = r2 /\ filled'[p] = f2
      BY <1>1, <2>1 DEF TypeOK
    <3> QED BY <3>1 DEF Good, RowOK
  <2>2. CASE p # o
    <3>1. rows'[p] = rows[p] /\ row'[p] = row[p] /\ filled'[p] = filled[p]
      BY <1>1, <2>2 DEF TypeOK
    <3>2. Good(rows[p], row[p], commitments, latest_eon, filled[p])
      BY <1>1
    <3> QED BY <3>1, <3>2 DEF Good, RowOK
  <2> QED BY <2>1, <2>2
<1>4. commitments' \subseteq 1 .. latest_eon'
  BY <1>1
<1> QED BY <1>2, <1>3, <1>4, EveryOrder

LEMMA EonsRead ==
  ASSUME RowsInv
  PROVE  /\ \A e \in CurrentEons :
              e \in Eons /\ (e = latest_eon - 1 \/ e = latest_eon)
         /\ \A e \in OperatorEons : e \in Eons /\ e + 1 \notin commitments
<1>1. /\ latest_eon \in Int /\ latest_eon \in Eons
      /\ commitments \subseteq 1 .. latest_eon
  BY EonsAreInts DEF RowsInv, TypeOK
<1>2. \A e \in CurrentEons :
        e \in Eons /\ (e = latest_eon - 1 \/ e = latest_eon)
  BY <1>1 DEF CurrentEons
<1>3. latest_eon + 1 \notin commitments
  BY <1>1
<1>4. ASSUME NEW e \in OperatorEons
      PROVE  e \in Eons /\ e + 1 \notin commitments
  <2>1. CASE latest_eon \in commitments
    BY <1>1, <1>3, <1>4, <2>1 DEF OperatorEons
  <2>2. CASE latest_eon \notin commitments
    <3>1. e \in CurrentEons
      BY <1>4, <2>2 DEF OperatorEons
    <3>2. e + 1 = latest_eon \/ e + 1 = latest_eon + 1
      BY <1>1, <1>2, <3>1
    <3> QED BY <1>2, <1>3, <2>2, <3>1, <3>2
  <2> QED BY <2>1, <2>2
<1> QED BY <1>2, <1>4

LEMMA NextEonStep == ASSUME RowsInv, NextEon PROVE RowsInv'
<1>1. TypeOK /\ latest_eon \in Int /\ latest_eon \in Eons
  BY EonsAreInts DEF RowsInv, TypeOK
<1>2. latest_eon' \in Eons
  BY <1>1, SwapLifecycleAssumption DEF NextEon, Eons
<1>3. TypeOK'
  BY <1>1, <1>2 DEF TypeOK, NextEon
<1>4. commitments' \subseteq 1 .. latest_eon'
  BY <1>1 DEF NextEon, RowsInv
<1>5. ASSUME NEW o \in Orders
      PROVE  Good(rows'[o], row'[o], commitments', latest_eon', filled'[o])
  <2>1. /\ Good(rows[o], row[o], commitments, latest_eon, filled[o])
        /\ rows[o] \subseteq Eons
    BY <1>5, Before
  <2>2. \A e \in rows[o] : e < latest_eon => e < latest_eon + 1
    BY <1>1, <2>1, EonsAreInts
  <2>3. \A e \in rows[o] :
          RowOK(row[o][e], e, commitments, latest_eon + 1, filled[o])
    BY <2>1, <2>2 DEF Good, RowOK
  <2>4. Good(rows[o], row[o], commitments, latest_eon + 1, filled[o])
    BY <2>1, <2>3 DEF Good
  <2> QED BY <2>4 DEF NextEon
<1> QED BY <1>3, <1>4, <1>5, EveryOrder

LEMMA CreateCheckpointStep == ASSUME RowsInv, CreateCheckpoint PROVE RowsInv'
<1>1. TypeOK /\ latest_eon \in Int /\ latest_eon \in Eons
      /\ commitments \subseteq 1 .. latest_eon
  BY EonsAreInts DEF RowsInv, TypeOK
<1>2. ASSUME NEW o \in Orders
      PROVE  /\ row'[o] \in Rows
             /\ Good(rows'[o], row'[o], commitments', latest_eon', filled'[o])
  <2>1. row'[o] = retire_swap(row[o], rows[o], latest_eon - 1)
    BY <1>2 DEF CreateCheckpoint
  <2>2. /\ rows[o] \in SUBSET Eons
        /\ row[o] \in Rows
        /\ Good(rows[o], row[o], commitments, latest_eon, filled[o])
    BY <1>2, Before
  <2>3. /\ latest_eon - 1 \in Int /\ (latest_eon - 1) + 1 = latest_eon
        /\ commitments' = commitments \cup {latest_eon}
    BY <1>1 DEF CreateCheckpoint
  <2>4. /\ row'[o] \in Rows
        /\ Good(rows[o], row'[o], commitments', latest_eon, filled[o])
    BY <1>1, <2>1, <2>2, <2>3, Retired
  <2> QED BY <2>4 DEF CreateCheckpoint
<1>3. row' \in [Orders -> Rows]
  BY <1>2 DEF CreateCheckpoint
<1>4. TypeOK'
  BY <1>1, <1>3 DEF TypeOK, CreateCheckpoint, Rows
<1>5. commitments' \subseteq 1 .. latest_eon'
  <2>1. commitments' = commitments \cup {latest_eon} /\ latest_eon' = latest_eon
    BY DEF CreateCheckpoint
  <2>2. latest_eon >= 1
    BY <1>1, EonsAreInts
  <2> QED BY <1>1, <2>1, <2>2
<1> QED BY <1>2, <1>4, <1>5, EveryOrder

LEMMA ReceiveDepositStep ==
  ASSUME RowsInv, NEW o \in Orders, ReceiveDeposit(o)
  PROVE  RowsInv'
<1>1. TypeOK /\ latest_eon \in Eons
  BY DEF RowsInv, TypeOK
<1>2. TypeOK'
  BY <1>1 DEF TypeOK, ReceiveDeposit
<1>3. ASSUME NEW p \in Orders
      PROVE  Good(rows'[p], row'[p], commitments', latest_eon', filled'[p])
  BY <1>3, Before DEF ReceiveDeposit
<1>4. commitments' \subseteq 1 .. latest_eon'
  BY DEF ReceiveDeposit, RowsInv
<1> QED BY <1>2, <1>3, <1>4, EveryOrder

LEMMA PlaceSwapStep ==
  ASSUME RowsInv, NEW o \in Orders, PlaceSwap(o)
  PROVE  RowsInv'
<1>1. PICK e \in CurrentEons :
        /\ e <= MaxEon
        /\ e + 1 \notin commitments
        /\ rows' = [rows EXCEPT ![o] = e .. e + ValidEons - 1]
        /\ row' = [row EXCEPT ![o][e] = sign_swap(NewRow)]
  BY DEF PlaceSwap
<1>2. e \in Eons /\ e \in Int /\ e >= 1
  BY <1>1, EonsRead, EonsAreInts
<1> DEFINE cur == e .. e + ValidEons - 1
           r2 == [row[o] EXCEPT ![e] = sign_swap(NewRow)]
<1>3. cur \in SUBSET Eons /\ e \in cur
  BY <1>1, <1>2, SwapLifecycleAssumption DEF Eons
<1>4. Good({}, row[o], commitments, latest_eon, filled[o])
  BY Before DEF PlaceSwap
<1>5. r2 \in Rows /\ Good(cur, r2, commitments, latest_eon, filled[o])
  BY <1>1, <1>3, <1>4, Before, Placed
<1>6. row' = [row EXCEPT ![o] = r2]
  BY <1>1
<1>7. filled' = [filled EXCEPT ![o] = filled[o]]
  BY Before DEF PlaceSwap, TypeOK
<1> HIDE DEF cur, r2
<1>8. rows' = [rows EXCEPT ![o] = cur]
  BY <1>1 DEF cur
<1> QED BY <1>3, <1>5, <1>6, <1>7, <1>8, Before, OneOrder DEF PlaceSwap

(* A step that changes the rows of an order and nothing else.              *)
LEMMA OnlyRows ==
  ASSUME RowsInv, NEW o \in Orders,
         UNCHANGED << latest_eon, commitments, rows, filled, deposits,
                      stale_eon >>,
         NEW r2 \in Rows, row' = [row EXCEPT ![o] = r2],
         Good(rows[o], r2, commitments, latest_eon, filled[o])
  PROVE  RowsInv'
<1>1. TypeOK
  BY DEF RowsInv
<1>2. /\ rows' = [rows EXCEPT ![o] = rows[o]]
      /\ filled' = [filled EXCEPT ![o] = filled[o]]
  BY <1>1 DEF TypeOK
<1> QED BY <1>2, Before, OneOrder

LEMMA FreezeSwapStep ==
  ASSUME RowsInv, NEW o \in Orders, FreezeSwap(o)
  PROVE  RowsInv'
<1>1. PICK e \in CurrentEons :
        /\ SwapSet(o, e) # {}
        /\ row[o][First(SwapSet(o, e))]
             \cap {"complete", "cancelled", "voided", "processed"} = {}
        /\ row' = [row EXCEPT ![o] = [x \in Eons |->
             IF x \in ToFreeze(o, e)
             THEN @[x] \cup {"cancelled", "freezing_signature"} ELSE @[x]]]
  BY DEF FreezeSwap, Freezable
<1> DEFINE S == {x \in rows[o] : x >= e}
           r2 == [x \in Eons |-> IF x \in S
                    THEN row[o][x] \cup {"cancelled", "freezing_signature"}
                    ELSE row[o][x]]
<1>2. SwapSet(o, e) = S /\ ToFreeze(o, e) = S
  BY DEF SwapSet, ToFreeze
<1>3. "complete" \notin row[o][First(S)] /\ "processed" \notin row[o][First(S)]
  BY <1>1, <1>2
<1>4. e \in Eons /\ (e = latest_eon - 1 \/ e = latest_eon)
  BY EonsRead
<1>5. r2 \in Rows /\ Good(rows[o], r2, commitments, latest_eon, filled[o])
  <2>1. /\ S \in SUBSET rows[o] /\ S # {}
        /\ \A x \in rows[o] : x \in S <=> x >= e
    BY <1>1, <1>2
  <2> HIDE DEF S
  <2>2. /\ rows[o] \in SUBSET Eons /\ row[o] \in Rows /\ latest_eon \in Int
        /\ Good(rows[o], row[o], commitments, latest_eon, filled[o])
    BY Before
  <2> QED BY <1>3, <1>4, <2>1, <2>2, Frozen
<1>6. row' = [row EXCEPT ![o] = r2]
  BY <1>1, <1>2
<1> HIDE DEF r2
<1> QED BY <1>5, <1>6, OnlyRows DEF FreezeSwap, Freezable

LEMMA CancelSwapStep ==
  ASSUME RowsInv, NEW o \in Orders, CancelSwap(o)
  PROVE  RowsInv'
<1> DEFINE state == "cancellation_state"
           outcome == {"cancelled", "appended"}
<1>1. PICK e \in CurrentEons :
        /\ SwapSet(o, e) # {}
        /\ LET first == First(SwapSet(o, e))
               attached == Attached(o, e, state)
               signed == [attached EXCEPT ![first] = sign_swap_cancellation(@)]
           IN /\ {"cancelled", "freezing_signature"} \subseteq row[o][first]
              /\ row[o][first] \cap {"processed", "cancellation_state"} = {}
              /\ row' = [row EXCEPT ![o] =
                   close(signed, rows[o], first, outcome)]
  BY DEF CancelSwap
<1> DEFINE S == {x \in rows[o] : x >= e}
           k == First(S)
           attached == Attached(o, e, state)
           signed == [attached EXCEPT ![k] = sign_swap_cancellation(@)]
           ts == close(signed, rows[o], k, outcome)
<1>2. SwapSet(o, e) = S
  BY DEF SwapSet
<1>3. "processed" \notin row[o][k] /\ row' = [row EXCEPT ![o] = ts]
  BY <1>1, <1>2
<1>4. e \in Eons /\ (e = latest_eon - 1 \/ e = latest_eon)
  BY EonsRead
<1>5. S \subseteq rows[o] /\ rows[o] \subseteq Eons /\ S # {} /\ k \in S
  BY <1>1, <1>2, Before, FirstIsLeast
<1>6. \A x \in Eons : row[o][x] \subseteq Flags
  BY Before DEF Rows
<1>7. attached = [x \in Eons |->
        IF x \notin S THEN row[o][x]
        ELSE IF x = k THEN row[o][x] \cup {state}
        ELSE (row[o][x] \ {"appended"}) \cup {state, "voided", "processed"}]
  BY <1>2 DEF Attached, With
<1>8. signed[k] = row[o][k] \cup {state}
      \/ signed[k] = row[o][k] \cup {state} \cup {"cancellation_signed"}
  BY <1>5, <1>7 DEF sign_swap_cancellation
<1>9. {state, "voided", "processed", "cancellation_signed"} \subseteq Flags
  BY DEF Flags
<1>10. signed \in Rows
  <2> HIDE DEF k, S
  <2>1. \A x \in Eons \ {k} : signed[x] = attached[x] /\ attached[x] \subseteq Flags
    <3> HIDE DEF state
    <3> QED BY <1>6, <1>7, <1>9
  <2>2. signed[k] \subseteq Flags
    BY <1>5, <1>6, <1>8, <1>9
  <2>3. DOMAIN signed = Eons /\ signed = [x \in Eons |-> signed[x]]
    BY <1>7
  <2> QED BY <2>1, <2>2, <2>3 DEF Rows
<1>11. /\ \A x \in Eons \ S : signed[x] = row[o][x]
       /\ \A x \in S \ {k} : signed[x] =
            (row[o][x] \ {"appended"}) \cup {state, "voided", "processed"}
  BY <1>5, <1>7
<1>12. outcome \cup {"processed"} \in SUBSET Outcome
  BY DEF Outcome
<1> HIDE DEF signed, attached
<1>13. ts[k] = With(signed[k], Outcome, outcome \cup {"processed"})
  BY <1>5, <1>10, ChangeState DEF close
<1>14. /\ "complete" \notin ts[k] /\ "voided" \notin ts[k]
       /\ "processed" \in ts[k] /\ "cancelled" \in ts[k]
  BY <1>13 DEF Outcome, With
<1>15. RowOK(ts[k], k, commitments, latest_eon, filled[o])
  BY <1>14 DEF RowOK
<1>16. ts \in Rows /\ Good(rows[o], ts, commitments, latest_eon, filled[o])
  <2>1. /\ outcome \in SUBSET Outcome
        /\ EndsOrder(outcome)
        /\ state \in {"cancellation_state", "finalization_state"}
        /\ state # "finalization_state"
    BY <1>12 DEF EndsOrder
  <2>2. S \in SUBSET rows[o] /\ \A x \in rows[o] : x \in S <=> x >= e
    OBVIOUS
  <2> HIDE DEF ts, S, outcome, state
  <2>3. ts = close(signed, rows[o], First(S), outcome)
    BY DEF ts
  <2>4. "complete" \notin ts[First(S)] /\ S # {}
    BY <1>5, <1>14
  <2>5. /\ rows[o] \in SUBSET Eons /\ row[o] \in Rows /\ latest_eon \in Int
        /\ Good(rows[o], row[o], commitments, latest_eon, filled[o])
    BY Before
  <2> QED BY ZenonT(60), <1>3, <1>4, <1>10, <1>11, <1>15, <2>1, <2>2, <2>3, <2>4, <2>5,
             Ended
<1> HIDE DEF ts
<1> QED BY <1>3, <1>16, OnlyRows DEF CancelSwap

LEMMA FinalizeSwapStep ==
  ASSUME RowsInv, NEW o \in Orders, FinalizeSwap(o)
  PROVE  RowsInv'
<1> DEFINE state == "finalization_state"
           outcome == {"complete", "appended"}
<1>1. PICK e \in CurrentEons :
        /\ SwapSet(o, e) # {}
        /\ LET first == First(SwapSet(o, e))
               attached == Attached(o, e, state)
               signed == [attached EXCEPT ![first] = sign_swap_finalization(@)]
           IN /\ "complete" \in row[o][first]
              /\ row[o][first] \cap {"cancelled", "voided", "processed",
                                     "finalization_state"} = {}
              /\ row' = [row EXCEPT ![o] =
                   close(signed, rows[o], first, outcome)]
  BY DEF FinalizeSwap
<1> DEFINE S == {x \in rows[o] : x >= e}
           k == First(S)
           attached == Attached(o, e, state)
           signed == [attached EXCEPT ![k] = sign_swap_finalization(@)]
           ts == close(signed, rows[o], k, outcome)
<1>2. SwapSet(o, e) = S
  BY DEF SwapSet
<1>3. /\ "processed" \notin row[o][k] /\ "complete" \in row[o][k]
      /\ row' = [row EXCEPT ![o] = ts]
  BY <1>1, <1>2
<1>4. e \in Eons /\ (e = latest_eon - 1 \/ e = latest_eon)
  BY EonsRead
<1>5. S \subseteq rows[o] /\ rows[o] \subseteq Eons /\ S # {} /\ k \in S
  BY <1>1, <1>2, Before, FirstIsLeast
<1>6. \A x \in Eons : row[o][x] \subseteq Flags
  BY Before DEF Rows
<1>7. attached = [x \in Eons |->
        IF x \notin S THEN row[o][x]
        ELSE IF x = k THEN row[o][x] \cup {state}
        ELSE (row[o][x] \ {"appended"}) \cup {state, "voided", "processed"}]
  BY <1>2 DEF Attached, With
<1>8. RowOK(row[o][k], k, commitments, latest_eon, filled[o])
  BY <1>5, Before DEF Good
<1>9. signed[k] = row[o][k] \cup {state, "finalization_signed"}
  <2>1. attached[k] = row[o][k] \cup {state}
    BY <1>5, <1>7
  <2>2. /\ "appended" \in row[o][k] /\ "operator_signature" \in row[o][k]
    BY <1>3, <1>8 DEF RowOK
  <2>3. sign_swap_finalization(attached[k])
          = attached[k] \cup {"finalization_signed"}
    BY <1>3, <2>1, <2>2 DEF sign_swap_finalization, is_open,
       is_signed_by_operator
  <2> QED BY <1>5, <1>7, <2>1, <2>3
<1>10. {state, "voided", "processed", "finalization_signed"} \subseteq Flags
  BY DEF Flags
<1>11. signed \in Rows
  <2> HIDE DEF k, S
  <2>1. \A x \in Eons \ {k} : signed[x] = attached[x] /\ attached[x] \subseteq Flags
    <3> HIDE DEF state
    <3> QED BY <1>6, <1>7, <1>10
  <2>2. signed[k] \subseteq Flags
    BY <1>5, <1>6, <1>9, <1>10
  <2>3. DOMAIN signed = Eons /\ signed = [x \in Eons |-> signed[x]]
    BY <1>7
  <2> QED BY <2>1, <2>2, <2>3 DEF Rows
<1>12. /\ \A x \in Eons \ S : signed[x] = row[o][x]
       /\ \A x \in S \ {k} : signed[x] =
            (row[o][x] \ {"appended"}) \cup {state, "voided", "processed"}
  BY <1>5, <1>7
<1>13. outcome \cup {"processed"} \in SUBSET Outcome
  BY DEF Outcome
<1> HIDE DEF signed, attached
<1>14. ts[k] = With(signed[k], Outcome, outcome \cup {"processed"})
  BY <1>5, <1>11, ChangeState DEF close
<1>15. RowOK(ts[k], k, commitments, latest_eon, filled[o])
  <2>1. /\ "processed" \in ts[k] /\ "complete" \in ts[k]
        /\ "voided" \notin ts[k] /\ "finalization_signed" \in ts[k]
        /\ "operator_signature" \in row[o][k] => "operator_signature" \in ts[k]
        /\ "fulfillment_signed" \in row[o][k] => "fulfillment_signed" \in ts[k]
    BY <1>9, <1>14 DEF Outcome, With
  <2> QED BY <1>3, <1>8, <2>1 DEF RowOK
<1>16. ts \in Rows /\ Good(rows[o], ts, commitments, latest_eon, filled[o])
  <2>1. /\ outcome \in SUBSET Outcome
        /\ EndsOrder(outcome)
        /\ state \in {"cancellation_state", "finalization_state"}
    BY <1>13 DEF EndsOrder
  <2>2. S \in SUBSET rows[o] /\ \A x \in rows[o] : x \in S <=> x >= e
    OBVIOUS
  <2> HIDE DEF ts, S, outcome, state
  <2>3. ts = close(signed, rows[o], First(S), outcome)
    BY DEF ts
  <2> QED BY ZenonT(60), <1>3, <1>4, <1>5, <1>11, <1>12, <1>15, <2>1, <2>2, <2>3,
             Before, Ended
<1> HIDE DEF ts
<1> QED BY <1>3, <1>16, OnlyRows DEF FinalizeSwap

LEMMA ConfirmSwapsStep == ASSUME RowsInv, ConfirmSwaps PROVE RowsInv'
<1>0. PICK e \in OperatorEons :
        \E bad \in SUBSET Unconfirmed(e) :
          row' = [o \in Orders |->
            IF o \in bad THEN close(row[o], rows[o], e, {"voided"})
            ELSE IF o \in Unconfirmed(e)
                 THEN [row[o] EXCEPT ![e] = sign_swap(@)]
            ELSE row[o]]
  BY DEF ConfirmSwaps
<1>1. PICK bad \in SUBSET Unconfirmed(e) :
        row' = [o \in Orders |->
          IF o \in bad THEN close(row[o], rows[o], e, {"voided"})
          ELSE IF o \in Unconfirmed(e) THEN [row[o] EXCEPT ![e] = sign_swap(@)]
          ELSE row[o]]
  BY <1>0
<1>2. e + 1 \notin commitments
  BY EonsRead
<1>3. ASSUME NEW o \in Orders
      PROVE  /\ row'[o] \in Rows
             /\ Good(rows[o], row'[o], commitments, latest_eon, filled[o])
  <2>1. o \in Unconfirmed(e) => e \in rows[o] /\ Live(row[o][e])
    BY DEF Unconfirmed
  <2>2. CASE o \in bad
    <3>1. row'[o] = close(row[o], rows[o], e, {"voided"})
      BY <1>1, <1>3, <2>2
    <3> QED BY <1>3, <2>1, <2>2, <3>1, Before, Voided
  <2>3. CASE o \notin bad /\ o \in Unconfirmed(e)
    <3>1. row'[o] = [row[o] EXCEPT ![e] = sign_swap(@)]
      BY <1>1, <1>3, <2>3
    <3>2. /\ rows[o] \in SUBSET Eons /\ row[o] \in Rows
          /\ latest_eon \in Int
          /\ Good(rows[o], row[o], commitments, latest_eon, filled[o])
      BY <1>3, Before
    <3>3. e \in rows[o] /\ Live(row[o][e])
      BY <2>1, <2>3
    <3> QED BY <1>2, <3>1, <3>2, <3>3, Signed
  <2>4. CASE o \notin bad /\ o \notin Unconfirmed(e)
    <3>1. row'[o] = row[o]
      BY <1>1, <1>3, <2>4
    <3> QED BY <1>3, <3>1, Before
  <2> QED BY <2>2, <2>3, <2>4
<1>4. row' \in [Orders -> Rows]
  BY <1>1, <1>3
<1>5. TypeOK'
  BY <1>4 DEF ConfirmSwaps, RowsInv, TypeOK, Rows
<1>6. commitments' \subseteq 1 .. latest_eon'
  BY DEF ConfirmSwaps, RowsInv
<1>7. ASSUME NEW o \in Orders
      PROVE  Good(rows'[o], row'[o], commitments', latest_eon', filled'[o])
  BY <1>3, <1>7 DEF ConfirmSwaps
<1> QED BY <1>5, <1>6, <1>7, EveryOrder

LEMMA MatchSwapStep ==
  ASSUME RowsInv, NEW o \in Orders, MatchSwap(o)
  PROVE  RowsInv'
<1>1. PICK e \in OperatorEons, amount \in 1 .. Remaining(o) :
        /\ e \in rows[o]
        /\ Live(row[o][e])
        /\ "operator_signature" \in row[o][e]
        /\ filled' = [filled EXCEPT ![o] = @ + amount]
        /\ row' = IF filled[o] + amount < Size THEN row
                  ELSE [row EXCEPT ![o] =
                    [change_state(row[o], rows[o], e, {"complete", "appended"})
                       EXCEPT ![e] = sign_swap_fulfillment(@)]]
  BY DEF MatchSwap
<1>2. e + 1 \notin commitments
  BY EonsRead
<1>3. filled[o] \in Int /\ amount \in Int /\ Size \in Nat
      /\ filled[o] >= 0 /\ amount >= 1 /\ filled[o] + amount <= Size
  <2>1. amount >= 1 /\ amount <= Size - filled[o] /\ amount \in Int
    BY <1>1 DEF Remaining
  <2> QED BY <2>1, Before, SwapLifecycleAssumption
<1>4. filled[o] # Size
  BY <1>3
<1> DEFINE f2 == filled[o] + amount
<1>5. f2 \in 0 .. Size /\ filled' = [filled EXCEPT ![o] = f2]
  BY <1>1, <1>3
<1>6. rows' = [rows EXCEPT ![o] = rows[o]] /\ UNCHANGED << latest_eon,
        commitments, deposits, stale_eon >>
  BY Before DEF MatchSwap, TypeOK
<1> HIDE DEF f2
<1>7. CASE f2 < Size
  <2>1. row' = [row EXCEPT ![o] = row[o]]
    BY <1>1, <1>7, Before DEF TypeOK, f2
  <2>2. Good(rows[o], row[o], commitments, latest_eon, f2)
    BY <1>4, Before, PartlyMatched
  <2> QED BY <1>5, <1>6, <2>1, <2>2, Before, OneOrder
<1>8. CASE ~ (f2 < Size)
  <2> DEFINE ts == [change_state(row[o], rows[o], e, {"complete", "appended"})
                      EXCEPT ![e] = sign_swap_fulfillment(@)]
  <2>1. row' = [row EXCEPT ![o] = ts]
    <3>1. ~ (filled[o] + amount < Size)
      BY <1>8 DEF f2
    <3>2. row' = [row EXCEPT ![o] =
                    [change_state(row[o], rows[o], e, {"complete", "appended"})
                       EXCEPT ![e] = sign_swap_fulfillment(@)]]
      BY <1>1, <3>1
    <3> QED BY <3>2
  <2>2. f2 = Size
    <3>1. f2 \in Int /\ f2 <= Size /\ Size \in Int
      <4>1. filled[o] + amount \in Int /\ Size \in Int
        BY <1>3
      <4> QED BY <1>3, <4>1 DEF f2
    <3> QED BY <1>8, <3>1
  <2>3. ts \in Rows /\ Good(rows[o], ts, commitments, latest_eon, f2)
    <3>1. /\ rows[o] \in SUBSET Eons /\ row[o] \in Rows
          /\ latest_eon \in Int
          /\ Good(rows[o], row[o], commitments, latest_eon, filled[o])
      BY Before
    <3>2. /\ e \in rows[o] /\ Live(row[o][e])
          /\ "operator_signature" \in row[o][e]
      BY <1>1
    <3> QED BY <1>2, <1>4, <2>2, <3>1, <3>2, Matched
  <2> HIDE DEF ts
  <2> QED BY <1>5, <1>6, <2>1, <2>3, Before, OneOrder
<1> QED BY <1>7, <1>8

LEMMA VoidSwapStep ==
  ASSUME RowsInv, NEW o \in Orders, VoidSwap(o)
  PROVE  RowsInv'
<1>1. PICK e \in OperatorEons :
        /\ e \in rows[o]
        /\ Live(row[o][e])
        /\ row' = [row EXCEPT ![o] = close(@, rows[o], e, {"voided"})]
  BY DEF VoidSwap
<1> DEFINE ts == close(row[o], rows[o], e, {"voided"})
<1>2. ts \in Rows /\ Good(rows[o], ts, commitments, latest_eon, filled[o])
  <2>1. /\ rows[o] \in SUBSET Eons /\ row[o] \in Rows /\ latest_eon \in Int
        /\ Good(rows[o], row[o], commitments, latest_eon, filled[o])
    BY Before
  <2> QED BY <1>1, <2>1, Voided
<1>3. row' = [row EXCEPT ![o] = ts]
  BY <1>1
<1> HIDE DEF ts
<1> QED BY <1>2, <1>3, OnlyRows DEF VoidSwap

-----------------------------------------------------------------------------
(* RowsInv is inductive.                                                   *)

LEMMA RowsInvInit == ASSUME Init PROVE RowsInv
<1>1. 1 \in Eons
  BY SwapLifecycleAssumption DEF Eons
<1>2. TypeOK
  BY <1>1, SwapLifecycleAssumption DEF Init, TypeOK, NewRow
<1>3. commitments \subseteq 1 .. latest_eon
  BY DEF Init
<1>4. ASSUME NEW o \in Orders
      PROVE  Good(rows[o], row[o], commitments, latest_eon, filled[o])
  BY <1>4 DEF Init, Good, NewRow
<1> QED BY <1>2, <1>3, <1>4, Gather

LEMMA RowsInvStep == ASSUME RowsInv, [Next]_vars PROVE RowsInv'
<1>1. CASE NextEon
  BY <1>1, NextEonStep
<1>2. CASE CreateCheckpoint
  BY <1>2, CreateCheckpointStep
<1>3. CASE ConfirmSwaps
  BY <1>3, ConfirmSwapsStep
<1>4. ASSUME NEW o \in Orders, PlaceSwap(o) PROVE RowsInv'
  BY <1>4, PlaceSwapStep
<1>5. ASSUME NEW o \in Orders, FreezeSwap(o) PROVE RowsInv'
  BY <1>5, FreezeSwapStep
<1>6. ASSUME NEW o \in Orders, CancelSwap(o) PROVE RowsInv'
  BY <1>6, CancelSwapStep
<1>7. ASSUME NEW o \in Orders, FinalizeSwap(o) PROVE RowsInv'
  BY <1>7, FinalizeSwapStep
<1>8. ASSUME NEW o \in Orders, MatchSwap(o) PROVE RowsInv'
  BY <1>8, MatchSwapStep
<1>9. ASSUME NEW o \in Orders, VoidSwap(o) PROVE RowsInv'
  BY <1>9, VoidSwapStep
<1>10. ASSUME NEW o \in Orders, ReceiveDeposit(o) PROVE RowsInv'
  BY <1>10, ReceiveDepositStep
<1>11. CASE UNCHANGED vars
  <2>1. TypeOK' /\ commitments' \subseteq 1 .. latest_eon'
    BY <1>11 DEF vars, RowsInv, TypeOK
  <2>2. ASSUME NEW o \in Orders
        PROVE  Good(rows'[o], row'[o], commitments', latest_eon', filled'[o])
    BY <1>11, <2>2, Before DEF vars
  <2> QED BY <2>1, <2>2, EveryOrder
<1> QED BY <1>1, <1>2, <1>3, <1>4, <1>5, <1>6, <1>7, <1>8, <1>9, <1>10, <1>11
          DEF Next

-----------------------------------------------------------------------------
(* Outcomes, while handlers and tasks act in the eon they have read.       *)

(* What OneOutcome says of the row of eon e, l being the latest.           *)
RowSettled(r, e, l) ==
  /\ "complete" \in r => "cancelled" \notin r
  /\ e > l => "complete" \notin r /\ ~ ("processed" \in r /\ "appended" \in r)
  /\ "appended" \in r /\ "processed" \notin r => "operator_signature" \in r

(* What it and FrozenStaysOut say of an order.                             *)
Settled(current, rs, l) ==
  /\ \A e \in current : RowSettled(rs[e], e, l)
  /\ \A e, g \in current : Complete(rs[e]) => ~ WasCancelled(rs[g])
  /\ \A e, g \in current :
       "freezing_signature" \in rs[e] /\ g >= l => ~ Live(rs[g])

(* What OutcomeIsFinal says of a step.                                     *)
OutcomesKept(current, rs, ts) ==
  \A e \in current : /\ Complete(rs[e]) => Complete(ts[e])
                     /\ WasCancelled(rs[e]) => WasCancelled(ts[e])

LEMMA Settle ==
  ASSUME NEW o
  PROVE  OneOutcome(o) /\ FrozenStaysOut(o)
           <=> Settled(rows[o], row[o], latest_eon)
<1>1. ASSUME OneOutcome(o), FrozenStaysOut(o)
      PROVE  Settled(rows[o], row[o], latest_eon)
  BY <1>1 DEF Settled, RowSettled, OneOutcome, FrozenStaysOut, Fulfilled,
     Cancelled, Complete, is_open
<1>2. ASSUME Settled(rows[o], row[o], latest_eon)
      PROVE  OneOutcome(o) /\ FrozenStaysOut(o)
  BY <1>2 DEF Settled, RowSettled, OneOutcome, FrozenStaysOut, Fulfilled,
     Cancelled, Complete, is_open
<1> QED BY <1>1, <1>2

(* What becomes of a later row when its order ends: it no longer counts,   *)
(* and of its other flags those that matter here stay.                     *)
Voids(r, s) ==
  /\ "processed" \in s /\ "appended" \notin s
  /\ "complete" \in s <=> "complete" \in r
  /\ "cancelled" \in s <=> "cancelled" \in r
  /\ "freezing_signature" \in s => "freezing_signature" \in r

(* A step that works on the open row of eon k, the latest or the one that  *)
(* is closed, and at most voids the rows after the latest eon: no row has  *)
(* the other outcome, as an earlier one would have voided that of eon k    *)
(* and a later one has none.                                               *)
LEMMA Settling ==
  ASSUME NEW current \in SUBSET Eons, NEW rs, NEW c, NEW l \in Int, NEW f,
         Good(current, rs, c, l, f), Settled(current, rs, l),
         NEW k \in current, "processed" \notin rs[k], NEW ts,
         \A x \in current \ {k} :
           ts[x] = rs[x] \/ (x > l /\ Voids(rs[x], ts[x])),
         RowSettled(ts[k], k, l),
         ~ (Complete(ts[k]) /\ WasCancelled(ts[k])),
         Complete(ts[k]) => k = l \/ Complete(rs[k]),
         WasCancelled(ts[k]) => k = l,
         Complete(rs[k]) => Complete(ts[k]),
         ~ Live(rs[k]) => ~ Live(ts[k]),
         "freezing_signature" \in ts[k] => "freezing_signature" \in rs[k]
  PROVE  Settled(current, ts, l) /\ OutcomesKept(current, rs, ts)
<1>1. \A x \in current : x \in Int
  BY EonsAreInts
<1>2. ASSUME NEW x \in current, x # k
      PROVE  /\ RowSettled(ts[x], x, l)
             /\ Complete(ts[x]) <=> Complete(rs[x])
             /\ WasCancelled(ts[x]) <=> WasCancelled(rs[x])
             /\ ~ Live(rs[x]) => ~ Live(ts[x])
             /\ "freezing_signature" \in ts[x]
                  => "freezing_signature" \in rs[x]
  <2>1. RowSettled(rs[x], x, l)
    BY DEF Settled
  <2>2. CASE ts[x] = rs[x]
    BY <2>1, <2>2
  <2>3. CASE x > l /\ Voids(rs[x], ts[x])
    <3>1. "processed" \in ts[x] /\ "appended" \notin ts[x]
      BY <2>3 DEF Voids
    <3>2. ~ WasCancelled(ts[x]) /\ ~ WasCancelled(rs[x]) /\ ~ Live(ts[x])
      BY <2>1, <2>3, <3>1 DEF RowSettled, WasCancelled, Live
    <3>3. Complete(ts[x]) <=> Complete(rs[x])
      BY <2>3 DEF Voids, Complete
    <3>4. RowSettled(ts[x], x, l)
      BY <2>1, <2>3, <3>1 DEF RowSettled, Voids
    <3> QED BY <2>3, <3>2, <3>3, <3>4 DEF Voids
  <2> QED BY <1>2, <2>2, <2>3
<1>3. \A x \in current : RowSettled(ts[x], x, l)
  BY <1>2
<1>4. ASSUME NEW x \in current, k = l, x # k
      PROVE  ~ Complete(rs[x]) /\ ~ WasCancelled(rs[x])
  <2>1. CASE x < k
    <3>1. PairOK(rs[x], rs[k])
      BY <2>1 DEF Good
    <3>2. ~ Over(rs[x])
      BY <3>1 DEF PairOK, Void
    <3> QED BY <3>2 DEF Over, Complete, WasCancelled
  <2>2. CASE x > k
    <3>1. RowSettled(rs[x], x, l)
      BY DEF Settled
    <3> QED BY <1>4, <2>2, <3>1 DEF RowSettled, Complete, WasCancelled
  <2> QED BY <1>1, <1>4, <2>1, <2>2
<1>5. ASSUME NEW x \in current, NEW y \in current,
             Complete(ts[x]), WasCancelled(ts[y])
      PROVE  FALSE
  <2>1. CASE x = k /\ y = k
    BY <1>5, <2>1
  <2>2. CASE x # k /\ y # k
    BY <1>2, <1>5, <2>2 DEF Settled
  <2>3. CASE x = k /\ y # k
    BY <1>2, <1>4, <1>5, <2>3 DEF Settled
  <2>4. CASE x # k /\ y = k
    BY <1>2, <1>4, <1>5, <2>4
  <2> QED BY <2>1, <2>2, <2>3, <2>4
<1>6. ASSUME NEW x \in current, NEW y \in current,
             "freezing_signature" \in ts[x], y >= l
      PROVE  ~ Live(ts[y])
  <2>1. "freezing_signature" \in rs[x]
    BY <1>2, <1>6
  <2>2. ~ Live(rs[y])
    BY <1>6, <2>1 DEF Settled
  <2> QED BY <1>2, <2>2
<1>7. ~ WasCancelled(rs[k])
  BY DEF WasCancelled
<1> QED BY <1>2, <1>3, <1>5, <1>6, <1>7 DEF Settled, OutcomesKept

(* What is to be shown of each order in each step.                         *)
StaysSettled(o) ==
  Settled(rows[o], row[o], latest_eon)
    => /\ Settled(rows[o], row'[o], latest_eon)
       /\ OutcomesKept(rows[o], row[o], row'[o])

LEMMA UntouchedSettles ==
  ASSUME NEW o, row'[o] = row[o]
  PROVE  StaysSettled(o)
BY DEF StaysSettled, OutcomesKept

LEMMA ChangeVoids ==
  ASSUME NEW current \in SUBSET Eons, NEW rs \in Rows, NEW e \in Eons,
         NEW outcome, NEW x \in current \ {e}
  PROVE  LET ts == change_state(rs, current, e, outcome)
         IN  ts[x] = rs[x] \/ (x > e /\ Voids(rs[x], ts[x]))
<1> DEFINE ts == change_state(rs, current, e, outcome)
<1>1. x \in Eons /\ (x < e \/ x > e)
  BY EonsAreInts
<1>2. ts[x] = rs[x] \/ (x > e /\ ts[x] = VoidedRow(rs[x]))
  BY <1>1, ChangeState
<1>3. Voids(rs[x], VoidedRow(rs[x]))
  BY DEF Voids, VoidedRow
<1> HIDE DEF ts
<1>4. ts[x] = rs[x] \/ (x > e /\ Voids(rs[x], ts[x]))
  BY <1>2, <1>3
<1> QED BY <1>4 DEF ts

(* A checkpoint that retires a complete row finds the rows after it void.  *)
LEMMA CheckpointSettles ==
  ASSUME RowsInv, NEW o \in Orders, CreateCheckpoint
  PROVE  StaysSettled(o)
<1> DEFINE e == latest_eon - 1
           rs == row[o]
           current == rows[o]
<1> SUFFICES ASSUME Settled(current, rs, latest_eon)
             PROVE  /\ Settled(current, row'[o], latest_eon)
                    /\ OutcomesKept(current, rs, row'[o])
  BY DEF StaysSettled
<1>1. row'[o] = retire_swap(rs, current, e)
  BY DEF CreateCheckpoint
<1>2. /\ current \in SUBSET Eons /\ rs \in Rows /\ latest_eon \in Int
      /\ Good(current, rs, commitments, latest_eon, filled[o])
  BY Before
<1>3. CASE ~ (e \in current /\ "appended" \in rs[e] /\ is_open(rs[e]))
  <2>1. row'[o] = rs
    BY <1>1, <1>3 DEF retire_swap
  <2> QED BY <2>1 DEF OutcomesKept
<1>4. CASE e \in current /\ "appended" \in rs[e] /\ is_open(rs[e])
  <2> DEFINE outcome == (rs[e] \cap {"complete"}) \cup {"appended"}
                          \cup {"processed"}
             ts == change_state(rs, current, e, outcome)
  <2>1. RowSettled(rs[e], e, latest_eon) /\ "processed" \notin rs[e]
    BY <1>4 DEF Settled, is_open
  <2>2. is_signed_by_operator(rs[e])
    BY <1>4, <2>1 DEF RowSettled, is_signed_by_operator
  <2>3. row'[o] = ts
    BY <1>1, <1>4, <2>2 DEF retire_swap, close
  <2>4. e \in Eons /\ e \in current /\ ~ (e > latest_eon) /\ e # latest_eon
    BY <1>2, <1>4
  <2>5. ts[e] = (rs[e] \ Outcome) \cup outcome
    <3>1. ts[e] = With(rs[e], Outcome, outcome)
      BY <1>2, <2>4, ChangeState
    <3> QED BY <3>1 DEF With
  <2>6. /\ "processed" \in ts[e] /\ "cancelled" \notin ts[e]
        /\ "complete" \in ts[e] <=> "complete" \in rs[e]
        /\ "freezing_signature" \in ts[e] <=> "freezing_signature" \in rs[e]
    <3> HIDE DEF e, rs, ts
    <3> QED BY <2>5 DEF Outcome
  <2>7. ASSUME NEW x \in current \ {e} PROVE ts[x] = rs[x]
    <3>1. x \in Eons /\ (x < e \/ x > e)
      <4>1. x \in Eons /\ x \in Int /\ e \in Int /\ x # e
        BY <1>2, <2>4, EonsAreInts
      <4> HIDE DEF e
      <4> QED BY <4>1
    <3>2. x < e => ts[x] = rs[x]
      BY <1>2, <2>4, <2>7, <3>1, ChangeState
    <3>3. x > e => ts[x] = IF EndsOrder(outcome) /\ "voided" \notin rs[x]
                           THEN VoidedRow(rs[x]) ELSE rs[x]
      BY <1>2, <2>4, <2>7, <3>1, ChangeState
    <3>4. EndsOrder(outcome) => "complete" \in rs[e]
      BY DEF EndsOrder
    <3>5. x > e /\ "complete" \in rs[e] => "voided" \in rs[x]
      <4>1. x > e => PairOK(rs[e], rs[x])
        BY <1>2, <2>4, <2>7, <3>1, EonsAreInts DEF Good
      <4> QED BY <4>1 DEF PairOK, Over, Void
    <3> HIDE DEF ts, outcome, e
    <3> QED BY <3>1, <3>2, <3>3, <3>4, <3>5
  <2> HIDE DEF ts, outcome, e, rs, current
  <2>8. /\ RowSettled(ts[e], e, latest_eon) /\ ~ Live(ts[e])
        /\ ~ WasCancelled(ts[e])
        /\ Complete(ts[e]) <=> Complete(rs[e])
    BY <2>1, <2>4, <2>6 DEF RowSettled, Live, WasCancelled, Complete
  <2> QED BY <1>2, <2>1, <2>3, <2>4, <2>6, <2>7, <2>8, Settling
<1> QED BY <1>3, <1>4

(* A row that is voided.                                                   *)
LEMMA VoidingSettles ==
  ASSUME RowsInv, NEW o \in Orders, latest_eon \in rows[o],
         Live(row[o][latest_eon]),
         row'[o] = close(row[o], rows[o], latest_eon, {"voided"})
  PROVE  StaysSettled(o)
<1> DEFINE l == latest_eon
           rs == row[o]
           current == rows[o]
           outcome == {"voided"} \cup {"processed"}
           ts == change_state(rs, current, l, outcome)
<1> SUFFICES ASSUME Settled(current, rs, l)
             PROVE  /\ Settled(current, row'[o], l)
                    /\ OutcomesKept(current, rs, row'[o])
  BY DEF StaysSettled
<1>1. row'[o] = ts
  BY DEF close
<1>2. /\ current \in SUBSET Eons /\ rs \in Rows /\ l \in Int /\ l \in Eons
      /\ Good(current, rs, commitments, l, filled[o])
  BY Before
<1>3. ts[l] = (rs[l] \ Outcome) \cup outcome
  <2>1. ts[l] = With(rs[l], Outcome, outcome)
    BY <1>2, ChangeState
  <2> QED BY <2>1 DEF With
<1>4. \A x \in current \ {l} :
        ts[x] = rs[x] \/ (x > l /\ Voids(rs[x], ts[x]))
  BY <1>2, ChangeVoids
<1> HIDE DEF ts
<1>5. /\ "processed" \in ts[l] /\ "cancelled" \notin ts[l]
      /\ "complete" \notin ts[l] /\ "appended" \notin ts[l]
      /\ "freezing_signature" \in ts[l] => "freezing_signature" \in rs[l]
  BY <1>3 DEF Outcome
<1>6. /\ RowSettled(ts[l], l, l) /\ ~ Live(ts[l])
      /\ ~ WasCancelled(ts[l]) /\ ~ Complete(ts[l])
  BY <1>5 DEF RowSettled, Live, WasCancelled, Complete
<1>7. "processed" \notin rs[l] /\ ~ Complete(rs[l])
  BY DEF Live, Complete
<1>8. l \in current
  OBVIOUS
<1> HIDE DEF l, rs, current, outcome
<1> QED BY <1>1, <1>2, <1>4, <1>5, <1>6, <1>7, <1>8, Settling

(* A row that is countersigned.                                            *)
LEMMA SigningSettles ==
  ASSUME RowsInv, NEW o \in Orders, latest_eon \in rows[o],
         Live(row[o][latest_eon]),
         row'[o] = [row[o] EXCEPT ![latest_eon] = sign_swap(@)]
  PROVE  StaysSettled(o)
<1> DEFINE l == latest_eon
           rs == row[o]
           ts == row'[o]
           current == rows[o]
<1> SUFFICES ASSUME Settled(current, rs, l)
             PROVE  Settled(current, ts, l) /\ OutcomesKept(current, rs, ts)
  BY DEF StaysSettled
<1>1. /\ current \in SUBSET Eons /\ rs \in Rows /\ l \in Int /\ l \in Eons
      /\ Good(current, rs, commitments, l, filled[o])
  BY Before
<1>2. ts[l] = sign_swap(rs[l])
  BY <1>1 DEF Rows
<1>3. \A x \in current \ {l} : ts[x] = rs[x]
  BY <1>1 DEF Rows
<1>4. /\ "processed" \notin rs[l] /\ "complete" \notin rs[l]
      /\ RowSettled(rs[l], l, l)
  BY DEF Live, Settled
<1> HIDE DEF ts
<1>5. /\ "processed" \notin ts[l] /\ "complete" \notin ts[l]
      /\ "appended" \in ts[l] => "operator_signature" \in ts[l]
      /\ "freezing_signature" \in ts[l] => "freezing_signature" \in rs[l]
  BY <1>2, <1>4 DEF sign_swap, RowSettled
<1>6. RowSettled(ts[l], l, l) /\ ~ WasCancelled(ts[l]) /\ ~ Complete(ts[l])
  BY <1>1, <1>5 DEF RowSettled, WasCancelled, Complete
<1>7. ~ Complete(rs[l]) /\ Live(rs[l]) /\ l \in current
  BY <1>4 DEF Complete
<1> HIDE DEF l, rs, current
<1> QED BY <1>1, <1>3, <1>4, <1>5, <1>6, <1>7, Settling

(* The match that fills an order: the row was live.                        *)
LEMMA MatchingSettles ==
  ASSUME RowsInv, NEW o \in Orders, latest_eon \in rows[o],
         Live(row[o][latest_eon]),
         "operator_signature" \in row[o][latest_eon],
         row'[o] = [change_state(row[o], rows[o], latest_eon,
                                 {"complete", "appended"})
                      EXCEPT ![latest_eon] = sign_swap_fulfillment(@)]
  PROVE  StaysSettled(o)
<1> DEFINE l == latest_eon
           rs == row[o]
           current == rows[o]
           outcome == {"complete", "appended"}
           us == change_state(rs, current, l, outcome)
           ts == row'[o]
<1> SUFFICES ASSUME Settled(current, rs, l)
             PROVE  Settled(current, ts, l) /\ OutcomesKept(current, rs, ts)
  BY DEF StaysSettled
<1>1. /\ current \in SUBSET Eons /\ rs \in Rows /\ l \in Int /\ l \in Eons
      /\ Good(current, rs, commitments, l, filled[o])
  BY Before
<1>2. us \in Rows
  BY <1>1, ChangeInRows DEF Outcome
<1>3. us[l] = (rs[l] \ Outcome) \cup outcome
  <2>1. us[l] = With(rs[l], Outcome, outcome)
    BY <1>1, ChangeState
  <2> QED BY <2>1 DEF With
<1>4. \A x \in current \ {l} :
        us[x] = rs[x] \/ (x > l /\ Voids(rs[x], us[x]))
  BY <1>1, ChangeVoids
<1> HIDE DEF us
<1>5. ts[l] = sign_swap_fulfillment(us[l])
  BY <1>1, <1>2 DEF Rows, us
<1>6. \A x \in current \ {l} : ts[x] = us[x]
  BY <1>1, <1>2 DEF Rows, us
<1> HIDE DEF ts
<1>7. /\ "complete" \in us[l] /\ "cancelled" \notin us[l]
      /\ "operator_signature" \in us[l]
      /\ "freezing_signature" \in us[l] => "freezing_signature" \in rs[l]
  BY <1>3 DEF Outcome
<1>8. ts[l] = us[l] \/ ts[l] = us[l] \cup {"fulfillment_signed"}
  BY <1>5 DEF sign_swap_fulfillment
<1>9. /\ "complete" \in ts[l] /\ "cancelled" \notin ts[l]
      /\ "operator_signature" \in ts[l]
      /\ "freezing_signature" \in ts[l] => "freezing_signature" \in rs[l]
  BY <1>7, <1>8
<1>10. /\ RowSettled(ts[l], l, l)
       /\ ~ Live(ts[l]) /\ ~ WasCancelled(ts[l]) /\ Complete(ts[l])
  BY <1>1, <1>9 DEF RowSettled, Live, WasCancelled, Complete
<1>11. "processed" \notin rs[l] /\ l \in current
  BY DEF Live
<1>12. \A x \in current \ {l} :
         ts[x] = rs[x] \/ (x > l /\ Voids(rs[x], ts[x]))
  BY <1>4, <1>6
<1> HIDE DEF l, rs, current, outcome
<1> QED BY <1>1, <1>9, <1>10, <1>11, <1>12, Settling

(* The rows of an order are those from an eon on that has come: a handler  *)
(* that acts for the latest eon goes by its row.                           *)
LEMMA FirstIsLatest ==
  ASSUME RowsInv, NEW o \in Orders, PlacedInTime(o),
         SwapSet(o, latest_eon) # {}
  PROVE  /\ latest_eon \in rows[o]
         /\ First(SwapSet(o, latest_eon)) = latest_eon
         /\ \A x \in rows[o] : x \notin SwapSet(o, latest_eon) => x < latest_eon
         /\ \A x \in rows[o] : x \in SwapSet(o, latest_eon) => x >= latest_eon
<1> DEFINE S == SwapSet(o, latest_eon)
<1>1. /\ latest_eon \in Int /\ rows[o] \in SUBSET Eons
      /\ \A x \in rows[o] : x \in Int
  BY Before, EonsAreInts
<1>2. S = {x \in rows[o] : x >= latest_eon}
  BY DEF SwapSet
<1>3. PICK e \in 1 .. latest_eon : rows[o] = e .. e + ValidEons - 1
  BY <1>2 DEF PlacedInTime
<1>4. PICK y \in rows[o] : y >= latest_eon
  BY <1>2
<1>5. latest_eon \in rows[o]
  BY <1>1, <1>3, <1>4, SwapLifecycleAssumption
<1>6. latest_eon \in S /\ S \in SUBSET Eons /\ S # {}
  BY <1>1, <1>2, <1>5
<1>7. First(S) \in S /\ (latest_eon # First(S) => First(S) < latest_eon)
  BY <1>6, FirstIsLeast
<1>8. First(S) = latest_eon
  BY <1>1, <1>2, <1>7
<1> QED BY <1>1, <1>2, <1>5, <1>8

(* A freeze finds no later row with an outcome.                            *)
LEMMA FreezingSettles ==
  ASSUME RowsInv, ~ stale_eon, NEW o \in Orders, PlacedInTime(o),
         FreezeSwap(o)
  PROVE  StaysSettled(o)
<1> DEFINE l == latest_eon
           rs == row[o]
           current == rows[o]
           ts == row'[o]
           frost == {"cancelled", "freezing_signature"}
<1> SUFFICES ASSUME Settled(current, rs, l)
             PROVE  Settled(current, ts, l) /\ OutcomesKept(current, rs, ts)
  BY DEF StaysSettled
<1>1. /\ current \in SUBSET Eons /\ rs \in Rows /\ l \in Int /\ l \in Eons
      /\ \A x \in current : x \in Int
      /\ Good(current, rs, commitments, l, filled[o])
      /\ row \in [Orders -> Rows]
  BY Before, EonsAreInts DEF TypeOK, Rows
<1>2. /\ SwapSet(o, l) # {}
      /\ rs[First(SwapSet(o, l))]
           \cap {"complete", "cancelled", "voided", "processed"} = {}
      /\ row' = [row EXCEPT ![o] = [x \in Eons |->
           IF x \in SwapSet(o, l) THEN @[x] \cup frost ELSE @[x]]]
  BY DEF FreezeSwap, Freezable, CurrentEons, ToFreeze
<1>3. ts = [x \in Eons |-> IF x \in SwapSet(o, l) THEN rs[x] \cup frost
                                                  ELSE rs[x]]
  BY <1>1, <1>2
<1>4. /\ l \in current /\ First(SwapSet(o, l)) = l
      /\ \A x \in current : x \notin SwapSet(o, l) => x < l
      /\ \A x \in current : x \in SwapSet(o, l) => x >= l
  BY <1>2, FirstIsLatest
<1>5. \A x \in current : /\ x < l => ts[x] = rs[x]
                         /\ x >= l => ts[x] = rs[x] \cup frost
  BY <1>1, <1>3, <1>4
<1>6. "complete" \notin rs[l] /\ "processed" \notin rs[l]
  BY <1>2, <1>4
<1> HIDE DEF ts
<1>7. ASSUME NEW x \in current, x >= l
      PROVE  /\ RowSettled(ts[x], x, l)
             /\ ~ Live(ts[x]) /\ ~ Complete(ts[x])
             /\ ~ Complete(rs[x]) /\ ~ WasCancelled(rs[x])
             /\ ~ WasCancelled(ts[x])
  <2>1. RowSettled(rs[x], x, l)
    BY DEF Settled
  <2>2. x = l \/ x > l
    BY <1>1, <1>7
  <2>3. /\ "complete" \notin rs[x]
        /\ ~ ("processed" \in rs[x] /\ "appended" \in rs[x])
    BY <1>6, <2>1, <2>2 DEF RowSettled
  <2>4. /\ "complete" \notin ts[x] /\ "cancelled" \in ts[x]
        /\ "processed" \in ts[x] <=> "processed" \in rs[x]
        /\ "appended" \in ts[x] <=> "appended" \in rs[x]
        /\ "operator_signature" \in ts[x] <=> "operator_signature" \in rs[x]
    BY <1>5, <1>7, <2>3
  <2> QED BY <2>1, <2>3, <2>4 DEF RowSettled, Live, Complete, WasCancelled
<1>8. \A x \in current : x < l \/ x >= l
  BY <1>1
<1>9. \A x \in current : RowSettled(ts[x], x, l)
  BY <1>5, <1>7, <1>8 DEF Settled
<1>10. \A x \in current : /\ Complete(ts[x]) <=> Complete(rs[x])
                          /\ WasCancelled(ts[x]) <=> WasCancelled(rs[x])
  BY <1>5, <1>7, <1>8
<1>11. \A x, y \in current : Complete(ts[x]) => ~ WasCancelled(ts[y])
  BY <1>10 DEF Settled
<1>12. \A y \in current : y >= l => ~ Live(ts[y])
  BY <1>7
<1> QED BY <1>9, <1>10, <1>11, <1>12 DEF Settled, OutcomesKept

LEMMA ChangeKeeps ==
  ASSUME NEW current, NEW rs \in Rows, NEW e \in Eons, NEW outcome,
         NEW ts, ts = change_state(rs, current, e, outcome), NEW x \in Eons
  PROVE  /\ ts[e] = With(rs[e], Outcome, outcome)
         /\ x < e /\ x # e => ts[x] = rs[x]
         /\ x > e /\ x \in current /\ "voided" \in rs[x] => ts[x] = rs[x]
BY ChangeState

LEMMA AttachedInRows ==
  ASSUME RowsInv, NEW o \in Orders, NEW e \in Eons, NEW state \in Flags
  PROVE  Attached(o, e, state) \in Rows
<1>1. ASSUME NEW x \in Eons PROVE Attached(o, e, state)[x] \subseteq Flags
  <2>1. row[o][x] \subseteq Flags
    BY Before DEF Rows
  <2>2. {"voided", "processed"} \subseteq Flags
    BY DEF Flags
  <2> QED BY <2>1, <2>2 DEF Attached, With
<1> QED BY <1>1 DEF Attached, Rows

(* The rows with a final state attached, that of the latest eon apart.     *)
AttachedRows(us, o, state) ==
  us \in Rows /\ \A x \in Eons \ {latest_eon} :
                    us[x] = Attached(o, latest_eon, state)[x]

(* A final state makes no row final by itself.                             *)
StateFlag(state) ==
  state \in Flags \ {"complete", "cancelled", "appended", "freezing_signature"}

(* What closing a row does to it and to those after it.                    *)
ClosedRows(us, o, outcome) ==
  LET ts == close(us, rows[o], latest_eon, outcome)
  IN /\ ts[latest_eon] = With(us[latest_eon], Outcome, outcome \cup {"processed"})
     /\ \A x \in rows[o] \ {latest_eon} :
          ts[x] = row[o][x] \/ (x > latest_eon /\ Voids(row[o][x], ts[x]))

(* The rows after that of a signed final state are voided.                 *)
LEMMA AttachedVoids ==
  ASSUME RowsInv, NEW o \in Orders, PlacedInTime(o),
         SwapSet(o, latest_eon) # {}, NEW state, StateFlag(state),
         NEW us, AttachedRows(us, o, state), NEW outcome
  PROVE  ClosedRows(us, o, outcome)
<1> DEFINE l == latest_eon
           S == SwapSet(o, l)
           att == Attached(o, l, state)
           ts == close(us, rows[o], l, outcome)
<1>1. /\ l \in rows[o] /\ First(S) = l
      /\ \A x \in rows[o] : x \notin S => x < l
      /\ \A x \in rows[o] : x \in S => x >= l
  BY FirstIsLatest
<1>2. /\ rows[o] \in SUBSET Eons /\ row[o] \in Rows /\ l \in Eons /\ l \in Int
      /\ \A x \in rows[o] : x \in Int
  BY Before, EonsAreInts
<1>3. att = [x \in Eons |->
        IF x \notin S THEN row[o][x]
        ELSE IF x = l THEN row[o][x] \cup {state}
        ELSE (row[o][x] \ {"appended"}) \cup {state, "voided", "processed"}]
  BY <1>1 DEF Attached, With
<1>4. us \in Rows /\ \A x \in Eons \ {l} : us[x] = att[x]
  BY DEF AttachedRows
<1> DEFINE out == outcome \cup {"processed"}
<1>5. ts = change_state(us, rows[o], l, out)
  BY DEF close
<1> HIDE DEF out, att, S, l, ts
<1>6. ASSUME NEW x \in Eons
      PROVE  /\ ts[l] = With(us[l], Outcome, out)
             /\ x < l /\ x # l => ts[x] = us[x]
             /\ x > l /\ x \in rows[o] /\ "voided" \in us[x] => ts[x] = us[x]
  BY <1>2, <1>4, <1>5, ChangeKeeps
<1>7. ts[l] = With(us[l], Outcome, out)
  BY <1>2, <1>5, <1>6
<1>8. ASSUME NEW x \in rows[o] \ {l}
      PROVE  ts[x] = row[o][x] \/ (x > l /\ Voids(row[o][x], ts[x]))
  <2>1. x \in Eons /\ x \in Int /\ (x < l \/ x > l) /\ x # l
    BY <1>2
  <2>2. CASE x < l
    <3>1. x \notin S
      BY <1>1, <1>2, <2>1, <2>2
    <3>2. us[x] = row[o][x]
      BY <1>3, <1>4, <2>1, <3>1
    <3>3. ts[x] = us[x]
      BY <1>2, <1>5, <1>6, <2>1, <2>2
    <3> QED BY <3>2, <3>3
  <2>3. CASE x > l
    <3>1. x \in S
      BY <1>1, <1>2, <2>1, <2>3
    <3>2. us[x] = (row[o][x] \ {"appended"}) \cup {state, "voided", "processed"}
      BY <1>3, <1>4, <2>1, <3>1
    <3>3. "voided" \in us[x]
      BY <3>2
    <3>4. ts[x] = us[x]
      BY <1>2, <1>5, <1>6, <2>1, <2>3, <3>3
    <3>5. state \notin {"complete", "cancelled", "appended", "freezing_signature"}
      BY DEF StateFlag
    <3>6. Voids(row[o][x], us[x])
      <4> HIDE DEF l, S
      <4> QED BY <3>2, <3>5 DEF Voids
    <3> QED BY <2>3, <3>4, <3>6
  <2> QED BY <2>1, <2>2, <2>3
<1> QED BY <1>7, <1>8 DEF l, out, ts, ClosedRows

LEMMA CancellingSettles ==
  ASSUME RowsInv, ~ stale_eon, NEW o \in Orders, PlacedInTime(o),
         CancelSwap(o)
  PROVE  StaysSettled(o)
<1> DEFINE l == latest_eon
           rs == row[o]
           ts == row'[o]
           current == rows[o]
           att == Attached(o, l, "cancellation_state")
           s == sign_swap_cancellation(att[l])
<1> SUFFICES ASSUME Settled(current, rs, l)
             PROVE  Settled(current, ts, l) /\ OutcomesKept(current, rs, ts)
  BY DEF StaysSettled
<1>1. /\ current \in SUBSET Eons /\ rs \in Rows /\ l \in Int /\ l \in Eons
      /\ Good(current, rs, commitments, l, filled[o])
      /\ row \in [Orders -> Rows]
  BY Before DEF TypeOK, Rows
<1>2. SwapSet(o, l) # {}
  BY DEF CancelSwap, CurrentEons
<1>3. l \in current /\ First(SwapSet(o, l)) = l
  BY <1>2, FirstIsLatest
<1>4. DOMAIN att = Eons /\ att[l] = rs[l] \cup {"cancellation_state"}
  <2>1. l \in SwapSet(o, l)
    BY <1>1, <1>3 DEF SwapSet
  <2> QED BY <1>1, <1>3, <2>1 DEF Attached
<1>5. /\ {"cancelled", "freezing_signature"} \subseteq rs[l]
      /\ rs[l] \cap {"processed", "cancellation_state"} = {}
      /\ row' = [row EXCEPT ![o] =
           close([att EXCEPT ![l] = sign_swap_cancellation(@)], current, l,
                 {"cancelled", "appended"})]
  BY <1>3 DEF CancelSwap, CurrentEons
<1>6. [att EXCEPT ![l] = sign_swap_cancellation(@)] = [att EXCEPT ![l] = s]
  BY <1>1, <1>4
<1>7. ts = close([att EXCEPT ![l] = s], current, l, {"cancelled", "appended"})
  BY <1>1, <1>5, <1>6
<1>8. s \subseteq att[l] \cup {"cancellation_signed"}
  BY DEF sign_swap_cancellation
<1>9. s \subseteq Flags /\ "cancellation_state" \in Flags
  <2>1. rs[l] \subseteq Flags
    BY <1>1 DEF Rows
  <2>2. {"cancellation_state", "cancellation_signed"} \subseteq Flags
    BY DEF Flags
  <2> QED BY <1>4, <1>8, <2>1, <2>2
<1> DEFINE us == [att EXCEPT ![l] = s]
           outcome == {"cancelled", "appended"}
           state == "cancellation_state"
<1> HIDE DEF s, ts
<1>10. ts = close(us, current, l, outcome)
  BY <1>7
<1>11. AttachedRows(us, o, state) /\ us[l] = s
  <2>1. att \in Rows
    BY <1>1, <1>9, AttachedInRows
  <2> HIDE DEF att
  <2>2. us \in Rows /\ us[l] = s /\ \A x \in Eons \ {l} : us[x] = att[x]
    BY <1>1, <1>9, <2>1 DEF Rows
  <2>3. att = Attached(o, latest_eon, state)
    BY DEF att
  <2> HIDE DEF us, state
  <2> QED BY <2>2, <2>3 DEF AttachedRows
<1>12. StateFlag(state)
  BY <1>9 DEF StateFlag
<1> HIDE DEF us, outcome, state
<1> DEFINE vs == close(us, current, l, outcome)
<1>13. vs = close(us, current, l, outcome)
  OBVIOUS
<1> HIDE DEF vs, l, current, rs
<1>14. /\ vs[l] = With(s, Outcome, outcome \cup {"processed"})
      /\ \A x \in current \ {l} :
           vs[x] = rs[x] \/ (x > l /\ Voids(rs[x], vs[x]))
  <2>1. SwapSet(o, latest_eon) # {}
    BY <1>2 DEF l
  <2>2. ClosedRows(us, o, outcome)
    BY <1>11, <1>12, <2>1, AttachedVoids
  <2> QED BY <1>11, <1>13, <2>2 DEF ClosedRows, l, current, rs
<1>15. /\ ts[l] = With(s, Outcome, outcome \cup {"processed"})
       /\ \A x \in current \ {l} :
            ts[x] = rs[x] \/ (x > l /\ Voids(rs[x], ts[x]))
  BY <1>10, <1>14 DEF vs
<1>16. /\ "processed" \in ts[l] /\ "cancelled" \in ts[l]
       /\ "complete" \notin ts[l]
  BY <1>15 DEF With, Outcome, outcome
<1>17. /\ RowSettled(ts[l], l, l) /\ ~ Live(ts[l]) /\ ~ Complete(ts[l])
  BY <1>1, <1>16 DEF RowSettled, Live, Complete
<1>18. "processed" \notin rs[l] /\ "freezing_signature" \in rs[l]
  BY <1>5
<1>19. ~ Complete(rs[l])
  BY <1>3, <1>5 DEF Settled, RowSettled, Complete
<1> HIDE DEF l, rs, current
<1> QED BY <1>1, <1>3, <1>15, <1>17, <1>18, <1>19, Settling

LEMMA FinalizingSettles ==
  ASSUME RowsInv, ~ stale_eon, NEW o \in Orders, PlacedInTime(o),
         FinalizeSwap(o)
  PROVE  StaysSettled(o)
<1> DEFINE l == latest_eon
           rs == row[o]
           ts == row'[o]
           current == rows[o]
           att == Attached(o, l, "finalization_state")
           s == sign_swap_finalization(att[l])
<1> SUFFICES ASSUME Settled(current, rs, l)
             PROVE  Settled(current, ts, l) /\ OutcomesKept(current, rs, ts)
  BY DEF StaysSettled
<1>1. /\ current \in SUBSET Eons /\ rs \in Rows /\ l \in Int /\ l \in Eons
      /\ Good(current, rs, commitments, l, filled[o])
      /\ row \in [Orders -> Rows]
  BY Before DEF TypeOK, Rows
<1>2. SwapSet(o, l) # {}
  BY DEF FinalizeSwap, CurrentEons
<1>3. l \in current /\ First(SwapSet(o, l)) = l
  BY <1>2, FirstIsLatest
<1>4. DOMAIN att = Eons /\ att[l] = rs[l] \cup {"finalization_state"}
  <2>1. l \in SwapSet(o, l)
    BY <1>1, <1>3 DEF SwapSet
  <2> QED BY <1>1, <1>3, <2>1 DEF Attached
<1>5. /\ "complete" \in rs[l] /\ "processed" \notin rs[l]
      /\ row' = [row EXCEPT ![o] =
           close([att EXCEPT ![l] = sign_swap_finalization(@)], current, l,
                 {"complete", "appended"})]
  BY <1>3 DEF FinalizeSwap, CurrentEons
<1>6. [att EXCEPT ![l] = sign_swap_finalization(@)] = [att EXCEPT ![l] = s]
  BY <1>1, <1>4
<1>7. ts = close([att EXCEPT ![l] = s], current, l, {"complete", "appended"})
  BY <1>1, <1>5, <1>6
<1>8. s = att[l] \/ s = att[l] \cup {"finalization_signed"}
  BY DEF sign_swap_finalization
<1>9. /\ s \subseteq Flags /\ "finalization_state" \in Flags
      /\ "freezing_signature" \in s => "freezing_signature" \in rs[l]
  <2>1. rs[l] \subseteq Flags
    BY <1>1 DEF Rows
  <2>2. {"finalization_state", "finalization_signed"} \subseteq Flags
    BY DEF Flags
  <2> HIDE DEF s, att, rs
  <2> QED BY <1>4, <1>8, <2>1, <2>2
<1> DEFINE us == [att EXCEPT ![l] = s]
           outcome == {"complete", "appended"}
           state == "finalization_state"
<1> HIDE DEF s, ts
<1>10. ts = close(us, current, l, outcome)
  BY <1>7
<1>11. AttachedRows(us, o, state) /\ us[l] = s
  <2>1. att \in Rows
    BY <1>1, <1>9, AttachedInRows
  <2> HIDE DEF att
  <2>2. us \in Rows /\ us[l] = s /\ \A x \in Eons \ {l} : us[x] = att[x]
    BY <1>1, <1>9, <2>1 DEF Rows
  <2>3. att = Attached(o, latest_eon, state)
    BY DEF att
  <2> HIDE DEF us, state
  <2> QED BY <2>2, <2>3 DEF AttachedRows
<1>12. StateFlag(state)
  BY <1>9 DEF StateFlag
<1> HIDE DEF us, outcome, state
<1> DEFINE vs == close(us, current, l, outcome)
<1>13. vs = close(us, current, l, outcome)
  OBVIOUS
<1> HIDE DEF vs, l, current, rs
<1>14. /\ vs[l] = With(s, Outcome, outcome \cup {"processed"})
      /\ \A x \in current \ {l} :
           vs[x] = rs[x] \/ (x > l /\ Voids(rs[x], vs[x]))
  <2>1. SwapSet(o, latest_eon) # {}
    BY <1>2 DEF l
  <2>2. ClosedRows(us, o, outcome)
    BY <1>11, <1>12, <2>1, AttachedVoids
  <2> QED BY <1>11, <1>13, <2>2 DEF ClosedRows, l, current, rs
<1>15. /\ ts[l] = With(s, Outcome, outcome \cup {"processed"})
       /\ \A x \in current \ {l} :
            ts[x] = rs[x] \/ (x > l /\ Voids(rs[x], ts[x]))
  BY <1>10, <1>14 DEF vs
<1>16. /\ "processed" \in ts[l] /\ "complete" \in ts[l]
       /\ "cancelled" \notin ts[l]
       /\ "freezing_signature" \in ts[l] => "freezing_signature" \in rs[l]
  BY <1>9, <1>15 DEF With, Outcome, outcome
<1>17. /\ RowSettled(ts[l], l, l) /\ ~ Live(ts[l]) /\ Complete(ts[l])
       /\ ~ WasCancelled(ts[l])
  BY <1>1, <1>16 DEF RowSettled, Live, Complete, WasCancelled
<1> HIDE DEF l, rs, current
<1> QED BY <1>1, <1>3, <1>5, <1>15, <1>16, <1>17, Settling

-----------------------------------------------------------------------------
(* Every step, for every order.                                            *)

InOrder(o) == PlacedInTime(o) /\ Settled(rows[o], row[o], latest_eon)

Lasts(o) == /\ InOrder(o)'
            /\ rows[o] \subseteq rows'[o]
            /\ OutcomesKept(rows[o], row[o], row'[o])

LEMMA EonsFresh ==
  ASSUME RowsInv, ~ stale_eon
  PROVE  CurrentEons = {latest_eon} /\ OperatorEons = {latest_eon}
BY DEF CurrentEons, OperatorEons

LEMMA RowsLast ==
  ASSUME NEW o, InOrder(o), StaysSettled(o), UNCHANGED << latest_eon, rows >>
  PROVE  Lasts(o)
BY DEF InOrder, StaysSettled, Lasts, PlacedInTime

LEMMA UntouchedLasts ==
  ASSUME NEW o, InOrder(o), rows'[o] = rows[o], row'[o] = row[o],
         latest_eon' = latest_eon
  PROVE  Lasts(o)
BY DEF InOrder, Lasts, PlacedInTime, OutcomesKept

LEMMA NextEonLasts ==
  ASSUME RowsInv, NEW o \in Orders, InOrder(o), NextEon
  PROVE  Lasts(o)
<1>1. /\ latest_eon \in Int /\ rows[o] \in SUBSET Eons
      /\ \A e \in rows[o] : e \in Int
  BY Before, EonsAreInts
<1>2. latest_eon' = latest_eon + 1 /\ rows' = rows /\ row' = row
  BY DEF NextEon
<1>3. PlacedInTime(o)'
  BY <1>1, <1>2 DEF InOrder, PlacedInTime
<1>4. \A e \in rows[o] : /\ e > latest_eon + 1 => e > latest_eon
                         /\ e >= latest_eon + 1 => e >= latest_eon
  BY <1>1
<1>5. Settled(rows[o], row[o], latest_eon + 1)
  BY <1>4 DEF InOrder, Settled, RowSettled
<1> QED BY <1>2, <1>3, <1>5 DEF Lasts, InOrder, OutcomesKept

LEMMA PlacingLasts ==
  ASSUME RowsInv, ~ stale_eon, NEW o \in Orders, InOrder(o), PlaceSwap(o)
  PROVE  Lasts(o)
<1> DEFINE l == latest_eon
           current == l .. l + ValidEons - 1
           ts == row'[o]
<1>1. /\ row \in [Orders -> Rows] /\ rows \in [Orders -> SUBSET Eons]
      /\ l \in Int /\ l \in Eons /\ l >= 1
      /\ Good({}, row[o], commitments, l, filled[o])
  BY Before, EonsAreInts DEF TypeOK, Rows, PlaceSwap
<1>2. /\ rows' = [rows EXCEPT ![o] = current]
      /\ row' = [row EXCEPT ![o][l] = sign_swap(NewRow)]
      /\ l <= MaxEon
      /\ rows[o] = {}
      /\ latest_eon' = l
  BY EonsFresh DEF PlaceSwap
<1>3. rows'[o] = current /\ current \subseteq Eons
  BY <1>1, <1>2, SwapLifecycleAssumption DEF Eons
<1>4. sign_swap(NewRow) = {"operator_signature", "appended"}
  BY DEF sign_swap, NewRow, is_signed_by_operator
<1>5. ts[l] = {"operator_signature", "appended"}
  BY <1>1, <1>2, <1>4 DEF Rows
<1>6. \A x \in Eons \ {l} : ts[x] = {}
  BY <1>1, <1>2 DEF Good, Rows
<1> HIDE DEF ts
<1>7. ASSUME NEW x \in current
      PROVE  /\ RowSettled(ts[x], x, l)
             /\ "complete" \notin ts[x]
             /\ "freezing_signature" \notin ts[x]
  <2>1. CASE x = l
    BY <1>1, <1>5, <2>1 DEF RowSettled
  <2>2. CASE x # l
    <3>1. ts[x] = {}
      BY <1>3, <1>6, <2>2
    <3> QED BY <3>1 DEF RowSettled
  <2> QED BY <2>1, <2>2
<1>8. Settled(current, ts, l)
  BY <1>7 DEF Settled, Complete
<1>9. PlacedInTime(o)'
  BY <1>1, <1>2, <1>3 DEF PlacedInTime
<1> HIDE DEF current, l
<1> QED BY <1>2, <1>3, <1>8, <1>9 DEF Lasts, InOrder, OutcomesKept, ts, l

LEMMA ConfirmingLasts ==
  ASSUME RowsInv, ~ stale_eon, NEW o \in Orders, InOrder(o), ConfirmSwaps
  PROVE  Lasts(o)
<1>1. PICK e \in OperatorEons :
        \E bad \in SUBSET Unconfirmed(e) :
          row' = [p \in Orders |->
            IF p \in bad THEN close(row[p], rows[p], e, {"voided"})
            ELSE IF p \in Unconfirmed(e)
                 THEN [row[p] EXCEPT ![e] = sign_swap(@)]
            ELSE row[p]]
  BY DEF ConfirmSwaps
<1>2. PICK bad \in SUBSET Unconfirmed(e) :
        row' = [p \in Orders |->
          IF p \in bad THEN close(row[p], rows[p], e, {"voided"})
          ELSE IF p \in Unconfirmed(e) THEN [row[p] EXCEPT ![e] = sign_swap(@)]
          ELSE row[p]]
  BY <1>1
<1>3. e = latest_eon
  BY EonsFresh
<1>4. o \in Unconfirmed(e) => e \in rows[o] /\ Live(row[o][e])
  BY DEF Unconfirmed
<1>5. StaysSettled(o)
  <2>1. CASE o \in bad
    <3>1. row'[o] = close(row[o], rows[o], e, {"voided"})
      BY <1>2, <2>1
    <3> QED BY <1>3, <1>4, <2>1, <3>1, VoidingSettles
  <2>2. CASE o \notin bad /\ o \in Unconfirmed(e)
    <3>1. row'[o] = [row[o] EXCEPT ![e] = sign_swap(@)]
      BY <1>2, <2>2
    <3>2. row'[o] = [row[o] EXCEPT ![latest_eon] = sign_swap(@)]
      BY <1>3, <3>1
    <3> QED BY <1>3, <1>4, <2>2, <3>2, SigningSettles
  <2>3. CASE o \notin bad /\ o \notin Unconfirmed(e)
    BY <1>2, <2>3, UntouchedSettles
  <2> QED BY <2>1, <2>2, <2>3
<1> QED BY <1>5, RowsLast DEF ConfirmSwaps

(* A match finds its row live, so that nothing of the order is frozen.     *)
LEMMA MatchingFacts ==
  ASSUME RowsInv, ~ stale_eon, NEW o \in Orders, InOrder(o), MatchSwap(o)
  PROVE  /\ StaysSettled(o)
         /\ \A e \in rows[o] : "freezing_signature" \notin row[o][e]
<1>1. /\ latest_eon \in rows[o] /\ Live(row[o][latest_eon])
      /\ "operator_signature" \in row[o][latest_eon]
      /\ \/ row' = row
         \/ row' = [row EXCEPT ![o] =
              [change_state(row[o], rows[o], latest_eon,
                            {"complete", "appended"})
                 EXCEPT ![latest_eon] = sign_swap_fulfillment(@)]]
  BY EonsFresh DEF MatchSwap
<1>2. latest_eon \in Int /\ row \in [Orders -> Rows]
  BY Before DEF TypeOK, Rows
<1>3. StaysSettled(o)
  <2>1. CASE row' = row
    BY <2>1, UntouchedSettles
  <2>2. CASE row' = [row EXCEPT ![o] =
               [change_state(row[o], rows[o], latest_eon,
                             {"complete", "appended"})
                  EXCEPT ![latest_eon] = sign_swap_fulfillment(@)]]
    <3>1. row'[o] = [change_state(row[o], rows[o], latest_eon,
                                  {"complete", "appended"})
                       EXCEPT ![latest_eon] = sign_swap_fulfillment(@)]
      BY <1>2, <2>2
    <3> QED BY <1>1, <3>1, MatchingSettles
  <2> QED BY <1>1, <2>1, <2>2
<1> QED BY <1>1, <1>2, <1>3 DEF InOrder, Settled

LEMMA VoidSwapLasts ==
  ASSUME RowsInv, ~ stale_eon, NEW o \in Orders, InOrder(o), VoidSwap(o)
  PROVE  StaysSettled(o)
<1>1. /\ latest_eon \in rows[o] /\ Live(row[o][latest_eon])
      /\ row' = [row EXCEPT ![o] = close(@, rows[o], latest_eon, {"voided"})]
  BY EonsFresh DEF VoidSwap
<1>2. row'[o] = close(row[o], rows[o], latest_eon, {"voided"})
  BY <1>1, Before DEF TypeOK
<1> QED BY <1>1, <1>2, VoidingSettles

(* An action of an order concerns no other.                                *)
OrderStep(o) ==
  \/ PlaceSwap(o) \/ FreezeSwap(o) \/ CancelSwap(o) \/ FinalizeSwap(o)
  \/ MatchSwap(o) \/ VoidSwap(o) \/ ReceiveDeposit(o)

LEMMA OthersLast ==
  ASSUME RowsInv, NEW o \in Orders, InOrder(o),
         NEW p \in Orders, p # o, OrderStep(p)
  PROVE  Lasts(o) /\ filled'[o] = filled[o]
<1>1. TypeOK
  BY Before
<1>2. latest_eon' = latest_eon /\ rows'[o] = rows[o] /\ row'[o] = row[o]
      /\ filled'[o] = filled[o]
  <2>1. CASE PlaceSwap(p)
    BY <1>1, <2>1 DEF PlaceSwap, TypeOK
  <2>2. CASE FreezeSwap(p)
    BY <1>1, <2>2 DEF FreezeSwap, Freezable, TypeOK
  <2>3. CASE CancelSwap(p)
    BY <1>1, <2>3 DEF CancelSwap, TypeOK
  <2>4. CASE FinalizeSwap(p)
    BY <1>1, <2>4 DEF FinalizeSwap, TypeOK
  <2>5. CASE MatchSwap(p)
    BY <1>1, <2>5 DEF MatchSwap, TypeOK
  <2>6. CASE VoidSwap(p)
    BY <1>1, <2>6 DEF VoidSwap, TypeOK
  <2>7. CASE ReceiveDeposit(p)
    BY <2>7 DEF ReceiveDeposit
  <2> QED BY <2>1, <2>2, <2>3, <2>4, <2>5, <2>6, <2>7 DEF OrderStep
<1> QED BY <1>2, UntouchedLasts

LEMMA OwnLasts ==
  ASSUME RowsInv, ~ stale_eon, NEW o \in Orders, InOrder(o), OrderStep(o)
  PROVE  /\ Lasts(o)
         /\ filled'[o] # filled[o] =>
              \A e \in rows[o] : "freezing_signature" \notin row[o][e]
<1>0. PlacedInTime(o)
  BY DEF InOrder
<1>1. CASE PlaceSwap(o)
  BY <1>1, PlacingLasts DEF PlaceSwap
<1>2. CASE FreezeSwap(o)
  BY <1>0, <1>2, FreezingSettles, RowsLast DEF FreezeSwap, Freezable
<1>3. CASE CancelSwap(o)
  BY <1>0, <1>3, CancellingSettles, RowsLast DEF CancelSwap
<1>4. CASE FinalizeSwap(o)
  BY <1>0, <1>4, FinalizingSettles, RowsLast DEF FinalizeSwap
<1>5. CASE MatchSwap(o)
  BY <1>5, MatchingFacts, RowsLast DEF MatchSwap
<1>6. CASE VoidSwap(o)
  BY <1>6, VoidSwapLasts, RowsLast DEF VoidSwap
<1>7. CASE ReceiveDeposit(o)
  BY <1>7, UntouchedLasts DEF ReceiveDeposit
<1> QED BY <1>1, <1>2, <1>3, <1>4, <1>5, <1>6, <1>7 DEF OrderStep

(* Any step: orders stay in order, outcomes stay, and a match finds        *)
(* nothing frozen.                                                         *)
LEMMA AnyStep ==
  ASSUME RowsInv, ~ stale_eon, [Next]_vars, NEW o \in Orders, InOrder(o)
  PROVE  /\ Lasts(o)
         /\ filled'[o] # filled[o] =>
              \A e \in rows[o] : "freezing_signature" \notin row[o][e]
<1>1. CASE NextEon
  BY <1>1, NextEonLasts DEF NextEon
<1>2. CASE CreateCheckpoint
  BY <1>2, CheckpointSettles, RowsLast DEF CreateCheckpoint
<1>3. CASE ConfirmSwaps
  BY <1>3, ConfirmingLasts DEF ConfirmSwaps
<1>4. ASSUME NEW p \in Orders, OrderStep(p)
      PROVE  /\ Lasts(o)
             /\ filled'[o] # filled[o] =>
                  \A e \in rows[o] : "freezing_signature" \notin row[o][e]
  BY <1>4, OthersLast, OwnLasts
<1>5. CASE UNCHANGED vars
  BY <1>5, UntouchedLasts DEF vars
<1> QED BY <1>1, <1>2, <1>3, <1>4, <1>5 DEF Next, OrderStep
-----------------------------------------------------------------------------
(* The theorems                                                            *)

LEMMA SettleAll ==
  (\A o \in Orders : PlacedInTime(o) /\ OneOutcome(o) /\ FrozenStaysOut(o))
    <=> \A o \in Orders : InOrder(o)
BY Settle DEF InOrder

LEMMA SettleAllPrime ==
  (\A o \in Orders : PlacedInTime(o) /\ OneOutcome(o) /\ FrozenStaysOut(o))'
    <=> \A o \in Orders : InOrder(o)'
<1>1. ((\A o \in Orders :
          PlacedInTime(o) /\ OneOutcome(o) /\ FrozenStaysOut(o))
         <=> \A o \in Orders : InOrder(o))'
  BY SettleAll, PTL
<1> QED BY <1>1

LEMMA LifeInvInit == ASSUME Init PROVE LifeInv
<1>1. RowsInv
  BY RowsInvInit
<1>2. ASSUME NEW o \in Orders PROVE InOrder(o)
  <2>1. rows[o] = {}
    BY DEF Init
  <2> QED BY <2>1 DEF InOrder, PlacedInTime, Settled
<1> QED BY <1>1, <1>2, SettleAll DEF LifeInv

LEMMA StaleStays == ASSUME [Next]_vars PROVE stale_eon' = stale_eon
BY DEF Next, vars, NextEon, CreateCheckpoint, ConfirmSwaps, PlaceSwap,
   FreezeSwap, Freezable, CancelSwap, FinalizeSwap, MatchSwap, VoidSwap, ReceiveDeposit

LEMMA LifeInvStep == ASSUME LifeInv, [Next]_vars PROVE LifeInv'
<1>1. RowsInv /\ RowsInv' /\ stale_eon' = stale_eon
  BY RowsInvStep, StaleStays DEF LifeInv
<1>2. CASE stale_eon
  BY <1>1, <1>2 DEF LifeInv
<1>3. CASE ~ stale_eon
  <2>1. ASSUME NEW o \in Orders PROVE InOrder(o)'
    <3>1. InOrder(o)
      BY <1>3, SettleAll DEF LifeInv
    <3> QED BY <1>1, <1>3, <3>1, AnyStep DEF Lasts
  <2> QED BY <1>1, <1>3, <2>1, SettleAllPrime DEF LifeInv
<1> QED BY <1>2, <1>3

(* The rows of every order stay in order, through any sequence of          *)
(* handlers, tasks, checkpoints and eons.                                  *)
THEOREM LifeInvariant == Spec => []LifeInv
BY LifeInvInit, LifeInvStep, PTL DEF Spec

(* Nothing is left of an order after the eon in which it is fulfilled or   *)
(* cancelled.                                                              *)
THEOREM NothingComesAfterwards == Spec => []NothingComesAfter
<1>1. LifeInv => NothingComesAfter
  BY DEF LifeInv, RowsInv
<1> QED BY <1>1, LifeInvariant, PTL

(* What counts as fulfilled can be proved with the operator's signatures.  *)
THEOREM FulfilledStaysSigned == Spec => []FulfilledIsSigned
<1>1. LifeInv => FulfilledIsSigned
  BY DEF LifeInv, RowsInv
<1> QED BY <1>1, LifeInvariant, PTL

(* No order that counts is open after the checkpoint that retires it.      *)
THEOREM CheckpointRetires == Spec => []RetiredByCheckpoint
<1>1. LifeInv => RetiredByCheckpoint
  BY DEF LifeInv, RowsInv
<1> QED BY <1>1, LifeInvariant, PTL

(* An order that is fulfilled stays so, one that is cancelled too, and     *)
(* none is ever both, as long as handlers act in the eon they have read.   *)
THEOREM OutcomesAreFinal == Spec => OutcomeIsFinal
<1>1. ASSUME LifeInv, LifeInv', [Next]_vars
      PROVE  stale_eon \/ \A o \in Orders :
               /\ Fulfilled(o) => Fulfilled(o)' /\ ~ Cancelled(o)'
               /\ Cancelled(o) => Cancelled(o)' /\ ~ Fulfilled(o)'
  <2> SUFFICES ASSUME ~ stale_eon, NEW o \in Orders
               PROVE  /\ Fulfilled(o) => Fulfilled(o)' /\ ~ Cancelled(o)'
                      /\ Cancelled(o) => Cancelled(o)' /\ ~ Fulfilled(o)'
    OBVIOUS
  <2>1. InOrder(o) /\ RowsInv
    BY <1>1, SettleAll DEF LifeInv
  <2>2. Lasts(o)
    BY <1>1, <2>1, AnyStep
  <2>3. Fulfilled(o) => Fulfilled(o)'
    BY <2>2 DEF Lasts, OutcomesKept, Fulfilled
  <2>4. Cancelled(o) => Cancelled(o)'
    BY <2>2 DEF Lasts, OutcomesKept, Cancelled
  <2>5. ~ (Fulfilled(o)' /\ Cancelled(o)')
    BY <2>2 DEF Lasts, InOrder, Settled, Fulfilled, Cancelled
  <2> QED BY <2>3, <2>4, <2>5
<1>2. LifeInv /\ LifeInv' /\ [Next]_vars =>
        [stale_eon \/ \A o \in Orders :
           /\ Fulfilled(o) => Fulfilled(o)' /\ ~ Cancelled(o)'
           /\ Cancelled(o) => Cancelled(o)' /\ ~ Fulfilled(o)']_vars
  BY <1>1
<1> QED BY <1>2, LifeInvariant, PTL DEF Spec, OutcomeIsFinal

(* What its owner was told is frozen is not matched, in any eon, as long   *)
(* as handlers act in the eon they have read.                              *)
THEOREM FrozenStaysUnmatched == Spec => FrozenIsNotMatched
<1>1. ASSUME LifeInv, [Next]_vars
      PROVE  stale_eon \/ \A o \in Orders :
               filled'[o] # filled[o]
                 => \A e \in rows[o] : "freezing_signature" \notin row[o][e]
  <2> SUFFICES ASSUME ~ stale_eon, NEW o \in Orders
               PROVE  filled'[o] # filled[o]
                 => \A e \in rows[o] : "freezing_signature" \notin row[o][e]
    OBVIOUS
  <2>1. InOrder(o) /\ RowsInv
    BY <1>1, SettleAll DEF LifeInv
  <2> QED BY <1>1, <2>1, AnyStep
<1>2. LifeInv /\ [Next]_vars =>
        [stale_eon \/ \A o \in Orders :
           filled'[o] # filled[o]
             => \A e \in rows[o] : "freezing_signature" \notin row[o][e]]_vars
  BY <1>1
<1> QED BY <1>2, LifeInvariant, PTL DEF Spec, FrozenIsNotMatched
=============================================================================
