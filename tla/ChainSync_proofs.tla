-------------------------- MODULE ChainSync_proofs --------------------------
(***************************************************************************)
(* SyncInv is an inductive invariant of ChainSync, for chains of any       *)
(* height, any number of confirmations, window, tokens, reorganisations    *)
(* and faults.  From it follow what the runs check of the two views, the   *)
(* checkpoint, and the refinement of ChainView.                            *)
(*                                                                         *)
(* The argument: what a pass has processed is told by its next block       *)
(* (Reached, Settled), so both views are intervals of blocks at every      *)
(* step; what it confirms lies deeper than any reorganisation reaches, so  *)
(* what was read of it is what stays; and the tokens stored for a block    *)
(* were all registered when it was read again.                             *)
(***************************************************************************)
EXTENDS ChainSync, FiniteSetTheorems, SequenceTheorems, TLAPS

(* How far the running and the confirmed view are once a pass has          *)
(* processed the blocks before next.                                       *)
Reached ==
  IF next > pass.running_from THEN next - 1 ELSE pass.running_from - 1

Deepest == pass.running_until - Confirmations

Settled ==
  IF next - 1 <= Deepest THEN next - 1
  ELSE IF pass.confirm_from - 1 <= Deepest THEN Deepest
  ELSE pass.confirm_from - 1

(* Both views end where the blocks of the pass do.                         *)
ViewsInv ==
  \/ /\ pc = "idle"
     /\ \E l, c \in Nat : /\ stored = 0 .. l /\ confirmed = 1 .. c
                          /\ c <= l /\ l <= Len(chain)
                          /\ l - Confirmations <= c
                          /\ (c = 0 \/ c <= Len(chain) - Confirmations)
  \/ /\ pc # "idle"
     /\ confirmed = 1 .. Settled
     /\ stored = 0 .. (IF pc = "take" THEN Reached ELSE Current)

PassInv ==
  pc # "idle" =>
    /\ 1 <= pass.confirm_from
    /\ pass.confirm_from <= pass.running_from
    /\ pass.running_from <= pass.running_until
    /\ pass.running_until <= Len(chain)
    /\ pass.running_from - Confirmations <= pass.confirm_from
    /\ (pass.confirm_from = 1 \/ pass.confirm_from - 1 <= Deepest)
    /\ pass.update_until <= pass.running_until + 1
    /\ pass.confirm_from <= next
    /\ next <= pass.update_until
    /\ pc = "store" => Remaining # {} /\ ~ ToConfirm(Current)

(* What the workers have read of a block that will be confirmed stays on   *)
(* the chain.                                                              *)
FetchedInv ==
  pc # "idle" =>
    \A b \in Blocks : ToConfirm(b) =>
      /\ fetched[b].logs \in {None, chain[b]}
      /\ fetched[b].state # None =>
           /\ fetched[b].logs = chain[b]
           /\ fetched[b].state = chain[b]
           /\ \A t \in Tokens : fetched[b].ledgers[t] \in {None, Unread, chain[b]}
           /\ b >= next /\ b < pass.running_from =>
                \A t \in Tokens :
                  ledger[b][t] # None => fetched[b].ledgers[t] # None
           /\ QuietRegistration =>
                \A t \in TokensOf(b) : fetched[b].ledgers[t] # None

(* Ledger states are those of tokens that were asked for.                  *)
TokensInv ==
  \A b \in Blocks, t \in Tokens :
    /\ ledger[b][t] # None => t \in TokensOf(b)
    /\ pc # "idle" /\ fetched[b].ledgers[t] # None => t \in TokensOf(b)

(* What a checkpoint took was confirmed.                                   *)
CommitmentsInv ==
  \A e \in Eons \ {1} : commitments[e] # None =>
    LET b == LastBlock(e - 1)
    IN /\ b \in confirmed
       /\ commitments[e].basis = chain[b]
       /\ \A t \in Tokens : commitments[e].funds[t] \in {None, Unread, chain[b]}

(* A checkpoint that is under way is due, the eon before being confirmed,  *)
(* and there is none of its eon yet.                                       *)
TaskInv ==
  task # None => /\ task \in Eons
                 /\ (task - 1) * BlocksPerEon <= confirmed_block
                 /\ commitments[task] = None

SyncInv ==
  /\ TypeOK
  /\ ViewsInv
  /\ PassInv
  /\ FetchedInv
  /\ TokensInv
  /\ EventsExactlyOnce
  /\ ConfirmedMatchesChain
  /\ QuietRegistration => LedgerStatesComplete
  /\ CommitmentsInv
  /\ TaskInv

-----------------------------------------------------------------------------
(* Numbers                                                                 *)

LEMMA LargestOf0 ==
  ASSUME NEW n \in Nat
  PROVE  Largest(0 .. n) = n
BY DEF Largest

LEMMA LargestOf1 ==
  ASSUME NEW n \in Nat, n # 0
  PROVE  Largest(1 .. n) = n
BY DEF Largest

(* A nonempty set of naturals has a least element, and a bounded one a     *)
(* greatest.                                                               *)
LEMMA Least ==
  ASSUME NEW S \in SUBSET Nat, S # {}
  PROVE  \E x \in S : \A y \in S : x <= y
<1> DEFINE R == {ss \in Nat \X Nat : ss[1] < ss[2]}
<1>1. IsWellFoundedOn(R, Nat)
  BY NatLessThanWellFounded DEF OpToRel
<1>2. \A x, y \in Nat : << y, x >> \notin R => x <= y
  OBVIOUS
<1> HIDE DEF R
<1>3. \E x \in S : \A y \in S : << y, x >> \notin R
  BY <1>1, WFMin
<1> QED BY <1>2, <1>3

LEMMA LargestIsIn ==
  ASSUME NEW n \in Nat, NEW S \in SUBSET (0 .. n), S # {}
  PROVE  Largest(S) \in S /\ \A y \in S : y <= Largest(S)
<1> DEFINE D == {n - x : x \in S}
<1>1. D \in SUBSET Nat /\ D # {}
  <2>1. PICK x \in S : TRUE
    OBVIOUS
  <2>2. \A y \in S : n - y \in Nat
    OBVIOUS
  <2> QED BY <2>1, <2>2
<1>2. PICK d \in D : \A y \in D : d <= y
  BY <1>1, Least
<1>3. PICK x \in S : d = n - x
  OBVIOUS
<1>4. \A y \in S : y <= x
  BY <1>2, <1>3
<1> QED BY <1>3, <1>4 DEF Largest

(* The block that ends an eon.                                             *)
LEMMA EndOfEon ==
  ASSUME NEW b \in Nat, NEW e \in Nat,
         eon_number(b) = e, sub_block(b) = BlocksPerEon - 1
  PROVE  b = LastBlock(e)
<1>1. BlocksPerEon \in Nat \ {0}
  BY ChainSyncAssumption
<1>2. b = BlocksPerEon * (b \div BlocksPerEon) + (b % BlocksPerEon)
  BY <1>1
<1> DEFINE q == b \div BlocksPerEon
<1>3. q \in Int /\ q + 1 = e
  BY <1>1 DEF eon_number
<1>4. b = BlocksPerEon * q + BlocksPerEon - 1
  BY <1>1, <1>2, <1>3 DEF sub_block
<1> HIDE DEF q
<1>5. BlocksPerEon * q + BlocksPerEon = (q + 1) * BlocksPerEon
  BY <1>1, <1>3
<1> QED BY <1>1, <1>3, <1>4, <1>5 DEF LastBlock

-----------------------------------------------------------------------------
(* What ViewsInv and PassInv say                                           *)

LEMMA ConstantTypes ==
  /\ Confirmations \in Nat /\ Window \in Nat /\ Window # 0
  /\ MaxBlock \in Nat /\ MaxReorgs \in Nat /\ MaxFaults \in Nat
  /\ MaxReorgDepth \in Nat /\ MaxReorgDepth <= Confirmations
  /\ None \notin Versions /\ Unread \notin Versions /\ None # Unread
  /\ BlocksPerEon \in Nat /\ BlocksPerEon # 0
BY ChainSyncAssumption

(* The next block of a pass: of those to confirm the first of all, of the  *)
(* others the one after the latest.                                        *)
LEMMA CurrentIs ==
  ASSUME TypeOK, PassInv, pc # "idle", Remaining # {}
  PROVE  /\ Current \in Remaining /\ Current \in Blocks
         /\ next <= Current /\ 1 <= Current /\ Current <= Len(chain)
         /\ Current <= pass.running_until
         /\ Current < pass.update_until
         /\ ToConfirm(Current) => Current = next
         /\ ~ ToConfirm(Current) =>
              /\ Current = Reached + 1
              /\ Current >= pass.running_from
              /\ next - 1 >= Deepest
              /\ Current > Deepest
<1> DEFINE first == IF ToConfirm(next) \/ ToStore(next) THEN next
                    ELSE pass.running_from
<1>1. /\ next \in Nat /\ pass.running_from \in Nat /\ pass.confirm_from \in Nat
      /\ pass.running_until \in Nat /\ pass.update_until \in Nat
      /\ Len(chain) \in Nat /\ Len(chain) <= MaxBlock
  BY DEF TypeOK
<1>2. PICK b \in Remaining : TRUE
  OBVIOUS
<1>3. b \in Nat /\ next <= b /\ b < pass.update_until /\ (ToConfirm(b) \/ ToStore(b))
  BY <1>1 DEF Remaining
<1>4. first \in Remaining
  <2>1. first \in Nat /\ next <= first /\ first <= b
    BY SMTT(60), <1>1, <1>3, ConstantTypes DEF PassInv, ToConfirm, ToStore
  <2>2. ToConfirm(first) \/ ToStore(first)
    BY SMTT(60), <1>1, <1>3, ConstantTypes DEF PassInv, ToConfirm, ToStore
  <2> HIDE DEF first
  <2> QED BY <1>1, <1>3, <2>1, <2>2 DEF Remaining
<1>5. \A x \in Remaining : first <= x
  BY <1>1, ConstantTypes DEF PassInv, Remaining, ToConfirm, ToStore
<1>6. \A x \in Remaining : x \in Nat
  BY <1>1 DEF Remaining
<1> HIDE DEF first
<1>7. Current = first
  <2>1. \A x \in Remaining : (\A y \in Remaining : x <= y) => x = first
    BY <1>4, <1>5, <1>6
  <2> QED BY <1>4, <1>5, <2>1 DEF Current, Smallest
<1>8. /\ first \in Nat /\ next <= first /\ first < pass.update_until
      /\ ToConfirm(first) \/ ToStore(first)
  BY <1>1, <1>4 DEF Remaining
<1>9. /\ 1 <= first /\ first <= pass.running_until
      /\ first <= Len(chain) /\ first \in Blocks
  BY <1>1, <1>8, ConstantTypes DEF PassInv, Blocks
<1>10. ToConfirm(first) => first = next
  BY <1>1, <1>8, ConstantTypes DEF PassInv, ToConfirm, first
<1>11. ~ ToConfirm(first) => /\ first = Reached + 1
                             /\ first >= pass.running_from
                             /\ next - 1 >= Deepest
                             /\ first > Deepest
  BY SMTT(60), <1>1, <1>8, ConstantTypes
     DEF PassInv, ToConfirm, ToStore, Reached, Deepest, first
<1> QED BY <1>4, <1>7, <1>8, <1>9, <1>10, <1>11

(* In every state both views are intervals.                                *)
LEMMA ViewsAre ==
  ASSUME TypeOK, ViewsInv, PassInv
  PROVE  \E l, c \in Nat :
           /\ stored = 0 .. l /\ confirmed = 1 .. c
           /\ latest_block = l /\ confirmed_block = c
           /\ c <= l /\ l <= Len(chain) /\ l - Confirmations <= c
           /\ (c = 0 \/ c <= Len(chain) - Confirmations)
<1>1. \E l, c \in Nat : /\ stored = 0 .. l /\ confirmed = 1 .. c
                        /\ c <= l /\ l <= Len(chain)
                        /\ l - Confirmations <= c
                        /\ (c = 0 \/ c <= Len(chain) - Confirmations)
  <2>1. CASE pc = "idle"
    BY <2>1 DEF ViewsInv
  <2>2. CASE pc # "idle"
    <3> DEFINE l == IF pc = "take" THEN Reached ELSE Current
    <3>1. /\ next \in Nat /\ pass.running_from \in Nat
          /\ pass.confirm_from \in Nat /\ pass.running_until \in Nat
          /\ pass.update_until \in Nat /\ Len(chain) \in Nat
      BY DEF TypeOK
    <3>2. stored = 0 .. l /\ confirmed = 1 .. Settled
      BY <2>2 DEF ViewsInv
    <3>3. /\ 1 <= pass.confirm_from /\ pass.confirm_from <= pass.running_from
          /\ pass.running_from - Confirmations <= pass.confirm_from
          /\ pass.confirm_from <= next
      BY <2>2 DEF PassInv
    <3>4. Settled \in Nat /\ Reached \in Nat
      <4>1. Reached \in Nat
        BY <3>1, <3>3 DEF Reached
      <4>2. Deepest \in Int
        BY <3>1, ConstantTypes DEF Deepest
      <4>3. Settled \in Nat
        BY <3>1, <3>3, <4>2 DEF Settled
      <4> QED BY <4>1, <4>3
    <3>5. pc = "store" => /\ Current \in Nat
                          /\ Current = Reached + 1
                          /\ Current <= Len(chain)
                          /\ Current <= pass.running_until
      BY <2>2, CurrentIs DEF PassInv, Blocks
    <3>6. pc = "take" \/ pc = "store"
      BY <2>2 DEF TypeOK
    <3>7. l \in Nat /\ l <= Len(chain) /\ l <= pass.running_until /\ Reached <= l
      BY SMTT(60), <2>2, <3>1, <3>4, <3>5, <3>6, ConstantTypes DEF PassInv, Reached
    <3>8. Settled <= Reached
      BY SMTT(60), <2>2, <3>1, ConstantTypes DEF PassInv, Settled, Reached, Deepest
    <3>9. l - Confirmations <= Settled
      <4>1. CASE pc = "take"
        <5>1. next <= pass.running_until + 1
          BY <2>2, <3>1 DEF PassInv
        <5>2. CASE next > pass.running_from
          BY SMTT(60), <3>1, <3>3, <4>1, <5>1, <5>2, ConstantTypes
             DEF Settled, Reached, Deepest
        <5>3. CASE ~ (next > pass.running_from)
          BY SMTT(60), <3>1, <3>3, <4>1, <5>3, ConstantTypes
             DEF Settled, Reached, Deepest
        <5> QED BY <5>2, <5>3
      <4>2. CASE pc = "store"
        <5>1. next - 1 >= Deepest
          BY <2>2, <4>2, CurrentIs DEF PassInv
        <5> QED BY SMTT(60), <2>2, <3>1, <3>7, <4>2, <5>1, ConstantTypes
                DEF PassInv, Settled, Deepest
      <4> QED BY <3>6, <4>1, <4>2
    <3>10. Settled = 0 \/ Settled <= Len(chain) - Confirmations
      BY <2>2, <3>1, ConstantTypes DEF PassInv, Settled, Deepest
    <3> HIDE DEF l
    <3>11. Settled <= l
      BY <3>4, <3>7, <3>8
    <3> QED BY <3>2, <3>4, <3>7, <3>9, <3>10, <3>11
  <2> QED BY <2>1, <2>2
<1>2. PICK l, c \in Nat : /\ stored = 0 .. l /\ confirmed = 1 .. c
                          /\ c <= l /\ l <= Len(chain)
                          /\ l - Confirmations <= c
                          /\ (c = 0 \/ c <= Len(chain) - Confirmations)
  BY <1>1
<1>3. latest_block = l
  BY <1>2, LargestOf0 DEF latest_block
<1>4. confirmed_block = c
  <2>1. CASE c = 0
    BY <1>2, <2>1 DEF confirmed_block
  <2>2. CASE c # 0
    BY <1>2, <2>2, LargestOf1 DEF confirmed_block
  <2> QED BY <2>1, <2>2
<1> QED BY <1>2, <1>3, <1>4

-----------------------------------------------------------------------------
(* The chain and the tokens                                                *)

LEMMA ConfirmedIsFinal ==
  ASSUME TypeOK, ViewsInv, PassInv, NEW b \in confirmed
  PROVE  b \in 1 .. Len(chain) - Confirmations /\ b \in Blocks
<1>1. PICK c \in Nat : /\ confirmed = 1 .. c
                       /\ (c = 0 \/ c <= Len(chain) - Confirmations)
  BY ViewsAre
<1>2. Len(chain) \in Nat /\ Len(chain) <= MaxBlock
  BY DEF TypeOK
<1> QED BY <1>1, <1>2, ConstantTypes DEF Blocks

(* Blocks that are Confirmations deep stay.                                *)
LEMMA ChainStep ==
  ASSUME SyncInv, chain' \in Seq(Versions), Len(chain') <= MaxBlock,
         Len(chain) <= Len(chain'), reorgs' \in Versions,
         \A b \in 1 .. Len(chain) - Confirmations : chain'[b] = chain[b],
         UNCHANGED << view_vars, token_block, pass_vars, checkpoint_vars, faults >>
  PROVE  SyncInv'
<1> USE DEF view_vars, pass_vars, checkpoint_vars
<1>1. /\ TypeOK /\ ViewsInv /\ PassInv
      /\ Len(chain) \in Nat /\ Len(chain') \in Nat
  BY DEF SyncInv, TypeOK
<1>2. TypeOK'
  BY <1>1 DEF TypeOK
<1>3. Remaining' = Remaining /\ Current' = Current
  BY DEF Remaining, Current, ToConfirm, ToStore
<1>4. PassInv'
  BY <1>1, <1>3 DEF PassInv, ToConfirm, Deepest, TypeOK
<1>5. ViewsInv'
  <2>1. CASE pc = "idle"
    <3>1. PICK l, c \in Nat : /\ stored = 0 .. l /\ confirmed = 1 .. c
                              /\ c <= l /\ l <= Len(chain)
                              /\ l - Confirmations <= c
                              /\ (c = 0 \/ c <= Len(chain) - Confirmations)
      BY <1>1, <2>1 DEF ViewsInv
    <3>2. l <= Len(chain') /\ (c = 0 \/ c <= Len(chain') - Confirmations)
      BY <1>1, <3>1, ConstantTypes
    <3> QED BY <2>1, <3>1, <3>2 DEF ViewsInv
  <2>2. CASE pc # "idle"
    BY <1>1, <1>3, <2>2 DEF ViewsInv, Settled, Reached, Deepest
  <2> QED BY <2>1, <2>2
<1>6. \A b \in confirmed : b \in Blocks /\ chain'[b] = chain[b]
  BY <1>1, ConfirmedIsFinal
<1>7. FetchedInv'
  <2>1. ASSUME pc # "idle", NEW b \in Blocks, ToConfirm(b)
        PROVE  chain'[b] = chain[b]
    BY <1>1, <2>1, ConstantTypes
       DEF TypeOK, PassInv, ToConfirm, Blocks
  <2> QED BY <2>1 DEF SyncInv, FetchedInv, ToConfirm, TokensOf
<1>8. TokensInv'
  BY DEF SyncInv, TokensInv, TokensOf
<1>9. EventsExactlyOnce'
  BY <1>6 DEF SyncInv, EventsExactlyOnce
<1>10. ConfirmedMatchesChain'
  BY <1>6 DEF SyncInv, ConfirmedMatchesChain
<1>11. QuietRegistration => LedgerStatesComplete'
  BY DEF SyncInv, LedgerStatesComplete
<1>12. CommitmentsInv'
  BY <1>6 DEF SyncInv, CommitmentsInv
<1>13. TaskInv'
  BY DEF SyncInv, TaskInv, confirmed_block
<1> QED BY <1>2, <1>4, <1>5, <1>7, <1>8, <1>9, <1>10, <1>11, <1>12, <1>13
        DEF SyncInv

LEMMA MineStep ==
  ASSUME SyncInv, Mine
  PROVE  SyncInv'
<1>1. chain \in Seq(Versions) /\ reorgs \in Versions /\ Len(chain) \in Nat
  BY DEF SyncInv, TypeOK
<1>2. chain' = Append(chain, reorgs) /\ Len(chain) < MaxBlock
  BY DEF Mine
<1>3. /\ chain' \in Seq(Versions) /\ Len(chain') = Len(chain) + 1
      /\ \A b \in 1 .. Len(chain) : chain'[b] = chain[b]
  BY <1>1, <1>2
<1>4. \A b \in 1 .. Len(chain) - Confirmations : chain'[b] = chain[b]
  BY <1>1, <1>3, ConstantTypes
<1>5. Len(chain') <= MaxBlock /\ Len(chain) <= Len(chain')
  BY <1>1, <1>2, <1>3, ConstantTypes
<1> QED BY <1>1, <1>3, <1>4, <1>5, ChainStep DEF Mine

LEMMA Reorganised ==
  ASSUME TypeOK, Reorganise
  PROVE  /\ chain' \in Seq(Versions) /\ Len(chain') = Len(chain)
         /\ reorgs' \in Versions
         /\ \A b \in 1 .. Len(chain) - Confirmations : chain'[b] = chain[b]
<1>1. chain \in Seq(Versions) /\ reorgs \in Nat /\ Len(chain) \in Nat
  BY DEF TypeOK, Versions
<1>2. reorgs' = reorgs + 1 /\ reorgs + 1 \in Versions
  BY <1>1, ConstantTypes DEF Reorganise, Versions
<1>3. PICK depth \in 1 .. MaxReorgDepth :
        chain' = [b \in 1 .. Len(chain) |->
            IF b > Len(chain) - depth THEN reorgs + 1 ELSE chain[b]]
  BY DEF Reorganise
<1>4. \A b \in 1 .. Len(chain) : chain[b] \in Versions
  BY <1>1
<1>5. chain' \in [1 .. Len(chain) -> Versions]
  BY <1>2, <1>3, <1>4
<1>6. chain' \in Seq(Versions) /\ Len(chain') = Len(chain)
  BY <1>1, <1>5
<1>7. \A b \in 1 .. Len(chain) - Confirmations : chain'[b] = chain[b]
  BY <1>1, <1>3, ConstantTypes
<1> QED BY <1>2, <1>6, <1>7

LEMMA ReorganiseStep ==
  ASSUME SyncInv, Reorganise
  PROVE  SyncInv'
<1>1. TypeOK /\ Len(chain) \in Nat /\ Len(chain) <= MaxBlock
  BY DEF SyncInv, TypeOK
<1>2. /\ chain' \in Seq(Versions) /\ Len(chain') = Len(chain)
      /\ reorgs' \in Versions
      /\ \A b \in 1 .. Len(chain) - Confirmations : chain'[b] = chain[b]
  BY <1>1, Reorganised
<1>3. Len(chain') <= MaxBlock /\ Len(chain) <= Len(chain')
  BY <1>1, <1>2
<1>4. UNCHANGED << view_vars, token_block, pass_vars, checkpoint_vars, faults >>
  BY DEF Reorganise
<1> QED BY <1>2, <1>3, <1>4, ChainStep

(* The bounds and the next block of the pass stay.                         *)
LEMMA PassFrame ==
  ASSUME UNCHANGED << pass, next >>
  PROVE  /\ Remaining' = Remaining /\ Current' = Current
         /\ Reached' = Reached /\ Settled' = Settled /\ Deepest' = Deepest
         /\ \A b : ToConfirm(b)' = ToConfirm(b) /\ ToStore(b)' = ToStore(b)
BY DEF Remaining, Current, ToConfirm, ToStore, Reached, Settled, Deepest

LEMMA ViewsFrame ==
  ASSUME ViewsInv, PassInv,
         UNCHANGED << chain, stored, confirmed, pc, pass, next >>
  PROVE  ViewsInv' /\ PassInv'
BY PassFrame DEF ViewsInv, PassInv, ToConfirm

LEMMA RegisterStep ==
  ASSUME SyncInv, NEW t \in Tokens, RegisterToken(t)
  PROVE  SyncInv'
<1> USE DEF chain_vars, view_vars, pass_vars, checkpoint_vars
<1>1. TypeOK /\ ViewsInv /\ PassInv
  BY DEF SyncInv
<1>2. UNCHANGED << chain, reorgs, stored, confirmed, basis, ledger, applied,
                   pc, pass, next, fetched, task, commitments, faults >>
  BY DEF RegisterToken
<1>3. PICK l, c \in Nat : /\ confirmed = 1 .. c /\ latest_block = l
                          /\ c <= l /\ l <= Len(chain)
  BY <1>1, ViewsAre
<1>4. latest_block \in Blocks
  BY <1>1, <1>3, ConstantTypes DEF TypeOK, Blocks
<1>5. /\ token_block' = [token_block EXCEPT ![t] = latest_block]
      /\ token_block[t] = None /\ (QuietRegistration => pc = "idle")
      /\ token_block \in [Tokens -> Blocks \cup {None}]
  BY DEF RegisterToken, SyncInv, TypeOK
<1>6. token_block' \in [Tokens -> Blocks \cup {None}]
  BY <1>4, <1>5
<1>7. TypeOK'
  BY <1>1, <1>2, <1>6 DEF TypeOK
<1>8. ViewsInv' /\ PassInv'
  BY <1>1, <1>2, ViewsFrame
<1>9. \A b \in Blocks : TokensOf(b) \subseteq TokensOf(b)'
  BY <1>5 DEF TokensOf
<1>10. FetchedInv'
  BY <1>2, <1>5, PassFrame DEF SyncInv, FetchedInv
<1>11. TokensInv'
  BY <1>2, <1>9 DEF SyncInv, TokensInv
<1>12. EventsExactlyOnce' /\ ConfirmedMatchesChain' /\ CommitmentsInv'
  BY <1>2 DEF SyncInv, EventsExactlyOnce, ConfirmedMatchesChain,
     CommitmentsInv
<1>13. QuietRegistration => LedgerStatesComplete'
  <2>1. ASSUME QuietRegistration, NEW b \in confirmed, NEW u \in Tokens,
               token_block'[u] # None, token_block'[u] < b
        PROVE  ledger[b][u] # None
    <3>1. b \in Nat /\ b <= latest_block
      BY <1>3, <2>1
    <3>2. u # t
      BY <1>3, <1>5, <2>1, <3>1
    <3>3. token_block'[u] = token_block[u]
      BY <1>5, <3>2
    <3> QED BY <2>1, <3>3 DEF SyncInv, LedgerStatesComplete
  <2> QED BY <1>2, <2>1 DEF LedgerStatesComplete
<1>14. TaskInv'
  BY <1>2 DEF SyncInv, TaskInv, confirmed_block
<1> QED BY <1>7, <1>8, <1>10, <1>11, <1>12, <1>13, <1>14 DEF SyncInv

-----------------------------------------------------------------------------
(* The workers                                                             *)

LEMMA RemainingIs ==
  ASSUME TypeOK, PassInv, pc # "idle", NEW b \in Remaining
  PROVE  /\ b \in Blocks /\ b \in 1 .. Len(chain) /\ next <= b
         /\ chain[b] \in Versions
<1>1. /\ next \in Nat /\ pass.update_until \in Nat
      /\ pass.running_until \in Nat /\ pass.confirm_from \in Nat
      /\ Len(chain) \in Nat /\ Len(chain) <= MaxBlock
      /\ chain \in Seq(Versions)
  BY DEF TypeOK
<1>2. b \in Nat /\ next <= b /\ b < pass.update_until
  BY <1>1 DEF Remaining
<1>3. b \in 1 .. Len(chain)
  BY <1>1, <1>2 DEF PassInv
<1> QED BY <1>1, <1>2, <1>3, ConstantTypes DEF Blocks

(* What the answers of the workers change is fetched.                      *)
LEMMA FetchFrame ==
  ASSUME SyncInv, UNCHANGED << chain, reorgs, stored, confirmed, basis, ledger,
           applied, token_block, pc, pass, next, task, commitments >>,
         faults' \in 0 .. MaxFaults,
         fetched' \in [Blocks -> [logs : Versions \cup {None},
                         state : Versions \cup {None}, ledgers : Rows]],
         FetchedInv', TokensInv'
  PROVE  SyncInv'
<1>1. TypeOK'
  BY DEF SyncInv, TypeOK
<1>2. ViewsInv' /\ PassInv'
  BY ViewsFrame DEF SyncInv
<1>3. EventsExactlyOnce' /\ ConfirmedMatchesChain' /\ CommitmentsInv'
  BY DEF SyncInv, EventsExactlyOnce, ConfirmedMatchesChain, CommitmentsInv
<1>4. QuietRegistration => LedgerStatesComplete'
  BY DEF SyncInv, LedgerStatesComplete
<1>5. TaskInv'
  BY DEF SyncInv, TaskInv, confirmed_block
<1> QED BY <1>1, <1>2, <1>3, <1>4, <1>5 DEF SyncInv

LEMMA FetchLogsStep ==
  ASSUME SyncInv, NEW b \in Blocks, FetchLogs(b)
  PROVE  SyncInv'
<1> USE DEF chain_vars, view_vars, pass_vars, checkpoint_vars
<1> DEFINE Result == [logs : Versions \cup {None},
                      state : Versions \cup {None}, ledgers : Rows]
<1>1. /\ TypeOK /\ PassInv /\ fetched \in [Blocks -> Result]
      /\ faults \in 0 .. MaxFaults
  BY DEF SyncInv, TypeOK
<1>2. UNCHANGED << chain, reorgs, stored, confirmed, basis, ledger, applied,
             token_block, pc, pass, next, task, commitments, faults >>
  BY DEF FetchLogs
<1>3. /\ pc # "idle" /\ ToConfirm(b) /\ fetched[b].logs = None
      /\ chain[b] \in Versions
  BY <1>1, RemainingIs DEF FetchLogs
<1>4. fetched' = [fetched EXCEPT ![b].logs = chain[b]]
  BY DEF FetchLogs
<1>5. /\ \A x \in Blocks : x # b => fetched'[x] = fetched[x]
      /\ fetched'[b] = [fetched[b] EXCEPT !.logs = chain[b]]
      /\ fetched[b] \in Result
  BY <1>1, <1>4
<1>6. /\ fetched'[b] \in Result /\ fetched'[b].logs = chain[b]
      /\ fetched'[b].state = fetched[b].state
      /\ fetched'[b].ledgers = fetched[b].ledgers
  BY <1>3, <1>5
<1>7. fetched' \in [Blocks -> Result]
  BY <1>1, <1>4, <1>6
<1>8. FetchedInv'
  <2>1. fetched[b].state = None
    BY <1>3, ConstantTypes DEF SyncInv, FetchedInv
  <2>2. ASSUME NEW x \in Blocks, ToConfirm(x)
        PROVE  /\ fetched'[x].logs \in {None, chain[x]}
               /\ fetched'[x].state # None =>
                    /\ fetched'[x].logs = chain[x]
                    /\ fetched'[x].state = chain[x]
                    /\ \A t \in Tokens :
                         fetched'[x].ledgers[t] \in {None, Unread, chain[x]}
                    /\ x >= next /\ x < pass.running_from =>
                         \A t \in Tokens :
                           ledger[x][t] # None => fetched'[x].ledgers[t] # None
                    /\ QuietRegistration =>
                         \A t \in TokensOf(x) : fetched'[x].ledgers[t] # None
    <3>1. CASE x = b
      BY <1>6, <2>1, <3>1
    <3>2. CASE x # b
      BY <1>3, <1>5, <2>2, <3>2 DEF SyncInv, FetchedInv
    <3> QED BY <3>1, <3>2
  <2> QED BY <1>2, <2>2 DEF FetchedInv, ToConfirm, TokensOf
<1>9. TokensInv'
  <2>1. \A x \in Blocks : fetched'[x].ledgers = fetched[x].ledgers
    BY <1>5, <1>6
  <2> QED BY <1>2, <2>1 DEF SyncInv, TokensInv, TokensOf
<1> QED BY <1>1, <1>2, <1>7, <1>8, <1>9, FetchFrame

LEMMA FetchStateStep ==
  ASSUME SyncInv, NEW b \in Blocks, FetchState(b)
  PROVE  SyncInv'
<1> USE DEF chain_vars, view_vars, pass_vars, checkpoint_vars
<1> DEFINE Result == [logs : Versions \cup {None},
                      state : Versions \cup {None}, ledgers : Rows]
<1>1. /\ TypeOK /\ PassInv /\ fetched \in [Blocks -> Result]
      /\ faults \in 0 .. MaxFaults
  BY DEF SyncInv, TypeOK
<1>2. UNCHANGED << chain, reorgs, stored, confirmed, basis, ledger, applied,
             token_block, pc, pass, next, task, commitments >>
  BY DEF FetchState
<1>3. /\ pc # "idle" /\ b \in Remaining /\ chain[b] \in Versions
      /\ ToConfirm(b) => fetched[b].logs # None
  BY <1>1, RemainingIs DEF FetchState
<1>4. PICK failing \in SUBSET TokensOf(b) :
        /\ Cardinality(failing) <= MaxFaults - faults
        /\ faults' = faults + Cardinality(failing)
        /\ fetched' = [fetched EXCEPT
            ![b].state = chain[b],
            ![b].ledgers = [t \in Tokens |->
               CASE t \in failing -> Unread
                 [] t \in TokensOf(b) \ failing -> chain[b]
                 [] t \notin TokensOf(b) -> None]]
  BY DEF FetchState
<1> DEFINE answers == [t \in Tokens |->
               CASE t \in failing -> Unread
                 [] t \in TokensOf(b) \ failing -> chain[b]
                 [] t \notin TokensOf(b) -> None]
<1>5. Cardinality(failing) \in Nat
  <2>1. failing \in SUBSET Tokens
    BY DEF TokensOf
  <2>2. IsFiniteSet(failing)
    BY <2>1, FS_Subset, ChainSyncAssumption
  <2> QED BY <2>2, FS_CardinalityType
<1>6. faults' \in 0 .. MaxFaults
  BY <1>1, <1>4, <1>5, ConstantTypes
<1>7. \A t \in Tokens :
        /\ answers[t] \in {None, Unread, chain[b]}
        /\ t \in TokensOf(b) => answers[t] # None
        /\ t \notin TokensOf(b) => answers[t] = None
  <2>1. ASSUME NEW t \in Tokens
        PROVE  /\ t \in failing => answers[t] = Unread
               /\ t \in TokensOf(b) \ failing => answers[t] = chain[b]
               /\ t \notin TokensOf(b) => answers[t] = None
    BY <2>1
  <2>2. chain[b] # None
    BY <1>3, ConstantTypes
  <2> HIDE DEF answers
  <2> QED BY <2>1, <2>2, ConstantTypes
<1>8. answers \in Rows
  BY <1>3, <1>7 DEF Rows
<1> HIDE DEF answers
<1>9. fetched' = [fetched EXCEPT ![b].state = chain[b], ![b].ledgers = answers]
  BY <1>4, Zenon DEF answers
<1>10. /\ \A x \in Blocks : x # b => fetched'[x] = fetched[x]
       /\ fetched'[b].logs = fetched[b].logs
       /\ fetched'[b].state = chain[b]
       /\ fetched'[b].ledgers = answers
       /\ fetched'[b] \in Result
  BY <1>1, <1>3, <1>8, <1>9
<1>11. fetched' \in [Blocks -> Result]
  <2>1. fetched' = [x \in Blocks |-> fetched'[x]]
    BY <1>1, <1>9
  <2>2. \A x \in Blocks : fetched'[x] \in Result
    BY <1>1, <1>10
  <2> HIDE DEF Result
  <2> QED BY <2>1, <2>2
<1>12. FetchedInv'
  <2>1. ASSUME NEW x \in Blocks, ToConfirm(x)
        PROVE  /\ fetched'[x].logs \in {None, chain[x]}
               /\ fetched'[x].state # None =>
                    /\ fetched'[x].logs = chain[x]
                    /\ fetched'[x].state = chain[x]
                    /\ \A t \in Tokens :
                         fetched'[x].ledgers[t] \in {None, Unread, chain[x]}
                    /\ x >= next /\ x < pass.running_from =>
                         \A t \in Tokens :
                           ledger[x][t] # None => fetched'[x].ledgers[t] # None
                    /\ QuietRegistration =>
                         \A t \in TokensOf(x) : fetched'[x].ledgers[t] # None
    <3>1. CASE x = b
      <4>1. fetched[b].logs = chain[b]
        BY <1>3, <2>1, <3>1 DEF SyncInv, FetchedInv
      <4>2. \A t \in Tokens : ledger[b][t] # None => t \in TokensOf(b)
        BY DEF SyncInv, TokensInv
      <4>3. TokensOf(b) \subseteq Tokens
        BY DEF TokensOf
      <4> QED BY <1>7, <1>10, <3>1, <4>1, <4>2, <4>3
    <3>2. CASE x # b
      BY <1>3, <1>10, <2>1, <3>2 DEF SyncInv, FetchedInv
    <3> QED BY <3>1, <3>2
  <2> QED BY <1>2, <2>1 DEF FetchedInv, ToConfirm, TokensOf
<1>13. TokensInv'
  <2>1. ASSUME NEW x \in Blocks, NEW t \in Tokens
        PROVE  /\ ledger[x][t] # None => t \in TokensOf(x)
               /\ fetched'[x].ledgers[t] # None => t \in TokensOf(x)
    BY <1>3, <1>7, <1>10 DEF SyncInv, TokensInv
  <2> QED BY <1>2, <2>1 DEF TokensInv, TokensOf
<1> QED BY <1>1, <1>2, <1>6, <1>11, <1>12, <1>13, FetchFrame

-----------------------------------------------------------------------------
(* The synchroniser                                                        *)

(* A view that stands still while a pass begins or ends.                   *)
LEMMA LeaveStep ==
  ASSUME SyncInv, LeavePass, faults' \in 0 .. MaxFaults
  PROVE  SyncInv'
<1> USE DEF chain_vars, view_vars, pass_vars, checkpoint_vars
<1>1. TypeOK /\ ViewsInv /\ PassInv
  BY DEF SyncInv
<1>2. /\ UNCHANGED << chain, reorgs, stored, confirmed, basis, ledger, applied,
                      token_block, task, commitments >>
      /\ pc' = "idle" /\ pass' = Idle /\ next' = 0
      /\ fetched' = [b \in Blocks |-> NotFetched]
  BY DEF LeavePass
<1>3. TypeOK'
  <2>1. NotFetched \in [logs : Versions \cup {None},
                        state : Versions \cup {None}, ledgers : Rows]
    BY DEF NotFetched, Nothing, Rows
  <2>2. Idle \in [running_from : Nat, running_until : Nat, confirm_from : Nat,
                  update_until : Nat]
    BY DEF Idle
  <2> QED BY <1>1, <1>2, <2>1, <2>2 DEF TypeOK
<1>4. ViewsInv'
  <2>1. PICK l, c \in Nat :
           /\ stored = 0 .. l /\ confirmed = 1 .. c
           /\ c <= l /\ l <= Len(chain) /\ l - Confirmations <= c
           /\ (c = 0 \/ c <= Len(chain) - Confirmations)
    BY <1>1, ViewsAre
  <2> QED BY <1>2, <2>1 DEF ViewsInv
<1>5. PassInv' /\ FetchedInv' /\ TokensInv'
  BY <1>2 DEF SyncInv, PassInv, FetchedInv, TokensInv, TokensOf
<1>6. EventsExactlyOnce' /\ ConfirmedMatchesChain' /\ CommitmentsInv'
  BY <1>2 DEF SyncInv, EventsExactlyOnce, ConfirmedMatchesChain,
     CommitmentsInv
<1>7. QuietRegistration => LedgerStatesComplete'
  BY <1>2 DEF SyncInv, LedgerStatesComplete
<1>8. TaskInv'
  BY <1>2 DEF SyncInv, TaskInv, confirmed_block
<1> QED BY <1>3, <1>4, <1>5, <1>6, <1>7, <1>8 DEF SyncInv

LEMMA BeginPassStep ==
  ASSUME SyncInv, BeginPass
  PROVE  SyncInv'
<1> USE DEF chain_vars, view_vars, pass_vars, checkpoint_vars
<1>1. TypeOK /\ ViewsInv /\ PassInv
  BY DEF SyncInv
<1>2. PICK l, c \in Nat :
           /\ stored = 0 .. l /\ confirmed = 1 .. c
           /\ latest_block = l /\ confirmed_block = c
           /\ c <= l /\ l <= Len(chain) /\ l - Confirmations <= c
           /\ (c = 0 \/ c <= Len(chain) - Confirmations)
  BY <1>1, ViewsAre
<1>3. Len(chain) \in Nat /\ l < Len(chain)
  BY <1>1, <1>2 DEF TypeOK, BeginPass
<1>4. UpdateFrom(l + 1, c + 1) = c + 1
  BY <1>2 DEF UpdateFrom, Lesser
<1> DEFINE until == Lesser(c + 1 + Window, Len(chain) + 1)
<1>5. until \in Nat /\ c + 1 <= until /\ until <= Len(chain) + 1
  BY <1>2, <1>3, ConstantTypes DEF Lesser
<1>6. /\ pass' = [running_from |-> l + 1, running_until |-> Len(chain),
                  confirm_from |-> c + 1, update_until |-> until]
      /\ next' = c + 1 /\ pc' = "take"
      /\ fetched' = [b \in Blocks |-> NotFetched]
      /\ UNCHANGED << chain, reorgs, stored, confirmed, basis, ledger, applied,
                      token_block, task, commitments, faults >>
  BY <1>2, <1>4 DEF BeginPass
<1> HIDE DEF until
<1>7. TypeOK'
  <2>1. NotFetched \in [logs : Versions \cup {None},
                        state : Versions \cup {None}, ledgers : Rows]
    BY DEF NotFetched, Nothing, Rows
  <2>2. pass' \in [running_from : Nat, running_until : Nat,
                   confirm_from : Nat, update_until : Nat]
    BY <1>3, <1>5, <1>6
  <2> QED BY <1>1, <1>6, <2>1, <2>2 DEF TypeOK
<1>8. PassInv'
  BY <1>2, <1>3, <1>5, <1>6, ConstantTypes DEF PassInv, Deepest
<1>9. ViewsInv'
  <2>1. Reached' = l
    BY <1>2, <1>6 DEF Reached
  <2>2. Settled' = c
    BY <1>2, <1>3, <1>6, ConstantTypes DEF Settled, Deepest
  <2> QED BY <1>2, <1>6, <2>1, <2>2 DEF ViewsInv
<1>10. /\ \A b \in Blocks : /\ fetched'[b].logs = None
                            /\ fetched'[b].state = None
       /\ \A b \in Blocks, t \in Tokens : fetched'[b].ledgers[t] = None
  BY <1>6 DEF NotFetched, Nothing
<1>11. FetchedInv' /\ TokensInv'
  <2>1. FetchedInv'
    BY <1>10 DEF FetchedInv
  <2>2. TokensInv'
    BY <1>6, <1>10 DEF SyncInv, TokensInv, TokensOf
  <2> QED BY <2>1, <2>2
<1>12. EventsExactlyOnce' /\ ConfirmedMatchesChain' /\ CommitmentsInv'
  BY <1>6 DEF SyncInv, EventsExactlyOnce, ConfirmedMatchesChain,
     CommitmentsInv
<1>13. QuietRegistration => LedgerStatesComplete'
  BY <1>6 DEF SyncInv, LedgerStatesComplete
<1>14. TaskInv'
  BY <1>6 DEF SyncInv, TaskInv, confirmed_block
<1> QED BY <1>7, <1>8, <1>9, <1>11, <1>12, <1>13, <1>14 DEF SyncInv

LEMMA EndPassStep ==
  ASSUME SyncInv, EndPass \/ AbandonPass
  PROVE  SyncInv'
<1>1. faults \in 0 .. MaxFaults
  BY DEF SyncInv, TypeOK
<1>2. LeavePass /\ faults' \in 0 .. MaxFaults
  BY <1>1, ConstantTypes DEF EndPass, AbandonPass
<1> QED BY <1>2, LeaveStep

(* The block a pass is at is not confirmed yet.                            *)
LEMMA CurrentIsNew ==
  ASSUME TypeOK, ViewsInv, PassInv, pc # "idle", Remaining # {}
  PROVE  /\ Current \notin confirmed
         /\ ToConfirm(Current) => Settled = Current - 1
<1>1. /\ next \in Nat /\ pass.confirm_from \in Nat
      /\ pass.running_until \in Nat /\ Deepest \in Int
  BY ConstantTypes DEF TypeOK, Deepest
<1>2. /\ pass.confirm_from <= next /\ next <= Current /\ Current \in Nat
      /\ confirmed = 1 .. Settled
  BY CurrentIs DEF PassInv, ViewsInv, Blocks
<1>3. Settled <= next - 1 /\ Settled \in Int
  BY <1>1, <1>2 DEF Settled
<1>4. ToConfirm(Current) => next - 1 <= Deepest /\ Current = next
  BY <1>1, <1>2, CurrentIs, ConstantTypes DEF ToConfirm, Deepest
<1> QED BY <1>1, <1>2, <1>3, <1>4 DEF Settled

LEMMA TakeRunningStep ==
  ASSUME SyncInv, TakeRunning
  PROVE  SyncInv'
<1> USE DEF chain_vars, view_vars, pass_vars, checkpoint_vars
<1>1. /\ TypeOK /\ ViewsInv /\ PassInv
      /\ basis \in [Blocks -> Versions \cup {None}]
  BY DEF SyncInv, TypeOK
<1>2. /\ pc = "take" /\ pc' = "store" /\ Remaining # {}
      /\ ~ ToConfirm(Current)
      /\ fetched[Current].state # None
      /\ stored' = stored \cup {Current}
      /\ basis' = [basis EXCEPT ![Current] = fetched[Current].state]
      /\ UNCHANGED << chain, reorgs, confirmed, ledger, applied, token_block,
                      pass, next, fetched, task, commitments, faults >>
  BY DEF TakeRunning
<1>3. /\ Current \in Blocks /\ Current = Reached + 1
      /\ Current \notin confirmed /\ stored = 0 .. Reached
      /\ Reached \in Nat
  <2>1. Current \in Blocks /\ Current = Reached + 1 /\ 1 <= Current
    BY <1>1, <1>2, CurrentIs
  <2>2. Reached \in Int
    BY <1>1 DEF TypeOK, Reached
  <2>3. Current \notin confirmed
    BY <1>1, <1>2, CurrentIsNew
  <2> QED BY <1>1, <1>2, <2>1, <2>2, <2>3 DEF ViewsInv, Blocks
<1>4. TypeOK'
  <2>1. fetched[Current].state \in Versions \cup {None}
    BY <1>1, <1>3 DEF TypeOK
  <2>2. basis' \in [Blocks -> Versions \cup {None}]
    BY <1>1, <1>2, <1>3, <2>1
  <2> QED BY <1>1, <1>2, <1>3, <2>2 DEF TypeOK
<1>5. PassInv'
  BY <1>1, <1>2, PassFrame DEF PassInv, ToConfirm
<1>6. ViewsInv'
  <2>1. stored' = 0 .. Current
    BY <1>2, <1>3
  <2> QED BY <1>1, <1>2, <2>1, PassFrame DEF ViewsInv
<1>7. FetchedInv' /\ TokensInv'
  BY <1>2, PassFrame DEF SyncInv, FetchedInv, TokensInv, TokensOf, ToConfirm
<1>8. EventsExactlyOnce' /\ CommitmentsInv'
  BY <1>2 DEF SyncInv, EventsExactlyOnce, CommitmentsInv
<1>9. ConfirmedMatchesChain'
  <2>1. \A b \in confirmed : basis'[b] = basis[b]
    BY <1>1, <1>2, <1>3, ConfirmedIsFinal
  <2> QED BY <1>2, <2>1 DEF SyncInv, ConfirmedMatchesChain
<1>10. QuietRegistration => LedgerStatesComplete'
  BY <1>2 DEF SyncInv, LedgerStatesComplete
<1>11. TaskInv'
  BY <1>2 DEF SyncInv, TaskInv, confirmed_block
<1> QED BY <1>4, <1>5, <1>6, <1>7, <1>8, <1>9, <1>10, <1>11 DEF SyncInv

LEMMA SaveStep ==
  ASSUME SyncInv, NEW t \in Tokens, SaveLedgerState(t)
  PROVE  SyncInv'
<1> USE DEF chain_vars, view_vars, pass_vars, checkpoint_vars
<1>1. /\ TypeOK /\ ViewsInv /\ PassInv
      /\ ledger \in [Blocks -> Rows]
  BY DEF SyncInv, TypeOK
<1>2. /\ pc = "store" /\ t \in Unsaved
      /\ ledger' = [ledger EXCEPT ![Current][t] = fetched[Current].ledgers[t]]
      /\ UNCHANGED << chain, reorgs, stored, confirmed, basis, applied,
                      token_block, pc, pass, next, fetched, task, commitments,
                      faults >>
  BY DEF SaveLedgerState
<1>3. /\ Current \in Blocks /\ Current \notin confirmed
      /\ Current >= pass.running_from
  <2>1. Remaining # {} /\ ~ ToConfirm(Current)
    BY <1>1, <1>2 DEF PassInv
  <2> QED BY <1>1, <1>2, <2>1, CurrentIs, CurrentIsNew
<1>4. fetched[Current].ledgers \in Rows
  BY <1>1, <1>3 DEF TypeOK
<1>5. /\ \A b \in Blocks : b # Current => ledger'[b] = ledger[b]
      /\ ledger'[Current] = [ledger[Current] EXCEPT
                               ![t] = fetched[Current].ledgers[t]]
      /\ ledger' \in [Blocks -> Rows]
  <2>1. [ledger[Current] EXCEPT ![t] = fetched[Current].ledgers[t]] \in Rows
    BY <1>1, <1>3, <1>4 DEF Rows
  <2> QED BY <1>1, <1>2, <1>3, <2>1
<1>6. TypeOK'
  BY <1>1, <1>2, <1>5 DEF TypeOK
<1>7. ViewsInv' /\ PassInv'
  BY <1>1, <1>2, ViewsFrame
<1>8. \A b \in Blocks : b < pass.running_from => ledger'[b] = ledger[b]
  <2>1. Current \in Int /\ pass.running_from \in Int /\ \A b \in Blocks : b \in Int
    BY <1>1, <1>3 DEF TypeOK, Blocks
  <2> QED BY <1>3, <1>5, <2>1
<1>9. FetchedInv'
  BY <1>2, <1>8, PassFrame DEF SyncInv, FetchedInv, TokensOf, ToConfirm
<1>10. TokensInv'
  <2>1. ASSUME NEW b \in Blocks, NEW u \in Tokens, ledger'[b][u] # None
        PROVE  u \in TokensOf(b)
    <3>1. CASE b # Current
      BY <1>5, <2>1, <3>1 DEF SyncInv, TokensInv
    <3>2. CASE b = Current /\ u # t
      <4>1. ledger'[b][u] = ledger[b][u]
        BY <1>1, <1>3, <1>5, <3>2 DEF Rows
      <4> QED BY <2>1, <4>1 DEF SyncInv, TokensInv
    <3>3. CASE b = Current /\ u = t
      <4>1. fetched[b].ledgers[t] # None
        BY <1>2, <3>3 DEF Unsaved
      <4> QED BY <1>2, <3>3, <4>1 DEF SyncInv, TokensInv
    <3> QED BY <3>1, <3>2, <3>3
  <2> QED BY <1>2, <2>1 DEF SyncInv, TokensInv, TokensOf
<1>11. EventsExactlyOnce' /\ CommitmentsInv'
  BY <1>2 DEF SyncInv, EventsExactlyOnce, CommitmentsInv
<1>12. \A b \in confirmed : ledger'[b] = ledger[b]
  BY <1>1, <1>3, <1>5, ConfirmedIsFinal
<1>13. ConfirmedMatchesChain'
  BY <1>2, <1>12 DEF SyncInv, ConfirmedMatchesChain
<1>14. QuietRegistration => LedgerStatesComplete'
  BY <1>2, <1>12 DEF SyncInv, LedgerStatesComplete
<1>15. TaskInv'
  BY <1>2 DEF SyncInv, TaskInv, confirmed_block
<1> QED BY <1>6, <1>7, <1>9, <1>10, <1>11, <1>13, <1>14, <1>15 DEF SyncInv

LEMMA StoredStep ==
  ASSUME SyncInv, RunningStored
  PROVE  SyncInv'
<1> USE DEF chain_vars, view_vars, pass_vars, checkpoint_vars
<1>1. /\ TypeOK /\ ViewsInv /\ PassInv
  BY DEF SyncInv
<1>2. /\ pc = "store" /\ pc' = "take" /\ next' = Current + 1
      /\ UNCHANGED << chain, reorgs, stored, confirmed, basis, ledger, applied,
                      token_block, pass, fetched, task, commitments, faults >>
  BY DEF RunningStored
<1>3. /\ Remaining # {} /\ ~ ToConfirm(Current)
      /\ stored = 0 .. Current /\ confirmed = 1 .. Settled
  BY <1>1, <1>2 DEF PassInv, ViewsInv
<1>4. /\ next <= Current /\ Current < pass.update_until
      /\ Current >= pass.running_from
      /\ next - 1 >= Deepest /\ Current > Deepest /\ Current \in Nat
  BY <1>1, <1>2, <1>3, CurrentIs DEF Blocks
<1>5. /\ next \in Nat /\ pass.running_from \in Nat /\ pass.confirm_from \in Nat
      /\ pass.running_until \in Nat /\ pass.update_until \in Nat
      /\ Deepest \in Int /\ pass.confirm_from <= next
  BY <1>1, <1>2, ConstantTypes DEF TypeOK, Deepest, PassInv
<1> DEFINE cur == Current
<1>6. cur \in Nat /\ next' = cur + 1
  BY <1>2, <1>4
<1>7. Reached' = cur
  BY <1>2, <1>4, <1>5, <1>6 DEF Reached
<1>8. Settled' = Settled
  <2>1. Deepest' = Deepest
    BY <1>2 DEF Deepest
  <2>2. Settled' = IF cur <= Deepest THEN cur
                   ELSE IF pass.confirm_from - 1 <= Deepest THEN Deepest
                   ELSE pass.confirm_from - 1
    BY <1>2, <1>6, <2>1 DEF Settled
  <2> QED BY <1>4, <1>5, <1>6, <2>2 DEF Settled
<1>9. TypeOK'
  BY <1>1, <1>2, <1>6 DEF TypeOK
<1>10. PassInv'
  BY <1>1, <1>2, <1>4, <1>5 DEF PassInv, Deepest
<1>11. ViewsInv'
  BY <1>2, <1>3, <1>7, <1>8 DEF ViewsInv
<1>12. FetchedInv'
  <2>1. \A b \in Blocks : b >= next' => b >= next
    BY <1>4, <1>5, <1>6 DEF Blocks
  <2> QED BY <1>2, <2>1 DEF SyncInv, FetchedInv, TokensOf, ToConfirm
<1>13. TokensInv'
  BY <1>2 DEF SyncInv, TokensInv, TokensOf
<1>14. EventsExactlyOnce' /\ ConfirmedMatchesChain' /\ CommitmentsInv'
  BY <1>2 DEF SyncInv, EventsExactlyOnce, ConfirmedMatchesChain,
     CommitmentsInv
<1>15. QuietRegistration => LedgerStatesComplete'
  BY <1>2 DEF SyncInv, LedgerStatesComplete
<1>16. TaskInv'
  BY <1>2 DEF SyncInv, TaskInv, confirmed_block
<1> QED BY <1>9, <1>10, <1>11, <1>12, <1>13, <1>14, <1>15, <1>16 DEF SyncInv

(* The rows of a block that is confirmed, before the confirmation.         *)
RowsOf(b) == IF ToStore(b) THEN fetched[b].ledgers ELSE ledger[b]

(* Every token with a row has an answer.                                   *)
LEMMA AnswersCoverRows ==
  ASSUME SyncInv, pc = "take", Remaining # {}, ToConfirm(Current),
         fetched[Current].state # None
  PROVE  \A t \in Tokens : RowsOf(Current)[t] # None
                             => fetched[Current].ledgers[t] # None
<1>1. TypeOK /\ ViewsInv /\ PassInv /\ FetchedInv
  BY DEF SyncInv
<1>2. /\ Current \in Blocks /\ Current >= next
      /\ Current <= pass.running_until
  BY <1>1, CurrentIs
<1>3. CASE ToStore(Current)
  BY <1>3 DEF RowsOf
<1>4. CASE ~ ToStore(Current)
  <2>1. pass.running_from \in Nat /\ Current \in Nat
    BY <1>1, <1>2 DEF TypeOK, Blocks
  <2>2. Current < pass.running_from
    BY <1>2, <1>4, <2>1 DEF ToStore
  <2> QED BY <1>1, <1>2, <1>4, <2>2 DEF RowsOf, FetchedInv
<1> QED BY <1>3, <1>4

(* ContractState.confirm accepts every block it is given.                  *)
LEMMA NeverRefused ==
  ASSUME SyncInv
  PROVE  ConfirmNeverRefuses
<1> SUFFICES ASSUME pc = "take", Remaining # {}, ToConfirm(Current),
                    fetched[Current].state # None
             PROVE  CanConfirm(Current, fetched[Current], RowsOf(Current))
  BY DEF ConfirmNeverRefuses, RowsOf
<1>1. Current \notin confirmed
  BY CurrentIsNew DEF SyncInv
<1> DEFINE R == {t \in Tokens : RowsOf(Current)[t] # None}
           A == {t \in Tokens : fetched[Current].ledgers[t] # None}
<1>2. R \in SUBSET A /\ A \in SUBSET Tokens
  BY AnswersCoverRows
<1>3. IsFiniteSet(A)
  BY <1>2, FS_Subset, ChainSyncAssumption
<1>4. Cardinality(R) <= Cardinality(A)
  BY <1>2, <1>3, FS_Subset
<1> QED BY <1>1, <1>4 DEF CanConfirm

(* What is confirmed is what the chain keeps.                              *)
LEMMA Confirmation ==
  ASSUME SyncInv, TakeConfirmed
  PROVE  /\ pc = "take" /\ Remaining # {} /\ ToConfirm(Current)
         /\ Current \in Blocks /\ Current \notin confirmed
         /\ chain[Current] \in Versions
         /\ fetched[Current].logs = chain[Current]
         /\ stored' = stored \cup {Current}
         /\ confirmed' = confirmed \cup {Current}
         /\ basis' = [basis EXCEPT ![Current] = chain[Current]]
         /\ ledger' = [ledger EXCEPT ![Current] =
                         Overwritten(RowsOf(Current), fetched[Current])]
         /\ applied' = Append(applied, << Current, chain[Current] >>)
         /\ next' = Current + 1
         /\ UNCHANGED << chain, reorgs, token_block, pc, pass, fetched, task,
                         commitments, faults >>
         /\ \A t \in Tokens :
              /\ fetched[Current].ledgers[t] \in {None, Unread, chain[Current]}
              /\ RowsOf(Current)[t] # None => fetched[Current].ledgers[t] # None
<1> USE DEF chain_vars, view_vars, pass_vars, checkpoint_vars
<1>1. /\ pc = "take" /\ Remaining # {} /\ ToConfirm(Current)
      /\ fetched[Current].state # None
      /\ UNCHANGED << chain, reorgs, token_block, task, commitments, faults >>
  BY DEF TakeConfirmed
<1>2. CanConfirm(Current, fetched[Current], RowsOf(Current))
  BY <1>1, NeverRefused DEF ConfirmNeverRefuses, RowsOf
<1>3. /\ stored' = stored \cup {Current}
      /\ confirmed' = confirmed \cup {Current}
      /\ basis' = [basis EXCEPT ![Current] = fetched[Current].state]
      /\ ledger' = [ledger EXCEPT ![Current] =
                      Overwritten(RowsOf(Current), fetched[Current])]
      /\ applied' = Append(applied, << Current, fetched[Current].logs >>)
      /\ next' = Current + 1
      /\ UNCHANGED << pc, pass, fetched >>
  BY <1>2 DEF TakeConfirmed, RowsOf
<1>4. TypeOK /\ ViewsInv /\ PassInv /\ FetchedInv
  BY DEF SyncInv
<1>5. Current \in Blocks /\ Current \in Remaining /\ Current \notin confirmed
  BY <1>1, <1>4, CurrentIs, CurrentIsNew
<1>6. chain[Current] \in Versions
  BY <1>1, <1>4, <1>5, RemainingIs
<1>7. /\ fetched[Current].logs = chain[Current]
      /\ fetched[Current].state = chain[Current]
      /\ \A t \in Tokens :
           fetched[Current].ledgers[t] \in {None, Unread, chain[Current]}
  BY <1>1, <1>4, <1>5 DEF FetchedInv
<1>8. \A t \in Tokens :
        RowsOf(Current)[t] # None => fetched[Current].ledgers[t] # None
  BY <1>1, AnswersCoverRows
<1> QED BY <1>1, <1>3, <1>5, <1>6, <1>7, <1>8

LEMMA TakeConfirmedStep ==
  ASSUME SyncInv, TakeConfirmed
  PROVE  SyncInv'
<1>1. /\ TypeOK /\ ViewsInv /\ PassInv
      /\ basis \in [Blocks -> Versions \cup {None}]
      /\ ledger \in [Blocks -> Rows] /\ applied \in Seq(Blocks \X Versions)
  BY DEF SyncInv, TypeOK
<1> DEFINE cur == Current
           row == Overwritten(RowsOf(cur), fetched[cur])
<1>2. /\ pc = "take" /\ Remaining # {} /\ ToConfirm(cur)
      /\ cur \in Blocks /\ cur \notin confirmed /\ chain[cur] \in Versions
      /\ stored' = stored \cup {cur} /\ confirmed' = confirmed \cup {cur}
      /\ basis' = [basis EXCEPT ![cur] = chain[cur]]
      /\ ledger' = [ledger EXCEPT ![cur] = row]
      /\ applied' = Append(applied, << cur, chain[cur] >>)
      /\ next' = cur + 1
      /\ UNCHANGED << chain, reorgs, token_block, pc, pass, fetched, task,
                      commitments, faults >>
      /\ \A t \in Tokens :
           /\ fetched[cur].ledgers[t] \in {None, Unread, chain[cur]}
           /\ RowsOf(cur)[t] # None => fetched[cur].ledgers[t] # None
  BY Confirmation
<1>3. \A t \in Tokens : row[t] = fetched[cur].ledgers[t]
  BY <1>2 DEF Overwritten
<1>4. row \in Rows
  BY <1>2, <1>3 DEF Overwritten, Rows
<1>5. /\ cur = next /\ cur \in Nat /\ cur < pass.update_until /\ 1 <= cur
      /\ confirmed = 1 .. (cur - 1) /\ stored = 0 .. Reached
  BY <1>1, <1>2, CurrentIs, CurrentIsNew DEF ViewsInv, Blocks
<1>6. /\ pass.running_from \in Nat /\ pass.confirm_from \in Nat
      /\ pass.running_until \in Nat /\ pass.update_until \in Nat
      /\ pass.confirm_from <= cur /\ cur <= Deepest /\ Deepest \in Int
  BY <1>1, <1>2, ConstantTypes DEF TypeOK, ToConfirm, Deepest
<1> HIDE DEF cur, row
<1>7. /\ \A b \in Blocks : b # cur => /\ ledger'[b] = ledger[b]
                                      /\ basis'[b] = basis[b]
      /\ ledger'[cur] = row /\ basis'[cur] = chain[cur]
      /\ ledger' \in [Blocks -> Rows]
      /\ basis' \in [Blocks -> Versions \cup {None}]
  BY <1>1, <1>2, <1>4
<1>8. TypeOK'
  <2>1. applied' \in Seq(Blocks \X Versions)
    BY <1>1, <1>2
  <2>2. confirmed' \subseteq Blocks /\ stored' \subseteq Blocks /\ next' \in Nat
    BY <1>1, <1>2, <1>5 DEF TypeOK
  <2> QED BY <1>1, <1>2, <1>7, <2>1, <2>2 DEF TypeOK
<1>9. PassInv'
  BY SMTT(60), <1>1, <1>2, <1>5, <1>6 DEF PassInv, Deepest
<1>10. ViewsInv'
  <2>1. Deepest' = Deepest
    BY <1>2 DEF Deepest
  <2>2. Settled' = cur
    BY <1>2, <1>5, <1>6, <2>1 DEF Settled
  <2>3. confirmed' = 1 .. cur
    BY <1>2, <1>5
  <2>4. stored' = 0 .. Reached'
    <3>1. Reached' = IF cur + 1 > pass.running_from THEN cur
                     ELSE pass.running_from - 1
      BY <1>2, <1>5 DEF Reached
    <3>2. Reached = IF cur > pass.running_from THEN cur - 1
                    ELSE pass.running_from - 1
      BY <1>5 DEF Reached
    <3>3. CASE cur >= pass.running_from
      <4>1. Reached' = cur /\ Reached = cur - 1
        BY <1>5, <1>6, <3>1, <3>2, <3>3
      <4> QED BY <1>2, <1>5, <4>1
    <3>4. CASE cur < pass.running_from
      <4>1. Reached' = Reached /\ cur \in 0 .. Reached
        BY <1>5, <1>6, <3>1, <3>2, <3>4
      <4> QED BY <1>2, <1>5, <4>1
    <3> QED BY <1>5, <1>6, <3>3, <3>4
  <2> QED BY <1>2, <2>2, <2>3, <2>4 DEF ViewsInv
<1>11. FetchedInv'
  <2>1. ASSUME NEW b \in Blocks, b >= next'
        PROVE  b >= next /\ ledger'[b] = ledger[b]
    BY <1>2, <1>5, <1>7, <2>1 DEF Blocks
  <2> QED BY <1>2, <2>1 DEF SyncInv, FetchedInv, TokensOf, ToConfirm
<1>12. TokensInv'
  <2>1. ASSUME NEW b \in Blocks, NEW t \in Tokens, ledger'[b][t] # None
        PROVE  t \in TokensOf(b)
    <3>1. CASE b # cur
      BY <1>7, <2>1, <3>1 DEF SyncInv, TokensInv
    <3>2. CASE b = cur
      BY <1>2, <1>3, <1>7, <2>1, <3>2 DEF SyncInv, TokensInv
    <3> QED BY <3>1, <3>2
  <2> QED BY <1>2, <2>1 DEF SyncInv, TokensInv, TokensOf
<1>13. EventsExactlyOnce'
  <2>1. Len(applied) \in Nat /\ confirmed = 1 .. Len(applied)
    BY <1>1 DEF SyncInv, EventsExactlyOnce
  <2>2. Len(applied) = cur - 1
    BY <1>5, <2>1
  <2>3. /\ Len(applied') = cur
        /\ applied'[cur] = << cur, chain[cur] >>
        /\ \A i \in 1 .. cur - 1 : applied'[i] = applied[i]
    BY <1>1, <1>2, <1>5, <2>2
  <2>4. confirmed' = 1 .. cur
    BY <1>2, <1>5
  <2>5. \A i \in 1 .. cur : applied'[i] = << i, chain[i] >>
    BY <1>5, <2>2, <2>3 DEF SyncInv, EventsExactlyOnce
  <2> QED BY <1>2, <2>3, <2>4, <2>5 DEF EventsExactlyOnce
<1>14. ConfirmedMatchesChain'
  <2>1. ASSUME NEW b \in confirmed'
        PROVE  /\ basis'[b] = chain[b]
               /\ \A t \in Tokens : ledger'[b][t] \in {None, Unread, chain[b]}
    <3>1. CASE b = cur
      BY <1>2, <1>3, <1>7, <3>1
    <3>2. CASE b # cur
      <4>1. b \in confirmed /\ b \in Blocks
        BY <1>1, <1>2, <2>1, <3>2, ConfirmedIsFinal
      <4> QED BY <1>7, <3>2, <4>1 DEF SyncInv, ConfirmedMatchesChain
    <3> QED BY <3>1, <3>2
  <2> QED BY <1>2, <2>1 DEF ConfirmedMatchesChain
<1>15. QuietRegistration => LedgerStatesComplete'
  <2>1. ASSUME QuietRegistration, NEW b \in confirmed', NEW t \in Tokens,
               token_block[t] # None, token_block[t] < b
        PROVE  ledger'[b][t] # None
    <3>1. CASE b = cur
      <4>1. t \in TokensOf(cur)
        BY <2>1, <3>1 DEF TokensOf
      <4>2. fetched[cur].ledgers[t] # None
        <5>1. fetched[cur].state # None
          BY DEF TakeConfirmed, cur
        <5> QED BY <1>2, <2>1, <4>1, <5>1 DEF SyncInv, FetchedInv
      <4> QED BY <1>3, <1>7, <3>1, <4>2
    <3>2. CASE b # cur
      <4>1. b \in confirmed /\ b \in Blocks
        BY <1>1, <1>2, <2>1, <3>2, ConfirmedIsFinal
      <4> QED BY <1>7, <2>1, <3>2, <4>1 DEF SyncInv, LedgerStatesComplete
    <3> QED BY <3>1, <3>2
  <2> QED BY <1>2, <2>1 DEF LedgerStatesComplete
<1>16. CommitmentsInv'
  BY <1>2 DEF SyncInv, CommitmentsInv
<1>17. TaskInv'
  <2>1. PICK c \in Nat : confirmed = 1 .. c /\ confirmed_block = c
    BY <1>1, ViewsAre
  <2>2. confirmed_block = cur - 1
    BY <1>5, <2>1
  <2>3. confirmed_block' = cur
    <3>1. confirmed' = 1 .. cur
      BY <1>2, <1>5
    <3>2. Largest(1 .. cur) = cur
      BY <1>5, LargestOf1
    <3>3. confirmed' # {}
      <4>1. cur \in confirmed'
        BY <1>2
      <4> QED BY <4>1
    <3>4. confirmed_block' = Largest(confirmed')
      BY <3>3 DEF confirmed_block
    <3>5. Largest(confirmed') = Largest(1 .. cur)
      BY <3>1
    <3> QED BY <3>2, <3>4, <3>5
  <2>4. task # None => (task - 1) * BlocksPerEon \in Int
    <3>1. task # None => task \in Int
      BY <1>1, ChainSyncAssumption DEF SyncInv, TaskInv, Eons
    <3> QED BY <3>1, ConstantTypes
  <2> QED BY <1>2, <1>5, <2>2, <2>3, <2>4 DEF SyncInv, TaskInv
<1> QED BY <1>8, <1>9, <1>10, <1>11, <1>12, <1>13, <1>14, <1>15, <1>16,
           <1>17 DEF SyncInv

-----------------------------------------------------------------------------
(* The checkpoint                                                          *)

LEMMA TimesMonotone ==
  ASSUME NEW m \in Nat, NEW n \in Nat, NEW k \in Nat, m <= n
  PROVE  m * k <= n * k /\ m * k \in Nat /\ n * k \in Nat
<1> DEFINE d == n - m
<1>1. d \in Nat /\ n = m + d
  OBVIOUS
<1> HIDE DEF d
<1>2. m * k \in Nat /\ n * k \in Nat /\ d * k \in Nat
  BY <1>1
<1>3. n * k = m * k + d * k
  BY <1>1
<1> QED BY <1>2, <1>3

(* The blocks of an eon.                                                   *)
LEMMA EonBounds ==
  ASSUME NEW b \in Nat
  PROVE  /\ eon_number(b) \in Nat /\ 1 <= eon_number(b)
         /\ (eon_number(b) - 1) * BlocksPerEon <= b
         /\ b < eon_number(b) * BlocksPerEon
         /\ b = (eon_number(b) - 1) * BlocksPerEon + sub_block(b)
         /\ sub_block(b) \in 0 .. BlocksPerEon - 1
<1> DEFINE q == b \div BlocksPerEon
           r == b % BlocksPerEon
<1>1. BlocksPerEon \in Nat \ {0}
  BY ChainSyncAssumption
<1>2. q \in Nat /\ r \in 0 .. BlocksPerEon - 1 /\ b = BlocksPerEon * q + r
  BY <1>1
<1>3. eon_number(b) = q + 1 /\ sub_block(b) = r
  BY DEF eon_number, sub_block
<1> HIDE DEF q, r
<1>4. BlocksPerEon * q = q * BlocksPerEon
  BY <1>1, <1>2
<1>5. (q + 1) * BlocksPerEon = q * BlocksPerEon + BlocksPerEon
  BY <1>1, <1>2
<1>6. q * BlocksPerEon \in Nat
  BY <1>1, <1>2
<1>7. eon_number(b) - 1 = q
  BY <1>2, <1>3
<1>8. b = q * BlocksPerEon + r
  BY <1>2, <1>4
<1>9. /\ q * BlocksPerEon <= b /\ b < q * BlocksPerEon + BlocksPerEon
      /\ eon_number(b) \in Nat /\ 1 <= eon_number(b)
  BY <1>1, <1>2, <1>3, <1>6, <1>8
<1>10. /\ (eon_number(b) - 1) * BlocksPerEon = q * BlocksPerEon
       /\ eon_number(b) * BlocksPerEon = q * BlocksPerEon + BlocksPerEon
  BY <1>3, <1>5, <1>7
<1> QED BY <1>2, <1>3, <1>8, <1>9, <1>10

LEMMA EonOfLater ==
  ASSUME NEW c \in Nat, NEW e \in Nat, 1 <= e,
         e <= eon_number(c)
  PROVE  (e - 1) * BlocksPerEon <= c /\ (e - 1) * BlocksPerEon \in Nat
<1>1. e - 1 \in Nat /\ eon_number(c) - 1 \in Nat /\ e - 1 <= eon_number(c) - 1
  BY EonBounds
<1>2. /\ (e - 1) * BlocksPerEon <= (eon_number(c) - 1) * BlocksPerEon
      /\ (e - 1) * BlocksPerEon \in Nat
      /\ (eon_number(c) - 1) * BlocksPerEon \in Nat
  BY <1>1, TimesMonotone, ConstantTypes
<1>3. (eon_number(c) - 1) * BlocksPerEon <= c
  BY EonBounds
<1> QED BY <1>2, <1>3

LEMMA EonIsMonotone ==
  ASSUME NEW b \in Nat, NEW c \in Nat, b <= c
  PROVE  eon_number(b) <= eon_number(c)
<1> SUFFICES ASSUME ~ (eon_number(b) <= eon_number(c))
             PROVE  FALSE
  OBVIOUS
<1>1. eon_number(b) \in Nat /\ eon_number(c) \in Nat
  BY EonBounds
<1>2. eon_number(c) <= eon_number(b) - 1 /\ eon_number(b) - 1 \in Nat
  BY <1>1
<1>3. /\ eon_number(c) * BlocksPerEon <= (eon_number(b) - 1) * BlocksPerEon
      /\ eon_number(c) * BlocksPerEon \in Nat
      /\ (eon_number(b) - 1) * BlocksPerEon \in Nat
  BY <1>1, <1>2, TimesMonotone, ConstantTypes
<1>4. c < eon_number(c) * BlocksPerEon /\ (eon_number(b) - 1) * BlocksPerEon <= b
  BY EonBounds
<1> QED BY <1>3, <1>4

(* The last block of an eon is the greatest of its blocks.                 *)
LEMMA LastBlockIs ==
  ASSUME NEW e \in Nat, 1 <= e, LastBlock(e) \in Nat
  PROVE  /\ eon_number(LastBlock(e)) = e
         /\ sub_block(LastBlock(e)) = BlocksPerEon - 1
         /\ \A b \in Nat : eon_number(b) = e => b <= LastBlock(e)
<1> DEFINE b == LastBlock(e)
           n == eon_number(b)
<1>1. /\ n \in Nat /\ 1 <= n /\ b = (n - 1) * BlocksPerEon + sub_block(b)
      /\ (n - 1) * BlocksPerEon <= b /\ b < n * BlocksPerEon
      /\ sub_block(b) \in 0 .. BlocksPerEon - 1
  BY EonBounds
<1>2. e * BlocksPerEon \in Nat /\ BlocksPerEon \in Nat /\ BlocksPerEon # 0
  BY ConstantTypes
<1>3. b = e * BlocksPerEon - 1
  BY DEF LastBlock
<1>4. (e - 1) * BlocksPerEon = e * BlocksPerEon - BlocksPerEon
  BY <1>2
<1> HIDE DEF b, n
<1>5. ~ (n < e)
  <2>1. ASSUME n < e PROVE n * BlocksPerEon <= (e - 1) * BlocksPerEon
    <3>1. n <= e - 1 /\ e - 1 \in Nat
      BY <1>1, <2>1
    <3> QED BY <1>1, <1>2, <3>1, TimesMonotone
  <2>2. n * BlocksPerEon \in Nat
    BY <1>1, <1>2
  <2> QED BY <1>1, <1>2, <1>3, <1>4, <2>1, <2>2
<1>6. ~ (e < n)
  <2>1. ASSUME e < n PROVE e * BlocksPerEon <= (n - 1) * BlocksPerEon
    <3>1. e <= n - 1 /\ n - 1 \in Nat
      BY <1>1, <2>1
    <3> QED BY <1>1, <1>2, <3>1, TimesMonotone
  <2>2. (n - 1) * BlocksPerEon \in Nat
    BY <1>1, <1>2
  <2> QED BY <1>1, <1>2, <1>3, <2>1, <2>2
<1>7. n = e
  BY <1>1, <1>5, <1>6
<1>8. sub_block(b) = BlocksPerEon - 1
  <2>1. b = (e - 1) * BlocksPerEon + sub_block(b)
    BY <1>1, <1>7
  <2> QED BY <1>1, <1>2, <1>3, <1>4, <2>1
<1>9. ASSUME NEW x \in Nat, eon_number(x) = e PROVE x <= b
  <2>1. x < e * BlocksPerEon
    BY <1>9, EonBounds
  <2> QED BY <1>2, <1>3, <2>1
<1> QED BY <1>7, <1>8, <1>9 DEF b, n

(* A step of the checkpoint reads the views and leaves them alone.         *)
LEMMA CheckpointFrame ==
  ASSUME SyncInv, UNCHANGED << chain_vars, view_vars, token_block, pass_vars,
                               faults >>,
         task' \in Eons \cup {None},
         commitments' \in
           [Eons -> [basis : Versions \cup {None}, funds : Rows] \cup {None}],
         CommitmentsInv', TaskInv'
  PROVE  SyncInv'
<1> USE DEF chain_vars, view_vars, pass_vars
<1>1. TypeOK'
  BY DEF SyncInv, TypeOK
<1>2. Remaining' = Remaining /\ Current' = Current
  BY DEF Remaining, Current, ToConfirm, ToStore
<1>3. PassInv'
  BY <1>2 DEF SyncInv, PassInv, ToConfirm, Deepest
<1>4. ViewsInv'
  BY <1>2 DEF SyncInv, ViewsInv, Settled, Reached, Deepest
<1>5. FetchedInv'
  BY DEF SyncInv, FetchedInv, ToConfirm, TokensOf
<1>6. TokensInv'
  BY DEF SyncInv, TokensInv, TokensOf
<1>7. EventsExactlyOnce' /\ ConfirmedMatchesChain'
  BY DEF SyncInv, EventsExactlyOnce, ConfirmedMatchesChain
<1>8. QuietRegistration => LedgerStatesComplete'
  BY DEF SyncInv, LedgerStatesComplete
<1> QED BY <1>1, <1>3, <1>4, <1>5, <1>6, <1>7, <1>8 DEF SyncInv

LEMMA BeginCheckpointStep ==
  ASSUME SyncInv, BeginCheckpoint
  PROVE  SyncInv'
<1> USE DEF chain_vars, view_vars, pass_vars
<1> DEFINE e == eon_number(latest_block)
<1>1. TypeOK /\ ViewsInv /\ PassInv
  BY DEF SyncInv
<1>2. PICK l, c \in Nat : /\ latest_block = l /\ confirmed_block = c
                          /\ l <= Len(chain)
  BY <1>1, ViewsAre
<1>3. l <= MaxBlock
  <2>1. Len(chain) \in Nat /\ Len(chain) <= MaxBlock
    BY <1>1 DEF TypeOK
  <2> QED BY <1>2, <2>1, ConstantTypes
<1>4. e \in Eons
  <2>1. e \in Nat /\ 1 <= e
    BY <1>2, EonBounds
  <2>2. e <= eon_number(MaxBlock) /\ eon_number(MaxBlock) \in Nat
    BY <1>2, <1>3, EonIsMonotone, EonBounds, ConstantTypes
  <2> HIDE DEF e
  <2> QED BY <2>1, <2>2 DEF Eons
<1>5. (e - 1) * BlocksPerEon <= confirmed_block
  <2>1. eon_number(confirmed_block) >= e
    BY DEF BeginCheckpoint, SettledEon
  <2>2. e \in Nat /\ 1 <= e /\ eon_number(c) \in Nat
    BY <1>2, EonBounds
  <2> HIDE DEF e
  <2>3. e <= eon_number(c)
    BY <1>2, <2>1, <2>2
  <2> QED BY <1>2, <2>2, <2>3, EonOfLater
<1>6. /\ task' = e
      /\ UNCHANGED << chain_vars, view_vars, token_block, pass_vars,
                      commitments, faults >>
  BY DEF BeginCheckpoint
<1> HIDE DEF e
<1>7. commitments' \in
        [Eons -> [basis : Versions \cup {None}, funds : Rows] \cup {None}]
  BY <1>1, <1>6 DEF TypeOK
<1>8. CommitmentsInv'
  BY <1>6 DEF SyncInv, CommitmentsInv
<1>9. TaskInv'
  <2>1. commitments[e] = None
    BY DEF BeginCheckpoint, e
  <2> QED BY <1>4, <1>5, <1>6, <2>1 DEF TaskInv, confirmed_block
<1> QED BY <1>4, <1>6, <1>7, <1>8, <1>9, CheckpointFrame

(* The last confirmed block of an eon, where it ends it.                   *)
LEMMA LastEonIs ==
  ASSUME TypeOK, ViewsInv, PassInv, NEW e \in Eons, e > 1, LastEonIsUsable(e)
  PROVE  /\ Largest(ConfirmedIn(e - 1)) = LastBlock(e - 1)
         /\ LastBlock(e - 1) \in confirmed
<1> DEFINE last_eon == Largest(ConfirmedIn(e - 1))
<1>1. e \in Nat
  <2>1. eon_number(MaxBlock) \in Nat
    BY EonBounds, ConstantTypes
  <2> QED BY <2>1 DEF Eons
<1>2. PICK c \in Nat : confirmed = 1 .. c
  BY ViewsAre
<1>3. ConfirmedIn(e - 1) \in SUBSET (0 .. c)
  BY <1>2 DEF ConfirmedIn
<1>4. last_eon \in ConfirmedIn(e - 1) /\ sub_block(last_eon) = BlocksPerEon - 1
  BY <1>2, <1>3, LargestIsIn DEF LastEonIsUsable
<1> HIDE DEF last_eon
<1>5. last_eon \in confirmed /\ last_eon \in Nat /\ eon_number(last_eon) = e - 1
  BY <1>2, <1>4 DEF ConfirmedIn
<1>6. e - 1 \in Nat
  BY <1>1
<1>7. last_eon = LastBlock(e - 1)
  BY <1>4, <1>5, <1>6, EndOfEon
<1> QED BY <1>5, <1>7 DEF last_eon

LEMMA CreateCheckpointStep ==
  ASSUME SyncInv, CreateCheckpoint
  PROVE  SyncInv'
<1> USE DEF chain_vars, view_vars, pass_vars
<1> DEFINE b == LastBlock(task - 1)
           taken == IF task > 1
                    THEN LET last_eon == Largest(ConfirmedIn(task - 1))
                         IN [basis |-> basis[last_eon], funds |-> ledger[last_eon]]
                    ELSE [basis |-> 0, funds |-> Nothing]
<1>1. TypeOK /\ ViewsInv /\ PassInv
  BY DEF SyncInv
<1>2. /\ task # None /\ task' = None
      /\ commitments' = [commitments EXCEPT ![task] = taken]
      /\ UNCHANGED << chain_vars, view_vars, token_block, pass_vars, faults >>
      /\ task > 1 => LastEonIsUsable(task)
  BY DEF CreateCheckpoint
<1>3. task \in Eons
  BY <1>1, <1>2 DEF TypeOK
<1>4. task > 1 => b \in confirmed /\ b \in Blocks /\ Largest(ConfirmedIn(task - 1)) = b
  BY <1>1, <1>2, <1>3, LastEonIs, ConfirmedIsFinal
<1> HIDE DEF b
<1>5. task > 1 => taken = [basis |-> basis[b], funds |-> ledger[b]]
  BY <1>4
<1>6. ~ (task > 1) => taken = [basis |-> 0, funds |-> Nothing]
  OBVIOUS
<1> HIDE DEF taken
<1>7. taken \in [basis : Versions \cup {None}, funds : Rows]
  <2>1. CASE task > 1
    <3>1. basis[b] \in Versions \cup {None} /\ ledger[b] \in Rows
      BY <1>1, <1>4, <2>1 DEF TypeOK
    <3> QED BY <1>5, <2>1, <3>1
  <2>2. CASE ~ (task > 1)
    <3>1. 0 \in Versions /\ Nothing \in Rows
      BY ConstantTypes DEF Versions, Nothing, Rows
    <3> QED BY <1>6, <2>2, <3>1
  <2> QED BY <2>1, <2>2
<1>8. commitments' \in
        [Eons -> [basis : Versions \cup {None}, funds : Rows] \cup {None}]
  BY <1>1, <1>2, <1>3, <1>7 DEF TypeOK
<1>9. CommitmentsInv'
  <2>1. ASSUME NEW e \in Eons \ {1}, commitments'[e] # None
        PROVE  LET x == LastBlock(e - 1)
               IN /\ x \in confirmed
                  /\ commitments'[e].basis = chain[x]
                  /\ \A t \in Tokens :
                       commitments'[e].funds[t] \in {None, Unread, chain[x]}
    <3>1. CASE e = task
      <4>1. task > 1
        <5>1. eon_number(MaxBlock) \in Nat
          BY EonBounds, ConstantTypes
        <5> QED BY <2>1, <3>1, <5>1 DEF Eons
      <4>2. commitments'[e] = [basis |-> basis[b], funds |-> ledger[b]]
        BY <1>1, <1>2, <1>3, <1>5, <3>1, <4>1 DEF TypeOK
      <4>3. b \in confirmed /\ basis[b] = chain[b]
            /\ \A t \in Tokens : ledger[b][t] \in {None, Unread, chain[b]}
        BY <1>4, <4>1 DEF SyncInv, ConfirmedMatchesChain
      <4>4. LastBlock(e - 1) = b
        BY <3>1 DEF b
      <4> QED BY <4>2, <4>3, <4>4
    <3>2. CASE e # task
      <4>1. commitments'[e] = commitments[e]
        BY <1>1, <1>2, <3>2 DEF TypeOK
      <4> QED BY <2>1, <4>1 DEF SyncInv, CommitmentsInv
    <3> QED BY <3>1, <3>2
  <2> QED BY <1>2, <2>1 DEF CommitmentsInv
<1>10. TaskInv'
  BY <1>2 DEF TaskInv
<1> QED BY <1>2, <1>8, <1>9, <1>10, CheckpointFrame

LEMMA RefuseCheckpointStep ==
  ASSUME SyncInv, RefuseCheckpoint
  PROVE  SyncInv'
<1> USE DEF chain_vars, view_vars, pass_vars
<1>1. /\ task' = None
      /\ UNCHANGED << chain_vars, view_vars, token_block, pass_vars,
                      commitments, faults >>
  BY DEF RefuseCheckpoint
<1>2. commitments' \in
        [Eons -> [basis : Versions \cup {None}, funds : Rows] \cup {None}]
  BY <1>1 DEF SyncInv, TypeOK
<1>3. CommitmentsInv' /\ TaskInv'
  BY <1>1 DEF SyncInv, CommitmentsInv, TaskInv
<1> QED BY <1>1, <1>2, <1>3, CheckpointFrame

-----------------------------------------------------------------------------
(* The inductive invariant                                                 *)

LEMMA SyncInvInit == Init => SyncInv
<1> SUFFICES ASSUME Init PROVE SyncInv
  OBVIOUS
<1> USE DEF Init
<1>1. 0 \in Blocks /\ 0 \in Versions
  BY ConstantTypes DEF Blocks, Versions
<1>2. Nothing \in Rows
  BY DEF Nothing, Rows
<1>3. TypeOK
  <2>1. chain \in Seq(Versions) /\ Len(chain) <= MaxBlock
    BY ConstantTypes
  <2>2. applied \in Seq(Blocks \X Versions)
    OBVIOUS
  <2>3. ledger \in [Blocks -> Rows]
    BY <1>2
  <2>4. token_block \in [Tokens -> Blocks \cup {None}]
    BY DEF Nothing
  <2>5. fetched \in [Blocks -> [logs : Versions \cup {None},
                               state : Versions \cup {None}, ledgers : Rows]]
    BY <1>2 DEF NotFetched
  <2>6. /\ commitments \in
             [Eons -> [basis : Versions \cup {None}, funds : Rows] \cup {None}]
        /\ basis \in [Blocks -> Versions \cup {None}]
        /\ pass \in [running_from : Nat, running_until : Nat,
                     confirm_from : Nat, update_until : Nat]
    BY <1>1 DEF Idle
  <2> QED BY <1>1, <2>1, <2>2, <2>3, <2>4, <2>5, <2>6, ConstantTypes DEF TypeOK
<1>4. ViewsInv
  <2>1. stored = 0 .. 0 /\ confirmed = 1 .. 0 /\ Len(chain) = 0
    OBVIOUS
  <2>2. \E l, c \in Nat : /\ stored = 0 .. l /\ confirmed = 1 .. c
                          /\ c <= l /\ l <= Len(chain)
                          /\ l - Confirmations <= c
                          /\ (c = 0 \/ c <= Len(chain) - Confirmations)
    <3>1. 0 - Confirmations <= 0
      BY ConstantTypes
    <3> WITNESS 0 \in Nat, 0 \in Nat
    <3> QED BY <2>1, <3>1
  <2> QED BY <2>2 DEF ViewsInv
<1>5. PassInv /\ FetchedInv
  BY DEF PassInv, FetchedInv
<1>6. TokensInv
  BY DEF TokensInv, Nothing
<1>7. EventsExactlyOnce
  BY DEF EventsExactlyOnce
<1>8. ConfirmedMatchesChain /\ LedgerStatesComplete
  BY DEF ConfirmedMatchesChain, LedgerStatesComplete
<1>9. CommitmentsInv /\ TaskInv
  BY DEF CommitmentsInv, TaskInv
<1> QED BY <1>3, <1>4, <1>5, <1>6, <1>7, <1>8, <1>9 DEF SyncInv

LEMMA SyncInvStep == SyncInv /\ [Next]_vars => SyncInv'
<1> SUFFICES ASSUME SyncInv, [Next]_vars PROVE SyncInv'
  OBVIOUS
<1>1. CASE Mine
  BY <1>1, MineStep
<1>2. CASE Reorganise
  BY <1>2, ReorganiseStep
<1>3. CASE \E t \in Tokens : RegisterToken(t)
  BY <1>3, RegisterStep
<1>4. CASE Workers
  BY <1>4, FetchLogsStep, FetchStateStep DEF Workers
<1>5. CASE Synchroniser
  BY <1>5, BeginPassStep, TakeConfirmedStep, TakeRunningStep, SaveStep,
     StoredStep, EndPassStep DEF Synchroniser
<1>6. CASE AbandonPass
  BY <1>6, EndPassStep
<1>7. CASE Checkpoint
  BY <1>7, BeginCheckpointStep, CreateCheckpointStep, RefuseCheckpointStep
     DEF Checkpoint
<1>8. CASE UNCHANGED vars
  <2> USE DEF vars, chain_vars, view_vars, pass_vars, checkpoint_vars
  <2>1. /\ task \in Eons \cup {None}
        /\ commitments \in
             [Eons -> [basis : Versions \cup {None}, funds : Rows] \cup {None}]
    BY DEF SyncInv, TypeOK
  <2>2. CommitmentsInv' /\ TaskInv'
    BY <1>8 DEF SyncInv, CommitmentsInv, TaskInv, confirmed_block
  <2> QED BY <1>8, <2>1, <2>2, CheckpointFrame
<1> QED BY <1>1, <1>2, <1>3, <1>4, <1>5, <1>6, <1>7, <1>8 DEF Next

(* The whole invariant: types, both views, what the workers have read, the *)
(* events interpreted, and the checkpoints made from them.                 *)
THEOREM SyncInvariant == Spec => []SyncInv
BY SyncInvInit, SyncInvStep, PTL DEF Spec

(* Neither the blocks stored nor the blocks confirmed ever have a gap.     *)
THEOREM ViewsHaveNoGaps == Spec => []NoGaps
<1>1. SyncInv => NoGaps
  BY ViewsAre DEF SyncInv, NoGaps
<1> QED BY <1>1, SyncInvariant, PTL

(* The confirmed view stays within Confirmations of the latest block.      *)
THEOREM ConfirmedKeepsUp == Spec => []ConfirmationKeepsUp
<1>1. SyncInv => ConfirmationKeepsUp
  BY ViewsAre DEF SyncInv, ConfirmationKeepsUp
<1> QED BY <1>1, SyncInvariant, PTL

(* The events of a confirmed block are interpreted once and in order, what *)
(* is stored of it is what the chain keeps, and it is never refused.       *)
THEOREM EventsAreAppliedOnce ==
  Spec => [](EventsExactlyOnce /\ ConfirmedMatchesChain /\ ConfirmNeverRefuses)
<1>1. SyncInv => EventsExactlyOnce /\ ConfirmedMatchesChain /\ ConfirmNeverRefuses
  BY NeverRefused DEF SyncInv
<1> QED BY <1>1, SyncInvariant, PTL

(* Where tokens are registered between passes, no confirmed block lacks a  *)
(* ledger state of a token registered before it.                           *)
THEOREM LedgerStatesAreComplete ==
  ASSUME QuietRegistration
  PROVE  Spec => []LedgerStatesComplete
<1>1. SyncInv => LedgerStatesComplete
  BY DEF SyncInv
<1> QED BY <1>1, SyncInvariant, PTL

(* A checkpoint takes the chain's last block of the eon before, which no   *)
(* reorganisation replaces afterwards.                                     *)
THEOREM CheckpointBlockIsFinal == Spec => []CheckpointUsesFinalBlock
<1>1. SyncInv => CheckpointUsesFinalBlock
  <2> SUFFICES ASSUME SyncInv, NEW e \in Eons \ {1}, commitments[e] # None
               PROVE  LET b == LastBlock(e - 1)
                      IN /\ b \in DOMAIN chain
                         /\ commitments[e].basis = chain[b]
                         /\ \A t \in Tokens :
                              commitments[e].funds[t] \in {None, Unread, chain[b]}
    BY DEF CheckpointUsesFinalBlock
  <2> DEFINE b == LastBlock(e - 1)
  <2>1. /\ b \in confirmed /\ commitments[e].basis = chain[b]
        /\ \A t \in Tokens : commitments[e].funds[t] \in {None, Unread, chain[b]}
    BY DEF SyncInv, CommitmentsInv
  <2> HIDE DEF b
  <2>2. b \in 1 .. Len(chain) - Confirmations
    BY <2>1, ConfirmedIsFinal DEF SyncInv
  <2>3. chain \in Seq(Versions) /\ Len(chain) \in Nat
    BY DEF SyncInv, TypeOK
  <2>4. b \in 1 .. Len(chain)
    BY <2>2, <2>3, ConstantTypes
  <2>5. DOMAIN chain = 1 .. Len(chain)
    BY <2>3
  <2> QED BY <2>1, <2>4, <2>5 DEF b
<1> QED BY <1>1, SyncInvariant, PTL

(* A checkpoint that is given up is one whose eon before is confirmed to   *)
(* its last block: what it misses is the ledger state of a late token.     *)
LEMMA RefusedIsLate ==
  ASSUME QuietRegistration, BlocksPerEon > 1, SyncInv, RefuseCheckpoint
  PROVE  \E t \in Tokens : /\ token_block[t] # None
                           /\ token_block[t] >= LastBlock(task - 1)
<1> DEFINE e == task - 1
           b == LastBlock(e)
<1>1. /\ TypeOK /\ ViewsInv /\ PassInv
      /\ token_block \in [Tokens -> Blocks \cup {None}]
  BY DEF SyncInv, TypeOK
<1>2. task \in Eons /\ task > 1 /\ ~ LastEonIsUsable(task)
  BY DEF SyncInv, TaskInv, RefuseCheckpoint
<1>3. task \in Nat
  <2>1. eon_number(MaxBlock) \in Nat
    BY EonBounds, ConstantTypes
  <2> QED BY <1>2, <2>1 DEF Eons
<1>4. e \in Nat /\ 1 <= e
  BY <1>2, <1>3
<1>5. PICK c \in Nat : confirmed = 1 .. c /\ confirmed_block = c
  BY <1>1, ViewsAre
<1>6. b \in Nat /\ 1 <= b /\ b <= c
  <2>1. e * BlocksPerEon \in Nat /\ 1 * BlocksPerEon <= e * BlocksPerEon
    BY <1>4, TimesMonotone, ConstantTypes
  <2>2. e * BlocksPerEon <= c
    BY <1>2, <1>5 DEF SyncInv, TaskInv, RefuseCheckpoint
  <2>3. 1 * BlocksPerEon = BlocksPerEon
    BY ConstantTypes
  <2>4. b = e * BlocksPerEon - 1
    BY DEF LastBlock
  <2> HIDE DEF b, e
  <2> QED BY <2>1, <2>2, <2>3, <2>4, ConstantTypes
<1>7. /\ eon_number(b) = e /\ sub_block(b) = BlocksPerEon - 1
      /\ \A x \in Nat : eon_number(x) = e => x <= b
  BY <1>4, <1>6, LastBlockIs
<1> HIDE DEF b, e
<1>8. b \in ConfirmedIn(e) /\ \A x \in ConfirmedIn(e) : x \in Nat /\ x <= b
  BY <1>5, <1>6, <1>7 DEF ConfirmedIn
<1>9. Largest(ConfirmedIn(e)) = b
  <2>1. ConfirmedIn(e) \in SUBSET (0 .. c) /\ ConfirmedIn(e) # {}
    BY <1>5, <1>8 DEF ConfirmedIn
  <2>2. /\ Largest(ConfirmedIn(e)) \in ConfirmedIn(e)
        /\ b <= Largest(ConfirmedIn(e))
    BY <1>8, <2>1, LargestIsIn
  <2> DEFINE m == Largest(ConfirmedIn(e))
  <2> HIDE DEF m
  <2>3. m \in Nat /\ m <= b /\ b <= m
    BY <1>8, <2>2 DEF m
  <2>4. m = b
    BY <1>6, <2>3
  <2> QED BY <2>4 DEF m
<1>10. PICK t \in Tokens : token_block[t] # None /\ ledger[b][t] = None
  BY <1>2, <1>7, <1>8, <1>9 DEF LastEonIsUsable, e
<1>11. ~ (token_block[t] < b)
  BY <1>5, <1>6, <1>10 DEF SyncInv, LedgerStatesComplete
<1>12. token_block[t] \in Nat
  BY <1>1, <1>10 DEF Blocks
<1>13. token_block[t] >= b
  BY <1>6, <1>11, <1>12
<1> QED BY <1>10, <1>13 DEF b, e

(* A checkpoint that is due fails only for a token registered after the    *)
(* last block of the eon before, where tokens are registered between       *)
(* passes and an eon has more than one block.                              *)
THEOREM OnlyLateTokensRefuse ==
  ASSUME QuietRegistration, BlocksPerEon > 1,
         \A x, y : None # [basis |-> x, funds |-> y]
  PROVE  Spec => RefusedOnlyForLateToken
<1> DEFINE Late == \E t \in Tokens : token_block[t] # None
                        /\ token_block[t] >= LastBlock(task - 1)
           Dropped == task # None /\ task' = None /\ commitments' = commitments
<1>1. ASSUME SyncInv, SyncInv', Next, Dropped PROVE Late
  <2>1. CreateCheckpoint \/ RefuseCheckpoint
    BY <1>1 DEF Next, Mine, Reorganise, RegisterToken, Workers, FetchLogs,
       FetchState, Synchroniser, BeginPass, TakeConfirmed, TakeRunning,
       SaveLedgerState, RunningStored, EndPass, AbandonPass, LeavePass,
       Checkpoint, BeginCheckpoint, checkpoint_vars
  <2>2. ~ CreateCheckpoint
    <3> SUFFICES ASSUME CreateCheckpoint PROVE FALSE
      OBVIOUS
    <3>1. task \in Eons /\ commitments[task] = None
      BY <1>1 DEF SyncInv, TaskInv
    <3>2. PICK x, y : commitments' =
            [commitments EXCEPT ![task] = [basis |-> x, funds |-> y]]
      <4>1. CASE task > 1
        BY <4>1 DEF CreateCheckpoint
      <4>2. CASE ~ (task > 1)
        BY <4>2 DEF CreateCheckpoint
      <4> QED BY <4>1, <4>2
    <3>3. commitments'[task] = [basis |-> x, funds |-> y]
      BY <1>1, <3>1, <3>2 DEF SyncInv, TypeOK
    <3>4. None = [basis |-> x, funds |-> y]
      BY <1>1, <3>1, <3>3
    <3> QED BY <3>4
  <2> QED BY <1>1, <2>1, <2>2, RefusedIsLate
<1>2. SyncInv /\ SyncInv' /\ [Next]_vars => [Dropped => Late]_vars
  BY <1>1
<1>3. Spec => [][Dropped => Late]_vars
  BY <1>2, SyncInvariant, PTL DEF Spec
<1> QED BY <1>3, PTL DEF RefusedOnlyForLateToken

-----------------------------------------------------------------------------
(* The refinement                                                          *)

Final(ch) == SubSeq(ch, 1, Len(ch) - Confirmations)
Interpreted(ap) == [i \in 1 .. Len(ap) |-> ap[i][2]]

LEMMA FinalIs ==
  ASSUME NEW ch \in Seq(Versions)
  PROVE  /\ Final(ch) \in Seq(Versions)
         /\ Len(Final(ch)) = IF 1 <= Len(ch) - Confirmations
                             THEN Len(ch) - Confirmations ELSE 0
         /\ \A i \in 1 .. Len(ch) - Confirmations : Final(ch)[i] = ch[i]
<1> DEFINE n == Len(ch) - Confirmations
<1>1. n \in Int /\ \A i \in 1 .. n : ch[i] \in Versions
  BY ConstantTypes
<1> HIDE DEF n
<1>2. /\ SubSeq(ch, 1, n) \in Seq(Versions)
      /\ Len(SubSeq(ch, 1, n)) = IF 1 <= n THEN n - 1 + 1 ELSE 0
      /\ \A i \in 1 .. n - 1 + 1 : SubSeq(ch, 1, n)[i] = ch[1 + i - 1]
  BY <1>1, SubSeqProperties
<1>3. n - 1 + 1 = n /\ \A i \in 1 .. n : 1 + i - 1 = i
  BY <1>1
<1> QED BY <1>1, <1>2, <1>3 DEF Final, n

LEMMA InterpretedIs ==
  ASSUME NEW ap \in Seq(Blocks \X Versions)
  PROVE  /\ Interpreted(ap) \in Seq(Versions)
         /\ Len(Interpreted(ap)) = Len(ap)
         /\ \A i \in 1 .. Len(ap) : Interpreted(ap)[i] = ap[i][2]
<1>1. Len(ap) \in Nat /\ \A i \in 1 .. Len(ap) : ap[i][2] \in Versions
  OBVIOUS
<1>2. Interpreted(ap) \in [1 .. Len(ap) -> Versions]
  BY <1>1 DEF Interpreted
<1> QED BY <1>1, <1>2 DEF Interpreted

(* A block that becomes Confirmations deep is the next final one.          *)
LEMMA MineFinalizes ==
  ASSUME TypeOK, Mine
  PROVE  \/ Final(chain') = Final(chain)
         \/ \E v \in Versions : Final(chain') = Append(Final(chain), v)
<1>1. /\ chain \in Seq(Versions) /\ reorgs \in Versions
      /\ chain' = Append(chain, reorgs)
  BY DEF TypeOK, Mine
<1>2. /\ chain' \in Seq(Versions) /\ Len(chain') = Len(chain) + 1
      /\ Len(chain) \in Nat
      /\ \A i \in 1 .. Len(chain) : chain'[i] = chain[i]
  BY <1>1
<1> DEFINE m == Len(chain) - Confirmations
           n == Len(chain') - Confirmations
<1>3. m \in Int /\ n = m + 1 /\ n <= Len(chain')
  BY <1>2, ConstantTypes
<1>4. /\ Final(chain) \in Seq(Versions)
      /\ Len(Final(chain)) = IF 1 <= m THEN m ELSE 0
      /\ \A i \in 1 .. m : Final(chain)[i] = chain[i]
  BY <1>1, FinalIs
<1>5. /\ Final(chain') \in Seq(Versions)
      /\ Len(Final(chain')) = IF 1 <= n THEN n ELSE 0
      /\ \A i \in 1 .. n : Final(chain')[i] = chain'[i]
  BY <1>2, FinalIs
<1>6. m <= Len(chain)
  BY <1>2, ConstantTypes
<1> HIDE DEF m, n
<1>7. CASE n < 1
  <2>1. Len(Final(chain')) = 0 /\ Len(Final(chain)) = 0
    BY <1>3, <1>7, <1>4, <1>5
  <2> QED BY <1>4, <1>5, <2>1, SeqEqual
<1>8. CASE n >= 1
  <2> DEFINE v == chain'[n]
             longer == Append(Final(chain), v)
  <2>1. v \in Versions
    BY <1>2, <1>3, <1>8
  <2>2. Final(chain') \in Seq(Versions) /\ Final(chain) \in Seq(Versions)
    BY <1>4, <1>5
  <2>3. Len(Final(chain')) = n /\ Len(Final(chain)) = n - 1
    BY <1>3, <1>8, <1>4, <1>5
  <2>4. n \in Nat /\ n - 1 <= Len(chain)
    BY <1>3, <1>8, <1>6
  <2>5. \A i \in 1 .. n : Final(chain')[i] = chain'[i]
    BY <1>5
  <2>6. \A i \in 1 .. n - 1 : Final(chain)[i] = chain[i]
    BY <1>3, <1>4
  <2> HIDE DEF v
  <2>7. /\ longer \in Seq(Versions) /\ Len(longer) = n /\ longer[n] = v
        /\ \A i \in 1 .. n - 1 : longer[i] = Final(chain)[i]
    BY <2>1, <2>2, <2>3, <2>4, AppendProperties
  <2>8. \A i \in 1 .. n : Final(chain')[i] = longer[i]
    <3> TAKE i \in 1 .. n
    <3>1. CASE i = n
      BY <2>5, <2>7, <3>1 DEF v
    <3>2. CASE i # n
      <4>1. i \in 1 .. n - 1 /\ i \in 1 .. Len(chain)
        BY <1>2, <2>4, <3>2
      <4> QED BY <1>2, <2>5, <2>6, <2>7, <4>1
    <3> QED BY <3>1, <3>2
  <2>9. Final(chain') = longer
    BY <2>2, <2>3, <2>7, <2>8, SeqEqual
  <2> QED BY <2>1, <2>9
<1> QED BY <1>3, <1>7, <1>8

(* No reorganisation reaches a final block.                                *)
LEMMA ReorganiseKeepsFinal ==
  ASSUME TypeOK, Reorganise
  PROVE  Final(chain') = Final(chain)
<1>1. /\ chain \in Seq(Versions) /\ chain' \in Seq(Versions)
      /\ Len(chain') = Len(chain)
      /\ \A i \in 1 .. Len(chain) - Confirmations : chain'[i] = chain[i]
  BY Reorganised DEF TypeOK
<1>2. /\ Final(chain) \in Seq(Versions) /\ Final(chain') \in Seq(Versions)
      /\ Len(Final(chain')) = Len(Final(chain))
  BY <1>1, FinalIs
<1>3. Len(Final(chain)) = IF 1 <= Len(chain) - Confirmations
                          THEN Len(chain) - Confirmations ELSE 0
  BY <1>1, FinalIs
<1>4. \A i \in 1 .. Len(Final(chain)) : i \in 1 .. Len(chain) - Confirmations
  BY <1>1, <1>3, ConstantTypes
<1>5. \A i \in 1 .. Len(Final(chain)) : Final(chain')[i] = Final(chain)[i]
  BY <1>1, <1>4, FinalIs
<1> QED BY <1>2, <1>5, SeqEqual

(* The events of a block that is confirmed are the next to be interpreted. *)
LEMMA TakeConfirmedApplies ==
  ASSUME SyncInv, TakeConfirmed
  PROVE  /\ Len(Interpreted(applied)) < Len(Final(chain))
         /\ Interpreted(applied') =
              Append(Interpreted(applied),
                     Final(chain)[Len(Interpreted(applied)) + 1])
<1> DEFINE n == Len(applied)
           cur == Current
<1>1. /\ TypeOK /\ ViewsInv /\ PassInv
      /\ applied \in Seq(Blocks \X Versions) /\ chain \in Seq(Versions)
      /\ n \in Nat /\ confirmed = 1 .. n /\ Len(chain) \in Nat
  BY DEF SyncInv, TypeOK, EventsExactlyOnce
<1>2. /\ pc = "take" /\ Remaining # {} /\ ToConfirm(cur) /\ cur \in Blocks
      /\ chain[cur] \in Versions
      /\ applied' = Append(applied, << cur, chain[cur] >>)
  BY Confirmation
<1>3. cur = n + 1 /\ cur \in Nat /\ 1 <= cur
  <2>1. cur \in Nat /\ 1 <= cur
    BY <1>1, <1>2, CurrentIs DEF Blocks
  <2>2. PICK c \in Nat : c + 1 = cur /\ confirmed = 1 .. c
    <3>1. confirmed = 1 .. (cur - 1) /\ cur - 1 \in Nat
      BY <1>1, <1>2, <2>1, CurrentIsNew DEF ViewsInv
    <3> QED BY <2>1, <3>1
  <2>3. n = c
    BY <1>1, <2>2
  <2> QED BY <2>1, <2>2, <2>3
<1>4. cur <= Len(chain) - Confirmations
  <2>1. /\ cur <= pass.running_until - Confirmations
        /\ pass.running_until <= Len(chain)
        /\ pass.running_until \in Nat
    BY <1>1, <1>2 DEF ToConfirm, PassInv, TypeOK
  <2> QED BY <1>1, <1>3, <2>1, ConstantTypes
<1> HIDE DEF n, cur
<1>5. /\ Interpreted(applied) \in Seq(Versions)
      /\ Len(Interpreted(applied)) = n
      /\ \A i \in 1 .. n : Interpreted(applied)[i] = applied[i][2]
  BY <1>1, InterpretedIs DEF n
<1>6. /\ applied' \in Seq(Blocks \X Versions) /\ Len(applied') = n + 1
      /\ \A i \in 1 .. n : applied'[i] = applied[i]
      /\ applied'[n + 1] = << cur, chain[cur] >>
  BY <1>1, <1>2 DEF n
<1>7. /\ Interpreted(applied') \in Seq(Versions)
      /\ Len(Interpreted(applied')) = n + 1
      /\ \A i \in 1 .. n + 1 : Interpreted(applied')[i] = applied'[i][2]
  BY <1>6, InterpretedIs
<1>8. Len(Final(chain)) >= n + 1 /\ Final(chain)[n + 1] = chain[cur]
  <2>1. cur \in 1 .. Len(chain) - Confirmations
    BY <1>1, <1>3, <1>4, ConstantTypes
  <2> QED BY SMTT(60), <1>1, <1>3, <1>4, <2>1, FinalIs, ConstantTypes
<1> DEFINE longer == Append(Interpreted(applied), chain[cur])
<1>9. /\ longer \in Seq(Versions) /\ Len(longer) = n + 1
      /\ longer[n + 1] = chain[cur]
      /\ \A i \in 1 .. n : longer[i] = Interpreted(applied)[i]
  BY SMTT(60), <1>1, <1>2, <1>5, AppendProperties
<1> HIDE DEF longer
<1>10. \A i \in 1 .. n + 1 : Interpreted(applied')[i] = longer[i]
  <2> TAKE i \in 1 .. n + 1
  <2>1. CASE i = n + 1
    BY <1>1, <1>6, <1>7, <1>9, <2>1
  <2>2. CASE i # n + 1
    <3>1. i \in 1 .. n
      BY <1>1, <2>2
    <3> QED BY <1>5, <1>6, <1>7, <1>9, <3>1
  <2> QED BY <2>1, <2>2
<1>11. Interpreted(applied') = longer
  BY <1>7, <1>9, <1>10, SeqEqual
<1>12. Len(Interpreted(applied)) < Len(Final(chain))
  <2>1. Len(Final(chain)) \in Nat
    BY <1>1, FinalIs
  <2> QED BY <1>1, <1>5, <1>8, <2>1
<1> QED BY <1>5, <1>8, <1>11, <1>12 DEF longer

LEMMA ViewStep ==
  SyncInv /\ [Next]_vars => [View!Next]_(View!vars)
<1> SUFFICES ASSUME SyncInv, [Next]_vars
             PROVE  \/ View!Next
                    \/ /\ Final(chain') = Final(chain)
                       /\ Interpreted(applied') = Interpreted(applied)
  BY DEF View!vars, Final, Interpreted
<1>1. CASE Mine
  <2>1. TypeOK /\ applied' = applied
    BY <1>1 DEF SyncInv, Mine, view_vars
  <2>2. ASSUME NEW v \in Versions, Final(chain') = Append(Final(chain), v)
        PROVE  View!Next
    BY <2>1, <2>2 DEF View!Next, View!Finalize, Final
  <2> QED BY <1>1, <2>1, <2>2, MineFinalizes
<1>2. CASE Reorganise
  <2>1. TypeOK /\ applied' = applied
    BY <1>2 DEF SyncInv, Reorganise, view_vars
  <2> QED BY <1>2, <2>1, ReorganiseKeepsFinal
<1>3. CASE TakeConfirmed
  <2>1. chain' = chain
    BY <1>3 DEF TakeConfirmed, chain_vars
  <2> QED BY <1>3, <2>1, TakeConfirmedApplies
          DEF View!Next, View!Apply, Final, Interpreted
<1>4. CASE UNCHANGED << chain, applied >>
  BY <1>4
<1>5. \/ Mine \/ Reorganise \/ TakeConfirmed
      \/ UNCHANGED << chain, applied >>
  BY DEF Next, RegisterToken, Workers, FetchLogs, FetchState, Synchroniser,
     BeginPass, TakeRunning, SaveLedgerState, RunningStored, EndPass,
     AbandonPass, LeavePass, Checkpoint, BeginCheckpoint, CreateCheckpoint,
     RefuseCheckpoint, vars, chain_vars, view_vars
<1> QED BY <1>1, <1>2, <1>3, <1>4, <1>5

(* The synchroniser implements ChainView, for chains, windows and faults   *)
(* of any size: whoever acts on confirmed blocks sees each of them once    *)
(* and in order, and never one that a reorganisation takes back.           *)
THEOREM SynchroniserImplementsView == Spec => ImplementsView
<1>1. Init => View!Init
  <2> SUFFICES ASSUME Init PROVE View!Init
    OBVIOUS
  <2>1. chain = << >> /\ applied = << >> /\ Len(chain) = 0
    BY DEF Init
  <2>2. SubSeq(chain, 1, Len(chain) - Confirmations) = << >>
    <3>1. Len(chain) - Confirmations \in Int /\ Len(chain) - Confirmations < 1
      BY <2>1, ConstantTypes
    <3> QED BY <3>1, SubSeqEmpty
  <2>3. [i \in 1 .. Len(applied) |-> applied[i][2]] = << >>
    BY <2>1
  <2> QED BY <2>2, <2>3 DEF View!Init
<1>2. SyncInv /\ [Next]_vars => [View!Next]_(View!vars)
  BY ViewStep
<1> QED BY <1>1, <1>2, SyncInvariant, PTL DEF Spec, ImplementsView, View!Spec
=============================================================================
