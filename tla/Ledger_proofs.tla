---------------------------- MODULE Ledger_proofs ----------------------------
(***************************************************************************)
(* Proofs about Ledger, for any number of wallets, handlers, eons and      *)
(* requests.  First what the locks guard (LedgerInv).  Then what a         *)
(* checkpoint lets through (OnlyTheGapLeaks) and who can overspend across  *)
(* it (OverspentByRaceOnly), with both races as they are in the program.   *)
(* Last the sums over all wallets.                                         *)
(***************************************************************************)
EXTENDS Ledger, Sums, TLAPS

USE LedgerAssumption

(* What the ledger computes of well-typed rows is a number.                *)
LEMMA FundsAreNumbers ==
  ASSUME TypeOK, NEW w \in Wallets, NEW e \in Eons
  PROVE  AvailableFunds(w, e) \in Int /\ AppendedFunds(w, e) \in Int
<1>1. /\ allotments[e][w] \in Nat /\ deposits[e][w] \in Nat
      /\ spendings[e][w] \in Nat /\ received[e][w] \in Nat
      /\ last_in[e][w].position \in Nat /\ last_in[e][w].amount \in Nat
  BY DEF TypeOK, ChainTypeOK, RowsTypeOK, CheckpointTypeOK
<1>2. QED  BY <1>1 DEF AvailableFunds, AppendedFunds

LEMMA InitInv == Init => LedgerInv
<1> SUFFICES ASSUME Init PROVE LedgerInv
  OBVIOUS
<1> USE DEF Init, Zero, NoTransfer, NoTask, Eons, Wallets
<1>1. TypeOK
  BY DEF TypeOK, ChainTypeOK, RowsTypeOK, CheckpointTypeOK, LocalsTypeOK,
         ControlTypeOK, HistoryTypeOK, HandlerPc
<1>2. EonsInOrder /\ LocksHeld /\ ReadsAreFresh /\ WriterAlone
  BY DEF EonsInOrder, LocksHeld, ReadsAreFresh, WriterAlone, InLocks, Reading
<1>3. PassiveTiling /\ SnapshotConsistent
  BY DEF PassiveTiling, SnapshotConsistent
<1>4. QED  BY <1>1, <1>2, <1>3 DEF LedgerInv
-----------------------------------------------------------------------------
(* Every step keeps the types, of one group of variables at a time.        *)

LEMMA Steps ==
  ASSUME Next
  PROVE  \/ NewEon \/ ConfirmEon \/ \E w \in Wallets : Deposit(w)
         \/ \E h \in Handlers : Receive(h)
         \/ \E h \in Handlers : \/ EnterEon(h) \/ LockFirstWallet(h)
                                \/ LockSecondWallet(h)
         \/ \E h \in Handlers : CheckEon(h) \/ ReadIsCreated(h)
         \/ \E h \in Handlers : ReadLooseFunds(h)
         \/ \E h \in Handlers : ReadFunds(h)
         \/ \E h \in Handlers : AppendTransfer(h)
         \/ \E h \in Handlers : RejectTransfer(h)
         \/ StartCheckpoint \/ AcquireWriteLock \/ SnapshotWallet
         \/ FailAssertion \/ ReleaseWriteLock \/ CommitCheckpoint
         \/ SkipCheckpoint
BY SMTT(60) DEF Next, HandlerStep, TaskStep

LEMMA ChainTypeStep ==
  ASSUME TypeOK, [Next]_vars
  PROVE  ChainTypeOK'
<1>0. ChainTypeOK
  BY DEF TypeOK
<1>1. CASE NewEon
  BY <1>0, <1>1 DEF NewEon, ChainTypeOK, Eons
<1>2. CASE ConfirmEon
  BY <1>0, <1>2 DEF ConfirmEon, ChainTypeOK
<1>3. ASSUME NEW w \in Wallets, Deposit(w)
      PROVE  ChainTypeOK'
  BY <1>0, <1>3 DEF Deposit, ChainTypeOK
<1>4. CASE UNCHANGED chain
  BY SMTT(60), <1>0, <1>4 DEF chain, ChainTypeOK
<1>5. QED
  BY <1>1, <1>2, <1>3, <1>4, Steps
  DEF vars, Receive, EnterEon, LockFirstWallet, LockSecondWallet, CheckEon,
      PassChecks, ReadIsCreated, ReadLooseFunds, ReadFunds, AppendTransfer,
      RejectTransfer,
      StartCheckpoint, AcquireWriteLock, SnapshotWallet, FailAssertion,
      ReleaseWriteLock, CommitCheckpoint, SkipCheckpoint

LEMMA RowsTypeStep ==
  ASSUME TypeOK, [Next]_vars
  PROVE  RowsTypeOK'
<1>0. RowsTypeOK /\ LocalsTypeOK
  BY DEF TypeOK
<1>1. ASSUME NEW h \in Handlers, AppendTransfer(h)
      PROVE  RowsTypeOK'
  <2>1. /\ tx[h].eon \in Eons /\ tx[h].wallet \in Wallets
        /\ tx[h].recipient \in Wallets /\ tx[h].amount \in Nat
        /\ tx[h].spendings \in Nat /\ tx[h].position \in Nat
    BY <1>0 DEF LocalsTypeOK
  <2>2. QED  BY SMTT(60), <1>0, <1>1, <2>1 DEF AppendTransfer, RowsTypeOK
<1>2. CASE UNCHANGED rows
  BY <1>0, <1>2 DEF rows, RowsTypeOK
<1>3. QED
  BY ZenonT(60), <1>1, <1>2, Steps
  DEF vars, NewEon, ConfirmEon, Deposit, Receive, EnterEon, LockFirstWallet,
      LockSecondWallet, CheckEon,
      PassChecks, ReadIsCreated, ReadLooseFunds, ReadFunds, RejectTransfer,
      StartCheckpoint, AcquireWriteLock, SnapshotWallet,
      FailAssertion, ReleaseWriteLock, CommitCheckpoint, SkipCheckpoint

LEMMA ControlTypeStep ==
  ASSUME TypeOK, [Next]_vars
  PROVE  ControlTypeOK'
<1>0. ControlTypeOK /\ LocalsTypeOK
  BY DEF TypeOK
<1>1. ASSUME NEW h \in Handlers,
             EnterEon(h) \/ LockFirstWallet(h) \/ LockSecondWallet(h)
      PROVE  ControlTypeOK'
  BY <1>0, <1>1 DEF EnterEon, LockFirstWallet, LockSecondWallet, Lock, Goto,
                    ControlTypeOK, HandlerPc
<1>5. ASSUME NEW h \in Handlers, Receive(h)
      PROVE  ControlTypeOK'
  <2>1. /\ pc' = [pc EXCEPT ![h] = "locking"]
        /\ requests' = requests + 1
        /\ wallet_lock' = wallet_lock
    BY <1>5 DEF Receive, Goto
  <2>2. QED  BY <1>0, <2>1 DEF ControlTypeOK, HandlerPc
<1>2. ASSUME NEW h \in Handlers,
             \/ CheckEon(h) \/ ReadIsCreated(h) \/ ReadLooseFunds(h)
             \/ ReadFunds(h) \/ AppendTransfer(h) \/ RejectTransfer(h)
      PROVE  ControlTypeOK'
  BY <1>0, <1>2 DEF CheckEon,
                    PassChecks, ReadIsCreated, ReadLooseFunds, ReadFunds,
                    AppendTransfer, RejectTransfer, Unlock, Goto, ControlTypeOK,
                    HandlerPc
<1>3. CASE UNCHANGED control
  BY <1>0, <1>3 DEF control, ControlTypeOK
<1>4. QED
  BY <1>1, <1>2, <1>3, <1>5, Steps
  DEF vars, NewEon, ConfirmEon, Deposit, StartCheckpoint, AcquireWriteLock,
      SnapshotWallet, FailAssertion, ReleaseWriteLock, CommitCheckpoint,
      SkipCheckpoint

LEMMA LocalsTypeStep ==
  ASSUME TypeOK, EonsInOrder, [Next]_vars
  PROVE  LocalsTypeOK'
<1>0. ChainTypeOK /\ RowsTypeOK /\ LocalsTypeOK
  BY DEF TypeOK
<1>1. ASSUME NEW h \in Handlers, Receive(h)
      PROVE  LocalsTypeOK'
  <2>1. PICK w \in Wallets, r \in Wallets, a \in Amounts :
             /\ tx' = [tx EXCEPT ![h] = [NoTransfer EXCEPT !.wallet = w,
                         !.recipient = r, !.amount = a, !.eon = latest_eon]]
             /\ UNCHANGED << is_created, loose_funds >>
    BY <1>1 DEF Receive
  <2>2. a \in Nat /\ latest_eon \in Eons
    BY <1>0 DEF ChainTypeOK
  <2>3. QED  BY <1>0, <2>1, <2>2 DEF LocalsTypeOK, NoTransfer
<1>2. ASSUME NEW h \in Handlers, ReadIsCreated(h)
      PROVE  LocalsTypeOK'
  BY <1>0, <1>2 DEF ReadIsCreated, LocalsTypeOK
<1>3. ASSUME NEW h \in Handlers, ReadLooseFunds(h)
      PROVE  LocalsTypeOK'
  <2>1. tx[h].eon - 1 \in Eons /\ tx[h].wallet \in Wallets
    BY <1>0, <1>3 DEF ReadLooseFunds, Goto, EonsInOrder, LocalsTypeOK, Eons
  <2>2. AvailableFunds(tx[h].wallet, tx[h].eon - 1) \in Int
    BY SMTT(60), <2>1, FundsAreNumbers
  <2>3. QED  BY <1>0, <1>3, <2>2 DEF ReadLooseFunds, LocalsTypeOK
<1>4. ASSUME NEW h \in Handlers, ReadFunds(h)
      PROVE  LocalsTypeOK'
  <2>1. /\ tx[h].eon \in Eons /\ tx[h].wallet \in Wallets
        /\ tx[h].recipient \in Wallets /\ tx[h].amount \in Nat
    BY <1>0 DEF LocalsTypeOK
  <2>2. /\ spendings[tx[h].eon][tx[h].wallet] + tx[h].amount \in Nat
        /\ received[tx[h].eon][tx[h].recipient] \in Nat
    BY <1>0, <2>1 DEF RowsTypeOK
  <2>3. QED  BY ZenonT(60), <1>0, <1>4, <2>2 DEF ReadFunds, LocalsTypeOK
<1>5. ASSUME NEW h \in Handlers, AppendTransfer(h) \/ RejectTransfer(h)
      PROVE  LocalsTypeOK'
  <2>1. /\ NoTransfer \in [wallet : Wallets, recipient : Wallets, eon : Eons,
                           amount : Nat, spendings : Nat, position : Nat]
    BY DEF NoTransfer, Wallets, Eons
  <2>2. /\ tx' = [tx EXCEPT ![h] = NoTransfer]
        /\ is_created' = [is_created EXCEPT ![h] = FALSE]
        /\ loose_funds' = [loose_funds EXCEPT ![h] = 0]
    BY <1>5 DEF AppendTransfer, RejectTransfer
  <2>3. QED  BY <1>0, <2>1, <2>2 DEF LocalsTypeOK
<1>6. CASE UNCHANGED locals
  BY <1>0, <1>6 DEF locals, LocalsTypeOK
<1>7. QED
  BY <1>1, <1>2, <1>3, <1>4, <1>5, <1>6, Steps
  DEF vars, NewEon, ConfirmEon, Deposit, EnterEon, LockFirstWallet,
      LockSecondWallet, CheckEon, PassChecks, StartCheckpoint, AcquireWriteLock,
      SnapshotWallet, FailAssertion, ReleaseWriteLock, CommitCheckpoint,
      SkipCheckpoint

LEMMA CheckpointTypeStep ==
  ASSUME TypeOK, EonsInOrder, [Next]_vars
  PROVE  CheckpointTypeOK'
<1>0. ChainTypeOK /\ CheckpointTypeOK
  BY DEF TypeOK
<1>1. CASE StartCheckpoint \/ AcquireWriteLock \/ ReleaseWriteLock
  <2>1. CASE StartCheckpoint
    BY <1>0, <2>1 DEF StartCheckpoint, ChainTypeOK, CheckpointTypeOK
  <2>2. CASE AcquireWriteLock
    BY <1>0, <2>2 DEF AcquireWriteLock, TaskGoto, CheckpointTypeOK
  <2>3. CASE ReleaseWriteLock
    BY <1>0, <2>3 DEF ReleaseWriteLock, TaskGoto, CheckpointTypeOK
  <2>4. QED  BY <1>1, <2>1, <2>2, <2>3
<1>2. CASE SnapshotWallet
  <2>1. task.next \in Wallets /\ task.eon - 1 \in Eons
    BY <1>0, <1>2 DEF SnapshotWallet, EonsInOrder, CheckpointTypeOK, Eons
  <2>2. AppendedFunds(task.next, task.eon - 1) \in Nat
    BY <1>2, <2>1, FundsAreNumbers DEF SnapshotWallet
  <2>3. task.next + 1 \in 0 .. NumWallets
    BY <2>1 DEF Wallets
  <2>4. QED  BY <1>0, <1>2, <2>1, <2>2, <2>3 DEF SnapshotWallet, CheckpointTypeOK
<1>3. CASE FailAssertion \/ CommitCheckpoint
  <2>1. NoTask \in [at : {"idle", "waiting", "snapshot", "commit"}, eon : Eons,
                    next : 0 .. NumWallets, balances : [Wallets -> Nat]]
    BY DEF NoTask, Eons
  <2>2. task.eon \in Eons /\ task.balances \in [Wallets -> Nat]
    BY <1>0 DEF CheckpointTypeOK
  <2>3. CASE FailAssertion
    BY <1>0, <2>1, <2>3 DEF FailAssertion, CheckpointTypeOK
  <2>4. CASE CommitCheckpoint
    BY <1>0, <2>1, <2>2, <2>4 DEF CommitCheckpoint, CheckpointTypeOK
  <2>5. QED  BY <1>3, <2>3, <2>4
<1>5. CASE UNCHANGED checkpoint
  BY <1>0, <1>5 DEF checkpoint, CheckpointTypeOK
<1>6. QED
  BY <1>1, <1>2, <1>3, <1>5, Steps
  DEF vars, NewEon, ConfirmEon, Deposit, Receive, EnterEon, LockFirstWallet,
      LockSecondWallet, CheckEon,
      PassChecks, ReadIsCreated, ReadLooseFunds, ReadFunds, AppendTransfer,
      RejectTransfer, SkipCheckpoint

LEMMA HistoryTypeStep ==
  ASSUME TypeOK, [Next]_vars
  PROVE  HistoryTypeOK'
<1>0. HistoryTypeOK /\ LocalsTypeOK
  BY DEF TypeOK
<1>1. ASSUME NEW h \in Handlers, CheckEon(h) \/ ReadFunds(h) \/ RejectTransfer(h)
      PROVE  HistoryTypeOK'
  BY <1>0, <1>1 DEF CheckEon,
PassChecks, ReadFunds, RejectTransfer,
HistoryTypeOK <1>2. ASSUME NEW h \in Handlers, AppendTransfer(h)
      PROVE  HistoryTypeOK'
  <2>1. /\ tx[h].eon \in Eons /\ tx[h].wallet \in Wallets /\ tx[h].amount \in Nat
        /\ late \in [Eons -> [Wallets -> Int]]
    BY <1>0 DEF LocalsTypeOK, HistoryTypeOK
  <2>2. LateTransfer(h) \in [Eons -> [Wallets -> Int]]
    BY <2>1 DEF LateTransfer
  <2> QED BY <1>0, <1>2, <2>1, <2>2 DEF AppendTransfer, HistoryTypeOK
<1>3. CASE UNCHANGED history
  BY <1>0, <1>3 DEF history, HistoryTypeOK
<1>4. QED
  BY <1>1, <1>2, <1>3, Steps
  DEF vars, NewEon, ConfirmEon, Deposit, Receive, EnterEon, LockFirstWallet,
      LockSecondWallet, ReadIsCreated, ReadLooseFunds, StartCheckpoint,
      AcquireWriteLock, SnapshotWallet, FailAssertion, ReleaseWriteLock,
      CommitCheckpoint, SkipCheckpoint

LEMMA TypeStep ==
  ASSUME LedgerInv, [Next]_vars
  PROVE  TypeOK'
BY ChainTypeStep, RowsTypeStep, CheckpointTypeStep, LocalsTypeStep,
   ControlTypeStep, HistoryTypeStep
DEF LedgerInv, TypeOK
-----------------------------------------------------------------------------
(* Eons only pass, and the checkpoint is that of a confirmed one.          *)

LEMMA EonsInOrderStep ==
  ASSUME LedgerInv, [Next]_vars
  PROVE  EonsInOrder'
<1>0. /\ EonsInOrder
      /\ latest_eon \in Nat /\ confirmed_eon \in Nat /\ task.eon \in Nat
      /\ DOMAIN tx = Handlers /\ DOMAIN pc = Handlers /\ DOMAIN NoTransfer =
           {"wallet", "recipient", "eon", "amount", "spendings", "position"}
      /\ DOMAIN task = {"at", "eon", "next", "balances"}
  BY DEF LedgerInv, TypeOK, ChainTypeOK, CheckpointTypeOK, LocalsTypeOK,
         ControlTypeOK, Eons, NoTransfer
<1> USE <1>0 DEF EonsInOrder
<1>1. CASE NewEon \/ ConfirmEon \/ \E w \in Wallets : Deposit(w)
  <2>1. /\ UNCHANGED << task, tx, pc >>
        /\ confirmed_eon <= confirmed_eon' /\ confirmed_eon' <= latest_eon'
        /\ confirmed_eon' \in Nat
    BY <1>1 DEF NewEon, ConfirmEon, Deposit, checkpoint, locals, control
  <2>2. QED  BY <2>1
<1>2. ASSUME NEW h \in Handlers, Receive(h)
      PROVE  EonsInOrder'
  <2>1. PICK w \in Wallets, r \in Wallets, a \in Amounts :
             tx' = [tx EXCEPT ![h] = [NoTransfer EXCEPT !.wallet = w,
                      !.recipient = r, !.amount = a, !.eon = latest_eon]]
    BY <1>2 DEF Receive
  <2>2. tx'[h].eon = latest_eon
    BY <2>1 DEF NoTransfer
  <2>3. \A g \in Handlers \ {h} : tx'[g] = tx[g] /\ pc'[g] = pc[g]
    BY <1>2, <2>1 DEF Receive, Goto
  <2>4. QED  BY <1>2, <2>2, <2>3 DEF Receive, chain, checkpoint
<1>3. ASSUME NEW h \in Handlers,
             \/ EnterEon(h) \/ LockFirstWallet(h) \/ LockSecondWallet(h)
             \/ CheckEon(h) \/ ReadIsCreated(h) \/ ReadLooseFunds(h)
      PROVE  EonsInOrder'
  <2>1. /\ UNCHANGED << chain, checkpoint, tx >>
        /\ pc[h] # "idle"
        /\ \A g \in Handlers \ {h} : pc'[g] = pc[g]
    BY <1>3 DEF EnterEon, LockFirstWallet, LockSecondWallet, CheckEon,
                PassChecks, ReadIsCreated, ReadLooseFunds, Goto, locals,
                checkpoint
  <2>2. QED  BY <2>1 DEF chain, checkpoint
<1>4. ASSUME NEW h \in Handlers, ReadFunds(h)
      PROVE  EonsInOrder'
  <2>1. tx'[h].eon = tx[h].eon
    BY <1>4 DEF ReadFunds
  <2>2. \A g \in Handlers \ {h} : tx'[g] = tx[g] /\ pc'[g] = pc[g]
    BY <1>4 DEF ReadFunds, Goto
  <2>3. QED  BY <1>4, <2>1, <2>2 DEF ReadFunds, Goto, chain, checkpoint
<1>5. ASSUME NEW h \in Handlers, AppendTransfer(h) \/ RejectTransfer(h)
      PROVE  EonsInOrder'
  <2>1. pc'[h] = "idle"
    BY <1>5 DEF AppendTransfer, RejectTransfer, Goto
  <2>2. \A g \in Handlers \ {h} : tx'[g] = tx[g] /\ pc'[g] = pc[g]
    BY <1>5 DEF AppendTransfer, RejectTransfer, Goto
  <2>3. QED  BY <1>5, <2>1, <2>2 DEF AppendTransfer, RejectTransfer, chain,
                                     checkpoint
<1>6. CASE StartCheckpoint
  <2>1. task'.eon = latest_eon /\ confirmed_eon = latest_eon
    BY <1>6 DEF StartCheckpoint, CheckpointDue
  <2>2. QED  BY <1>6, <2>1 DEF StartCheckpoint, chain, locals, control
<1>7. CASE AcquireWriteLock \/ SnapshotWallet \/ ReleaseWriteLock
  <2>1. task'.eon = task.eon /\ task.at # "idle"
    BY <1>7 DEF AcquireWriteLock, SnapshotWallet, ReleaseWriteLock, TaskGoto
  <2>2. QED  BY <1>7, <2>1 DEF AcquireWriteLock, SnapshotWallet,
                ReleaseWriteLock, chain, locals, control
<1>8. CASE FailAssertion \/ CommitCheckpoint
  <2>1. task'.at = "idle" /\ UNCHANGED << chain, locals, control >>
    BY <1>8 DEF FailAssertion, CommitCheckpoint, NoTask
  <2>2. QED  BY <2>1 DEF chain, locals, control
<1>9. CASE SkipCheckpoint \/ UNCHANGED vars
  BY <1>9 DEF SkipCheckpoint, vars, chain, checkpoint, locals, control
<1>10. QED
  BY <1>1, <1>2, <1>3, <1>4, <1>5, <1>6, <1>7, <1>8, <1>9, Steps
-----------------------------------------------------------------------------
(* A step of one handler leaves the others, and the locks they own, alone. *)

Undisturbed(g) ==
  /\ pc'[g] = pc[g] /\ tx'[g] = tx[g]
  /\ \A w \in Wallets : wallet_lock[w] = g => wallet_lock'[w] = g

LEMMA HandlerFrame ==
  ASSUME TypeOK, NEW h \in Handlers, Receive(h) \/ HandlerStep(h),
         NEW g \in Handlers \ {h}
  PROVE  Undisturbed(g)
<1>0. /\ pc \in [Handlers -> HandlerPc] /\ DOMAIN tx = Handlers
      /\ wallet_lock \in [Wallets -> Handlers \cup {Free}]
  BY DEF TypeOK, ControlTypeOK, LocalsTypeOK
<1>1. pc'[g] = pc[g]
  BY ZenonT(60), <1>0 DEF Receive, HandlerStep, EnterEon, LockFirstWallet,
       LockSecondWallet,
              CheckEon, PassChecks, ReadIsCreated, ReadLooseFunds, ReadFunds,
              AppendTransfer, RejectTransfer, Goto
<1>2. tx'[g] = tx[g]
  BY ZenonT(60), <1>0 DEF Receive, HandlerStep, EnterEon, LockFirstWallet,
       LockSecondWallet,
              CheckEon, PassChecks, ReadIsCreated, ReadLooseFunds, ReadFunds,
              AppendTransfer, RejectTransfer, locals
<1>3. ASSUME NEW w \in Wallets, wallet_lock[w] = g
      PROVE  wallet_lock'[w] = g
  <2>1. CASE LockFirstWallet(h) \/ LockSecondWallet(h)
    BY <1>0, <1>3, <2>1 DEF LockFirstWallet, LockSecondWallet, Lock
  <2>2. CASE AppendTransfer(h) \/ RejectTransfer(h)
    BY <1>0, <1>3, <2>2 DEF AppendTransfer, RejectTransfer, Unlock
  <2>3. CASE UNCHANGED wallet_lock
    BY <1>3, <2>3
  <2>4. QED  BY <2>1, <2>2, <2>3 DEF Receive, HandlerStep, EnterEon, CheckEon,
                PassChecks, ReadIsCreated, ReadLooseFunds, ReadFunds
<1>4. QED  BY <1>1, <1>2, <1>3 DEF Undisturbed

(* Only handlers touch the rows, the locks and their own state.            *)
LEMMA StepKinds ==
  ASSUME [Next]_vars
  PROVE  \/ UNCHANGED << rows, wallet_lock, pc, tx >>
         \/ \E h \in Handlers : Receive(h) \/ HandlerStep(h)
BY SMTT(60) DEF Next, vars, NewEon, ConfirmEon, Deposit, TaskStep, StartCheckpoint,
       AcquireWriteLock, SnapshotWallet, FailAssertion, ReleaseWriteLock,
       CommitCheckpoint, SkipCheckpoint, rows, locals, control

(* Only the checkpoint task touches the checkpoints.                       *)
LEMMA CheckpointKinds ==
  ASSUME [Next]_vars
  PROVE  TaskStep \/ UNCHANGED checkpoint
BY Steps
   DEF vars, NewEon, ConfirmEon, Deposit, Receive, EnterEon, LockFirstWallet,
       LockSecondWallet, CheckEon,
       PassChecks, ReadIsCreated, ReadLooseFunds, ReadFunds, AppendTransfer,
       RejectTransfer, SkipCheckpoint, TaskStep

(* The handlers inside the locks own those of their two wallets, which     *)
(* nobody else does.                                                       *)
LEMMA LocksHeldStep ==
  ASSUME LedgerInv, [Next]_vars
  PROVE  LocksHeld'
<1>0. TypeOK /\ LocksHeld
  BY DEF LedgerInv
<1>00. /\ pc \in [Handlers -> HandlerPc]
       /\ wallet_lock \in [Wallets -> Handlers \cup {Free}]
       /\ \A h \in Handlers : tx[h].wallet \in Wallets /\ tx[h].recipient \in Wallets
       /\ DOMAIN tx = Handlers
  BY <1>0 DEF TypeOK, ControlTypeOK, LocalsTypeOK
<1>1. CASE UNCHANGED << rows, wallet_lock, pc, tx >>
  BY <1>0, <1>1 DEF LocksHeld, InLocks
<1>2. ASSUME NEW h \in Handlers, Receive(h) \/ HandlerStep(h)
      PROVE  LocksHeld'
  <2>1. \A g \in Handlers \ {h} :
           /\ pc'[g] # "idle" => tx'[g].wallet # tx'[g].recipient
           /\ pc'[g] = "second" => wallet_lock'[LockOrder(tx'[g])[1]] = g
           /\ InLocks(g)' => /\ wallet_lock'[tx'[g].wallet] = g
                             /\ wallet_lock'[tx'[g].recipient] = g
    BY <1>0, <1>00, <1>2, HandlerFrame DEF Undisturbed, LocksHeld, LockOrder, InLocks
  <2>2. /\ pc'[h] # "idle" => tx'[h].wallet # tx'[h].recipient
        /\ pc'[h] = "second" => wallet_lock'[LockOrder(tx'[h])[1]] = h
        /\ InLocks(h)' => /\ wallet_lock'[tx'[h].wallet] = h
                          /\ wallet_lock'[tx'[h].recipient] = h
    <3>1. CASE Receive(h)
      <4>1. PICK w \in Wallets, r \in Wallets, a \in Amounts :
              /\ w # r
              /\ tx' = [tx EXCEPT ![h] = [NoTransfer EXCEPT !.wallet = w,
                          !.recipient = r, !.amount = a, !.eon = latest_eon]]
        BY <3>1 DEF Receive
      <4>2. tx'[h].wallet = w /\ tx'[h].recipient = r
        BY <1>00, <4>1 DEF NoTransfer
      <4>3. pc'[h] = "locking"
        BY <1>00, <3>1 DEF Receive, Goto
      <4>4. QED  BY <4>1, <4>2, <4>3 DEF InLocks
    <3>2. CASE EnterEon(h)
      BY <1>0, <1>00, <3>2 DEF EnterEon, Goto, locals, LocksHeld, InLocks
    <3>3. CASE LockFirstWallet(h)
      BY <1>0, <1>00, <3>3 DEF LockFirstWallet, Lock, LockOrder, Goto, locals,
                               LocksHeld, InLocks
    <3>4. CASE LockSecondWallet(h)
      BY <1>0, <1>00, <3>4 DEF LockSecondWallet, Lock, LockOrder, Goto, locals,
                               LocksHeld, InLocks
    <3>5. CASE CheckEon(h) \/ ReadIsCreated(h) \/ ReadLooseFunds(h)
      BY SMTT(60), <1>0, <1>00, <3>5 DEF CheckEon,
                               PassChecks, ReadIsCreated, ReadLooseFunds, Goto,
                               locals, LocksHeld, InLocks
    <3>6. CASE ReadFunds(h)
      <4>1. tx'[h].wallet = tx[h].wallet /\ tx'[h].recipient = tx[h].recipient
        BY <1>00, <3>6 DEF ReadFunds
      <4>2. QED  BY <1>0, <1>00, <3>6, <4>1 DEF ReadFunds, Goto, LocksHeld, InLocks
    <3>7. CASE AppendTransfer(h) \/ RejectTransfer(h)
      <4>1. pc'[h] = "idle"
        BY <1>00, <3>7 DEF AppendTransfer, RejectTransfer, Goto
      <4>2. QED  BY <4>1 DEF InLocks
    <3>8. QED  BY <1>2, <3>1, <3>2, <3>3, <3>4, <3>5, <3>6, <3>7 DEF HandlerStep
  <2>3. QED  BY <2>1, <2>2 DEF LocksHeld
<1>3. QED  BY <1>1, <1>2, StepKinds
-----------------------------------------------------------------------------
(* What a handler writes: the rows of the two wallets it has locked, and   *)
(* nothing unless it appends its transfer.                                 *)

LEMMA AppendEffect ==
  ASSUME TypeOK, NEW h \in Handlers, AppendTransfer(h),
         NEW e \in Eons, NEW w \in Wallets
  PROVE  /\ ~(e = tx[h].eon /\ w = tx[h].wallet) =>
               spendings'[e][w] = spendings[e][w]
         /\ ~(e = tx[h].eon /\ w = tx[h].recipient) =>
               received'[e][w] = received[e][w] /\ last_in'[e][w] = last_in[e][w]
         /\ w # tx[h].wallet => touched'[w] = touched[w]
<1>1. /\ spendings \in [Eons -> [Wallets -> Nat]]
      /\ received \in [Eons -> [Wallets -> Nat]]
      /\ DOMAIN last_in = Eons /\ \A d \in Eons : DOMAIN last_in[d] = Wallets
      /\ touched \in [Wallets -> Eons]
      /\ tx[h].eon \in Eons /\ tx[h].wallet \in Wallets /\ tx[h].recipient \in Wallets
  BY SMTT(60) DEF TypeOK, RowsTypeOK, LocalsTypeOK
<1>2. QED  BY <1>1 DEF AppendTransfer

LEMMA OnlyAppendWrites ==
  ASSUME NEW h \in Handlers, Receive(h) \/ HandlerStep(h), ~AppendTransfer(h)
  PROVE  UNCHANGED rows
BY DEF Receive, HandlerStep, EnterEon, LockFirstWallet, LockSecondWallet, CheckEon,
       PassChecks, ReadIsCreated, ReadLooseFunds, ReadFunds, RejectTransfer

(* What a handler has read stays true while it holds its locks.            *)
LEMMA ReadsAreFreshStep ==
  ASSUME LedgerInv, [Next]_vars
  PROVE  ReadsAreFresh'
<1>0. TypeOK /\ LocksHeld /\ ReadsAreFresh
  BY DEF LedgerInv
<1>00. /\ pc \in [Handlers -> HandlerPc] /\ DOMAIN tx = Handlers
       /\ \A h \in Handlers : /\ tx[h].wallet \in Wallets /\ tx[h].eon \in Eons
                              /\ tx[h].recipient \in Wallets
                              /\ DOMAIN tx[h] = {"wallet", "recipient", "eon",
                                         "amount", "spendings", "position"}
  BY <1>0 DEF TypeOK, ControlTypeOK, LocalsTypeOK
<1>1. CASE UNCHANGED << rows, wallet_lock, pc, tx >>
  BY <1>0, <1>1 DEF ReadsAreFresh, InLocks, rows
<1>2. ASSUME NEW h \in Handlers, Receive(h) \/ HandlerStep(h)
      PROVE  ReadsAreFresh'
  <2> DEFINE Fresh(g) ==
        /\ InLocks(g) /\ pc[g] # "checks" => touched[tx[g].wallet] <= tx[g].eon
        /\ pc[g] = "append" =>
             /\ tx[g].position = received[tx[g].eon][tx[g].recipient]
             /\ tx[g].spendings =
                  spendings[tx[g].eon][tx[g].wallet] + tx[g].amount
  <2>0. \A g \in Handlers : Fresh(g)
    BY <1>0 DEF ReadsAreFresh
  <2>1. ASSUME NEW g \in Handlers \ {h}
        PROVE  Fresh(g)'
    <3>1. pc'[g] = pc[g] /\ tx'[g] = tx[g]
      BY <1>0, <1>2, HandlerFrame DEF Undisturbed
    <3>2. CASE AppendTransfer(h)
      <4>1. CASE InLocks(g)
        <5>1. /\ tx[g].wallet \notin {tx[h].wallet, tx[h].recipient}
              /\ tx[g].recipient \notin {tx[h].wallet, tx[h].recipient}
          BY <1>0, <3>2, <4>1 DEF AppendTransfer, Goto, LocksHeld, InLocks
        <5>2. QED  BY <1>0, <1>00, <2>0, <3>1, <3>2, <5>1, AppendEffect DEF InLocks
      <4>2. CASE ~InLocks(g)
        BY <3>1, <4>2 DEF InLocks
      <4>3. QED  BY <4>1, <4>2
    <3>3. CASE ~AppendTransfer(h)
      <4>1. UNCHANGED rows
        BY <1>2, <3>3, OnlyAppendWrites
      <4>2. QED  BY <2>0, <3>1, <4>1 DEF InLocks, rows
    <3>4. QED  BY <3>2, <3>3
  <2>2. Fresh(h)'
    <3>1. CASE CheckEon(h)
      BY <1>00, <3>1 DEF CheckEon, PassChecks, Goto, InLocks, locals, rows
    <3>2. CASE ReadIsCreated(h) \/ ReadLooseFunds(h)
      BY <1>00, <2>0, <3>2 DEF ReadIsCreated, ReadLooseFunds, Goto, InLocks, rows
    <3>3. CASE ReadFunds(h)
      <4>1. /\ tx'[h].wallet = tx[h].wallet /\ tx'[h].recipient = tx[h].recipient
            /\ tx'[h].eon = tx[h].eon /\ tx'[h].amount = tx[h].amount
            /\ tx'[h].position = received[tx[h].eon][tx[h].recipient]
            /\ tx'[h].spendings =
                 spendings[tx[h].eon][tx[h].wallet] + tx[h].amount
        BY <1>00, <3>3 DEF ReadFunds
      <4>2. /\ InLocks(h) /\ pc[h] # "checks"
            /\ UNCHANGED rows
        BY <3>3 DEF ReadFunds, Goto, InLocks
      <4>3. QED  BY <2>0, <4>1, <4>2 DEF rows
    <3>4. CASE \/ Receive(h) \/ EnterEon(h) \/ LockFirstWallet(h)
               \/ LockSecondWallet(h) \/ AppendTransfer(h) \/ RejectTransfer(h)
      <4>1. pc'[h] \in {"locking", "first", "second", "checks", "idle"}
        BY <1>00, <3>4 DEF Receive, EnterEon, LockFirstWallet, LockSecondWallet,
                           AppendTransfer, RejectTransfer, Goto
      <4>2. QED  BY SMTT(60), <4>1 DEF InLocks
    <3>5. QED  BY <1>2, <3>1, <3>2, <3>3, <3>4 DEF HandlerStep
  <2>3. QED  BY <2>1, <2>2 DEF ReadsAreFresh
<1>3. QED  BY <1>1, <1>2, StepKinds

(* A transfer starts where the last one to its recipient ends.             *)
LEMMA PassiveTilingStep ==
  ASSUME LedgerInv, [Next]_vars
  PROVE  PassiveTiling'
<1>0. TypeOK /\ ReadsAreFresh /\ PassiveTiling
  BY DEF LedgerInv
<1>1. CASE UNCHANGED rows
  BY <1>0, <1>1 DEF PassiveTiling, rows
<1>2. ASSUME NEW h \in Handlers, AppendTransfer(h)
      PROVE  PassiveTiling'
  <2> SUFFICES ASSUME NEW e \in Eons, NEW w \in Wallets
               PROVE  last_in'[e][w].position + last_in'[e][w].amount
                        = received'[e][w]
    BY DEF PassiveTiling
  <2>1. CASE e = tx[h].eon /\ w = tx[h].recipient
    <3>1. tx[h].position = received[e][w]
      BY <1>0, <1>2, <2>1 DEF ReadsAreFresh, AppendTransfer, Goto
    <3>2. /\ received \in [Eons -> [Wallets -> Nat]]
          /\ last_in \in [Eons -> [Wallets -> [position : Nat, amount : Nat]]]
      BY <1>0 DEF TypeOK, RowsTypeOK
    <3>3. tx[h].position >= last_in[e][w].position
      BY <1>0, <3>1, <3>2 DEF PassiveTiling
    <3>4. /\ received'[e][w] = received[e][w] + tx[h].amount
          /\ last_in'[e][w] = [position |-> tx[h].position, amount |-> tx[h].amount]
      BY <1>2, <2>1, <3>2, <3>3 DEF AppendTransfer
    <3>5. QED  BY <3>1, <3>4
  <2>2. CASE ~(e = tx[h].eon /\ w = tx[h].recipient)
    BY <1>0, <1>2, <2>2, AppendEffect DEF PassiveTiling
  <2>3. QED  BY <2>1, <2>2
<1>3. QED  BY <1>1, <1>2, StepKinds, OnlyAppendWrites
-----------------------------------------------------------------------------
(* The writer lock keeps the readers of the eon out while it is held.      *)

LEMMA WriterAloneStep ==
  ASSUME LedgerInv, [Next]_vars
  PROVE  WriterAlone'
<1>0. TypeOK /\ LocksHeld /\ WriterAlone
  BY DEF LedgerInv
<1>00. /\ pc \in [Handlers -> HandlerPc] /\ DOMAIN tx = Handlers
       /\ \A h \in Handlers : /\ tx[h].eon \in Eons
                              /\ DOMAIN tx[h] = {"wallet", "recipient", "eon",
                                         "amount", "spendings", "position"}
       /\ DOMAIN task = {"at", "eon", "next", "balances"}
  BY <1>0 DEF TypeOK, ControlTypeOK, LocalsTypeOK, CheckpointTypeOK
<1>1. ASSUME UNCHANGED << pc, tx >>, task.at # "waiting" \/ task'.at # "snapshot",
             task'.at = "snapshot" => task'.eon = task.eon,
             task'.at \in {"idle", "waiting"} => task'.next = 0,
             task'.at = "snapshot" => task.at = "snapshot"
      PROVE  WriterAlone'
  BY <1>0, <1>1 DEF WriterAlone, Reading, InLocks
<1>2. CASE UNCHANGED << pc, tx, task >>
  BY <1>0, <1>2 DEF WriterAlone, Reading, InLocks
<1>3. ASSUME NEW h \in Handlers, Receive(h) \/ HandlerStep(h)
      PROVE  WriterAlone'
  <2>0. task' = task
    BY <1>3 DEF Receive, HandlerStep, EnterEon, LockFirstWallet, LockSecondWallet,
                CheckEon, PassChecks, ReadIsCreated, ReadLooseFunds, ReadFunds,
                AppendTransfer, RejectTransfer, checkpoint
  <2>1. ASSUME task.at = "snapshot", NEW g \in Handlers \ {h}
        PROVE  ~Reading(g, task.eon - 1)'
    <3>1. pc'[g] = pc[g] /\ tx'[g] = tx[g]
      BY <1>0, <1>3, HandlerFrame DEF Undisturbed
    <3>2. QED  BY <1>0, <2>0, <2>1, <3>1 DEF WriterAlone, Reading, InLocks
  <2>2. ASSUME task.at = "snapshot"
        PROVE  ~Reading(h, task.eon - 1)'
    <3>1. CASE EnterEon(h)
      BY <1>00, <2>0, <2>2, <3>1 DEF EnterEon, EonOpen, Goto, Reading, InLocks, locals
    <3>2. CASE Receive(h) \/ AppendTransfer(h) \/ RejectTransfer(h)
      <4>1. pc'[h] \in {"locking", "idle"}
        BY <1>00, <3>2 DEF Receive, AppendTransfer, RejectTransfer, Goto
      <4>2. QED  BY SMTT(60), <4>1 DEF Reading, InLocks
    <3>3. CASE \/ LockFirstWallet(h) \/ LockSecondWallet(h)
               \/ CheckEon(h) \/ ReadIsCreated(h) \/ ReadLooseFunds(h)
               \/ ReadFunds(h)
      <4>1. tx'[h].eon = tx[h].eon
        BY <1>00, <3>3 DEF LockFirstWallet, LockSecondWallet, CheckEon,
                           PassChecks, ReadIsCreated, ReadLooseFunds, ReadFunds,
                           locals
      <4>2. InLocks(h) \/ pc[h] \in {"first", "second"}
        BY <3>3 DEF LockFirstWallet, LockSecondWallet, CheckEon,
                    PassChecks, ReadIsCreated, ReadLooseFunds, ReadFunds, Goto,
                    InLocks
      <4>3. QED  BY <1>0, <2>0, <2>2, <4>1, <4>2 DEF WriterAlone, Reading
    <3>4. QED  BY <1>3, <3>1, <3>2, <3>3 DEF HandlerStep
  <2>3. QED  BY SMTT(60), <1>0, <2>0, <2>1, <2>2 DEF WriterAlone
<1>4. CASE AcquireWriteLock
  <2>1. task'.at = "snapshot" /\ task'.eon = task.eon
    BY <1>00, <1>4 DEF AcquireWriteLock, TaskGoto
  <2>2. QED  BY <1>4, <2>1 DEF AcquireWriteLock, WriterAlone, Reading, InLocks,
                               locals, control
<1>5. CASE StartCheckpoint \/ SnapshotWallet \/ ReleaseWriteLock
  <2>1. CASE StartCheckpoint
    BY <1>0, <1>00, <2>1 DEF StartCheckpoint, WriterAlone
  <2>2. CASE SnapshotWallet
    BY <1>0, <1>00, <1>1, <2>2 DEF SnapshotWallet, locals, control
  <2>3. CASE ReleaseWriteLock
    BY <1>00, <2>3 DEF ReleaseWriteLock, TaskGoto, WriterAlone
  <2>4. QED  BY <1>5, <2>1, <2>2, <2>3
<1>6. CASE FailAssertion \/ CommitCheckpoint
  BY <1>6 DEF FailAssertion, CommitCheckpoint, NoTask, WriterAlone
<1>7. QED
  BY <1>2, <1>3, <1>4, <1>5, <1>6
  DEF Next, vars, NewEon, ConfirmEon, Deposit, TaskStep, SkipCheckpoint,
      checkpoint, locals, control
-----------------------------------------------------------------------------
(* The balances a checkpoint has noted stay those of the eon it freezes:   *)
(* no handler of that eon is in, and no deposit of it is still to come.    *)

LEMMA FundsStandStill ==
  ASSUME LedgerInv, [Next]_vars, task.at = "snapshot",
         NEW e \in Eons, e = task.eon - 1, NEW w \in Wallets
  PROVE  AvailableFunds(w, e)' = AvailableFunds(w, e)
<1>0. TypeOK /\ EonsInOrder /\ WriterAlone
  BY DEF LedgerInv
<1>00. /\ confirmed_eon \in Eons /\ task.eon \in Eons
       /\ deposits \in [Eons -> [Wallets -> Nat]]
  BY <1>0 DEF TypeOK, ChainTypeOK, CheckpointTypeOK
<1>000. confirmed_eon # e
  BY <1>0, <1>00 DEF EonsInOrder, Eons
<1>1. allotments' = allotments
  BY SMTT(60), CheckpointKinds
  DEF TaskStep, StartCheckpoint, AcquireWriteLock, SnapshotWallet, FailAssertion,
      ReleaseWriteLock, CommitCheckpoint, checkpoint
<1>2. deposits'[e][w] = deposits[e][w]
  <2>1. ASSUME NEW v \in Wallets, Deposit(v)
        PROVE  deposits'[e][w] = deposits[e][w]
    BY <1>00, <1>000, <2>1 DEF Deposit
  <2>2. CASE UNCHANGED deposits
    BY <2>2
  <2>3. QED
    BY <2>1, <2>2, Steps
    DEF vars, NewEon, ConfirmEon, Receive, EnterEon, LockFirstWallet,
        LockSecondWallet, CheckEon,
        PassChecks, ReadIsCreated, ReadLooseFunds, ReadFunds, AppendTransfer,
        RejectTransfer, StartCheckpoint, AcquireWriteLock,
        SnapshotWallet, FailAssertion, ReleaseWriteLock, CommitCheckpoint,
        SkipCheckpoint, chain
<1>3. spendings'[e][w] = spendings[e][w] /\ received'[e][w] = received[e][w]
  <2>1. CASE UNCHANGED rows
    BY <2>1 DEF rows
  <2>2. ASSUME NEW h \in Handlers, AppendTransfer(h)
        PROVE  spendings'[e][w] = spendings[e][w] /\ received'[e][w] = received[e][w]
    <3>1. tx[h].eon # e
      BY <1>0, <2>2 DEF AppendTransfer, Goto, WriterAlone, Reading, InLocks
    <3>2. QED  BY <1>0, <2>2, <3>1, AppendEffect
  <2>3. QED  BY <2>1, <2>2, StepKinds, OnlyAppendWrites
<1>4. QED  BY <1>1, <1>2, <1>3 DEF AvailableFunds

LEMMA SnapshotConsistentStep ==
  ASSUME LedgerInv, [Next]_vars
  PROVE  SnapshotConsistent'
<1>0. TypeOK /\ EonsInOrder /\ WriterAlone /\ PassiveTiling /\ SnapshotConsistent
  BY DEF LedgerInv
<1>00. /\ DOMAIN task = {"at", "eon", "next", "balances"}
       /\ task.eon \in Eons /\ task.next \in 0 .. NumWallets
       /\ DOMAIN task.balances = Wallets
  BY <1>0 DEF TypeOK, CheckpointTypeOK
<1>1. CASE task' = task
  <2> SUFFICES ASSUME task.at = "snapshot", NEW w \in Wallets, w < task.next
               PROVE  task.balances[w] = AvailableFunds(w, task.eon - 1)'
    BY <1>1 DEF SnapshotConsistent
  <2>1. task.eon - 1 \in Eons
    BY <1>0, <1>00 DEF EonsInOrder, Eons
  <2>2. DEFINE e == task.eon - 1
  <2>3. AvailableFunds(w, e)' = AvailableFunds(w, e)
    <3>1. AvailableFunds(w, e)' = AvailableFunds(w, task.eon - 1)'
      OBVIOUS
    <3>2. \A d \in Eons : d = task.eon - 1 =>
             AvailableFunds(w, d)' = AvailableFunds(w, d)
      BY FundsStandStill
    <3>3. QED  BY <1>1, <2>1, <3>2
  <2>4. QED  BY <1>0, <1>1, <2>3 DEF SnapshotConsistent
<1>2. CASE AcquireWriteLock
  <2>1. task'.next = 0
    BY <1>0, <1>00, <1>2 DEF AcquireWriteLock, TaskGoto, WriterAlone
  <2>2. QED  BY <2>1 DEF SnapshotConsistent, Wallets
<1>3. CASE SnapshotWallet
  <2>1. /\ UNCHANGED << allotments, deposits, spendings, received >>
        /\ task'.eon = task.eon /\ task'.next = task.next + 1
        /\ task.next \in Wallets
        /\ task'.balances = [task.balances EXCEPT ![task.next] =
                               AppendedFunds(task.next, task.eon - 1)]
        /\ task.at = "snapshot"
    BY <1>00, <1>3 DEF SnapshotWallet, chain, rows
  <2>2. AppendedFunds(task.next, task.eon - 1)
          = AvailableFunds(task.next, task.eon - 1)
    <3>1. task.eon - 1 \in Eons
      BY <1>0, <1>00, <2>1 DEF EonsInOrder, Eons
    <3>2. /\ last_in \in [Eons -> [Wallets -> [position : Nat, amount : Nat]]]
          /\ received \in [Eons -> [Wallets -> Nat]]
          /\ allotments[task.eon - 1][task.next] \in Nat
          /\ deposits[task.eon - 1][task.next] \in Nat
          /\ spendings[task.eon - 1][task.next] \in Nat
      BY <1>0, <2>1, <3>1 DEF TypeOK, RowsTypeOK, ChainTypeOK, CheckpointTypeOK
    <3>3. last_in[task.eon - 1][task.next].position
            + last_in[task.eon - 1][task.next].amount
            = received[task.eon - 1][task.next]
      BY <1>0, <2>1, <3>1 DEF PassiveTiling
    <3>4. QED
      BY <2>1, <3>1, <3>2, <3>3 DEF AppendedFunds, AvailableFunds
  <2>3. QED
    BY <1>0, <1>00, <2>1, <2>2 DEF SnapshotConsistent, AvailableFunds, Wallets
<1>4. CASE task'.at # "snapshot"
  BY <1>4 DEF SnapshotConsistent
<1>5. CASE StartCheckpoint \/ FailAssertion \/ ReleaseWriteLock \/ CommitCheckpoint
  <2>1. NoTask.at = "idle"
    BY DEF NoTask
  <2>2. task'.at \in {"idle", "waiting", "commit"}
    BY <1>00, <1>5, <2>1 DEF StartCheckpoint, FailAssertion, ReleaseWriteLock,
                             CommitCheckpoint, TaskGoto
  <2>3. QED  BY <1>4, <2>2
<1>6. QED
  BY <1>1, <1>2, <1>3, <1>5, CheckpointKinds DEF TaskStep, checkpoint
-----------------------------------------------------------------------------

(* The inductive invariant, part by part.                                  *)
THEOREM LedgerInvariant == Spec => []LedgerInv
<1>1. LedgerInv /\ [Next]_vars => LedgerInv'
  BY TypeStep, EonsInOrderStep, LocksHeldStep, ReadsAreFreshStep,
     WriterAloneStep, PassiveTilingStep, SnapshotConsistentStep
  DEF LedgerInv
<1>2. QED  BY <1>1, InitInv, PTL DEF Spec

(* The rows, the locks and what the handlers and the checkpoint task have  *)
(* read stay in their types; a noted balance is never negative.            *)
THEOREM TypeCorrect == Spec => []TypeOK
BY LedgerInvariant, PTL DEF LedgerInv

(* The transfers a wallet receives in an eon tile what it received.        *)
THEOREM PassiveTilingHolds == Spec => []PassiveTiling
BY LedgerInvariant, PTL DEF LedgerInv

(* While the checkpoint holds its writer lock, no deposit and no transfer  *)
(* changes a balance it has noted.                                         *)
THEOREM SnapshotStandsStill == Spec => []SnapshotConsistent
BY LedgerInvariant, PTL DEF LedgerInv

(* A wallet that has sent in an eon never sends in an earlier one again.   *)
THEOREM TouchedEonStaysClosed == Spec => TouchedEonIsClosed
<1> DEFINE Closed == \A e \in Eons, w \in Wallets :
                       e < touched[w] => spendings'[e][w] = spendings[e][w]
<1>1. LedgerInv /\ [Next]_vars => Closed
  <2> SUFFICES ASSUME LedgerInv, [Next]_vars, NEW e \in Eons, NEW w \in Wallets,
                      e < touched[w]
               PROVE  spendings'[e][w] = spendings[e][w]
    OBVIOUS
  <2>1. CASE UNCHANGED rows
    BY <2>1 DEF rows
  <2>2. ASSUME NEW h \in Handlers, AppendTransfer(h)
        PROVE  spendings'[e][w] = spendings[e][w]
    <3>1. touched[tx[h].wallet] <= tx[h].eon
      BY <2>2 DEF AppendTransfer, Goto, LedgerInv, ReadsAreFresh, InLocks
    <3>2. touched[w] \in Nat /\ e \in Nat
      BY DEF LedgerInv, TypeOK, RowsTypeOK, Eons
    <3>3. ~(e = tx[h].eon /\ w = tx[h].wallet)
      BY <3>1, <3>2
    <3>4. QED  BY <2>2, <3>3, AppendEffect DEF LedgerInv
  <2>3. QED  BY <2>1, <2>2, StepKinds, OnlyAppendWrites
<1>2. QED  BY <1>1, LedgerInvariant, PTL DEF Spec, TouchedEonIsClosed
-----------------------------------------------------------------------------
(* Checkpoints are those of confirmed eons, none is missed, and the task   *)
(* works on the one eon that has none yet.                                 *)
FenceEons ==
  /\ commitments \subseteq 1 .. confirmed_eon
  /\ 1 .. latest_eon - 1 \subseteq commitments
  /\ task.at # "idle" => /\ task.eon = latest_eon /\ latest_eon = confirmed_eon
                         /\ latest_eon \notin commitments
  /\ \A h \in Handlers : tx[h].eon <= latest_eon

(* An eon is behind its checkpoint once the lock of that is released.      *)
Behind(e) == e + 1 \in commitments \/ Committing(e + 1)

PastChecks(h) == InLocks(h) /\ pc[h] # "checks"

(* The handlers that write behind a checkpoint are those that passed their *)
(* checks in the gap before its commit.                                    *)
GapIsKnown ==
  \A h \in Handlers : h \in gap <=> PastChecks(h) /\ Behind(tx[h].eon)

LateBehind == \A e \in Eons, w \in Wallets : ~Behind(e) => late[e][w] = 0

(* What a wallet owned in an eon when it fell behind its checkpoint is     *)
(* what waits to be committed.                                             *)
Settled(w, e) == AvailableFunds(w, e) - late[e][w]

CommitStands ==
  task.at = "commit" =>
    \A w \in Wallets : task.balances[w] = Settled(w, task.eon - 1)

FenceInv == /\ FenceEons /\ GapIsKnown /\ LateBehind /\ CommitStands
            /\ OnlyTheGapLeaks

(* The rows and the variables of handlers and task, in their types.        *)
LEMMA TypedRows ==
  ASSUME TypeOK
  PROVE  /\ pc \in [Handlers -> HandlerPc] /\ DOMAIN tx = Handlers
         /\ task.eon \in Nat
         /\ DOMAIN task = {"at", "eon", "next", "balances"}
         /\ \A h \in Handlers : /\ tx[h].eon \in Eons /\ tx[h].eon \in Nat
                                /\ tx[h].wallet \in Wallets
                                /\ tx[h].recipient \in Wallets
                                /\ tx[h].amount \in Nat
                                /\ DOMAIN tx[h] = {"wallet", "recipient", "eon",
                                           "amount", "spendings", "position"}
BY SMTT(60) DEF TypeOK, ControlTypeOK, LocalsTypeOK, CheckpointTypeOK, Eons

LEMMA RowsAreNumbers ==
  ASSUME TypeOK
  PROVE  /\ deposits \in [Eons -> [Wallets -> Nat]]
         /\ spendings \in [Eons -> [Wallets -> Nat]]
         /\ received \in [Eons -> [Wallets -> Nat]]
         /\ allotments \in [Eons -> [Wallets -> Nat]]
         /\ late \in [Eons -> [Wallets -> Int]]
         /\ touched \in [Wallets -> Eons]
         /\ latest_eon \in Eons /\ confirmed_eon \in Eons
BY DEF TypeOK, ChainTypeOK, RowsTypeOK, CheckpointTypeOK, HistoryTypeOK

LEMMA FenceInit == Init => FenceInv
<1> SUFFICES ASSUME Init PROVE FenceInv
  OBVIOUS
<1> USE DEF Init
<1>1. FenceEons
  BY DEF FenceEons, NoTask, NoTransfer
<1>2. GapIsKnown /\ LateBehind
  BY DEF GapIsKnown, PastChecks, InLocks, LateBehind, Zero
<1>3. CommitStands /\ OnlyTheGapLeaks
  BY DEF CommitStands, OnlyTheGapLeaks, NoTask
<1>4. QED  BY <1>1, <1>2, <1>3 DEF FenceInv
-----------------------------------------------------------------------------
(* Eons and the task.                                                      *)

LEMMA FenceEonsStep ==
  ASSUME LedgerInv, FenceEons, [Next]_vars
  PROVE  FenceEons'
<1>0. /\ EonsInOrder
      /\ latest_eon \in Nat /\ confirmed_eon \in Nat /\ task.eon \in Nat
      /\ \A h \in Handlers : tx[h].eon \in Nat
      /\ DOMAIN tx = Handlers /\ DOMAIN task = {"at", "eon", "next", "balances"}
  BY DEF LedgerInv, TypeOK, ChainTypeOK, CheckpointTypeOK, LocalsTypeOK, Eons
<1>1. CASE NewEon
  BY <1>0, <1>1 DEF NewEon, FenceEons, checkpoint, locals
<1>2. CASE ConfirmEon
  BY <1>0, <1>2 DEF ConfirmEon, FenceEons, EonsInOrder, checkpoint, locals
<1>3. CASE \E w \in Wallets : Deposit(w)
  BY <1>3 DEF Deposit, FenceEons, checkpoint, locals
<1>4. ASSUME NEW h \in Handlers, Receive(h) \/ HandlerStep(h)
      PROVE  FenceEons'
  <2>1. UNCHANGED << latest_eon, confirmed_eon, task, commitments >>
    BY <1>4 DEF Receive, HandlerStep, EnterEon, LockFirstWallet, LockSecondWallet,
                CheckEon, PassChecks, ReadIsCreated, ReadLooseFunds, ReadFunds,
                AppendTransfer, RejectTransfer, chain, checkpoint
  <2>2. tx'[h].eon <= latest_eon
    <3>1. CASE Receive(h)
      <4>1. PICK w \in Wallets, r \in Wallets, a \in Amounts :
              tx' = [tx EXCEPT ![h] = [NoTransfer EXCEPT !.wallet = w,
                       !.recipient = r, !.amount = a, !.eon = latest_eon]]
        BY <3>1 DEF Receive
      <4>2. tx'[h].eon = latest_eon
        BY <1>0, <4>1 DEF NoTransfer
      <4>3. QED  BY <1>0, <4>2
    <3>2. CASE AppendTransfer(h) \/ RejectTransfer(h)
      BY <1>0, <3>2 DEF AppendTransfer, RejectTransfer, NoTransfer
    <3>3. CASE ReadFunds(h)
      BY <1>0, <3>3 DEF ReadFunds, FenceEons
    <3>4. CASE UNCHANGED tx
      BY <3>4 DEF FenceEons
    <3>5. QED  BY <1>4, <3>1, <3>2, <3>3, <3>4 DEF HandlerStep, EnterEon,
                  LockFirstWallet, LockSecondWallet, CheckEon,
                  PassChecks, ReadIsCreated, ReadLooseFunds, locals
  <2>3. \A g \in Handlers \ {h} : tx'[g] = tx[g]
    BY <1>4, HandlerFrame DEF Undisturbed, LedgerInv
  <2>4. QED  BY SMTT(60), <2>1, <2>2, <2>3 DEF FenceEons
<1>5. CASE StartCheckpoint
  BY <1>0, <1>5 DEF StartCheckpoint, CheckpointDue, FenceEons, chain, locals
<1>6. CASE AcquireWriteLock \/ SnapshotWallet \/ ReleaseWriteLock
  <2>1. /\ task.at # "idle" /\ task'.eon = task.eon
        /\ UNCHANGED << latest_eon, confirmed_eon, commitments, tx >>
    BY <1>0, <1>6 DEF AcquireWriteLock, SnapshotWallet, ReleaseWriteLock, TaskGoto,
                      chain, locals
  <2>2. QED  BY <2>1 DEF FenceEons
<1>7. CASE FailAssertion
  BY <1>7 DEF FailAssertion, NoTask, FenceEons, chain, locals
<1>8. CASE CommitCheckpoint
  <2>1. /\ task.eon = confirmed_eon /\ task'.at = "idle"
        /\ commitments' = commitments \cup {task.eon}
        /\ UNCHANGED << latest_eon, confirmed_eon, tx >>
    BY <1>8 DEF CommitCheckpoint, NoTask, FenceEons, chain, locals
  <2>2. QED  BY <1>0, <2>1 DEF FenceEons, EonsInOrder
<1>9. CASE SkipCheckpoint \/ UNCHANGED vars
  BY <1>9 DEF SkipCheckpoint, vars, chain, checkpoint, locals, FenceEons
<1>10. QED
  BY <1>1, <1>2, <1>3, <1>4, <1>5, <1>6, <1>7, <1>8, <1>9
  DEF Next, TaskStep
-----------------------------------------------------------------------------
(* What disturbs the funds of a wallet in an eon: a deposit, a transfer    *)
(* whose handler has passed its checks, and the eon's own checkpoint.      *)

LEMMA AllotmentsStand ==
  ASSUME TypeOK, [Next]_vars, NEW e \in Eons, NEW w \in Wallets,
         task.at = "commit" => e # task.eon
  PROVE  allotments'[e][w] = allotments[e][w]
<1>1. allotments \in [Eons -> [Wallets -> Nat]]
  BY DEF TypeOK, CheckpointTypeOK
<1>2. CASE CommitCheckpoint
  BY SMTT(60), <1>1, <1>2 DEF CommitCheckpoint
<1>3. QED  BY <1>2, CheckpointKinds DEF TaskStep, StartCheckpoint,
              AcquireWriteLock, SnapshotWallet, FailAssertion, ReleaseWriteLock,
              checkpoint

LEMMA DepositsOnly ==
  ASSUME TypeOK, [Next]_vars, NEW e \in Eons, NEW w \in Wallets
  PROVE  /\ deposits'[e][w] >= deposits[e][w]
         /\ e # confirmed_eon \/ wallet_lock[w] # Free =>
              deposits'[e][w] = deposits[e][w]
<1>1. deposits \in [Eons -> [Wallets -> Nat]] /\ confirmed_eon \in Eons
  BY DEF TypeOK, ChainTypeOK
<1>2. ASSUME NEW v \in Wallets, Deposit(v)
      PROVE  /\ deposits'[e][w] >= deposits[e][w]
             /\ e # confirmed_eon \/ wallet_lock[w] # Free =>
                  deposits'[e][w] = deposits[e][w]
  <2>1. PICK a \in Amounts :
          /\ wallet_lock[v] = Free
          /\ deposits' = [deposits EXCEPT ![confirmed_eon][v] = @ + a]
    BY <1>2 DEF Deposit
  <2>2. QED  BY <1>1, <2>1
<1>3. CASE UNCHANGED deposits
  BY <1>1, <1>3
<1>4. QED
  BY <1>2, <1>3, Steps
  DEF vars, NewEon, ConfirmEon, Receive, EnterEon, LockFirstWallet,
      LockSecondWallet, CheckEon,
      PassChecks, ReadIsCreated, ReadLooseFunds, ReadFunds, AppendTransfer,
      RejectTransfer, StartCheckpoint, AcquireWriteLock,
      SnapshotWallet, FailAssertion, ReleaseWriteLock, CommitCheckpoint,
      SkipCheckpoint, chain

LEMMA AppendOrNot ==
  ASSUME [Next]_vars
  PROVE  \/ UNCHANGED << rows, late, straddled >>
         \/ \E h \in Handlers : AppendTransfer(h)
BY ZenonT(60), Steps
   DEF vars, NewEon, ConfirmEon, Deposit, Receive, EnterEon, LockFirstWallet,
       LockSecondWallet, CheckEon, PassChecks, ReadIsCreated, ReadLooseFunds,
       ReadFunds, RejectTransfer, StartCheckpoint, AcquireWriteLock,
       SnapshotWallet, FailAssertion, ReleaseWriteLock, CommitCheckpoint,
       SkipCheckpoint, rows, history

(* A transfer moves its amount from the sender to the recipient, in its    *)
(* eon, and if its handler was in the gap it is noted as late.             *)
Moves(h, e, w) ==
  IF e # tx[h].eon THEN 0
  ELSE IF w = tx[h].wallet THEN - tx[h].amount
  ELSE IF w = tx[h].recipient THEN tx[h].amount
  ELSE 0

LEMMA TransferEffect ==
  ASSUME LedgerInv, NEW h \in Handlers, AppendTransfer(h), NEW e \in Eons,
         NEW w \in Wallets
  PROVE  /\ AvailableFunds(w, e) \in Int /\ Moves(h, e, w) \in Int
         /\ late[e][w] \in Int
         /\ AvailableFunds(w, e)' = AvailableFunds(w, e) + Moves(h, e, w)
         /\ late'[e][w] = late[e][w] + IF h \in gap THEN Moves(h, e, w) ELSE 0
<1>0. TypeOK /\ LocksHeld /\ ReadsAreFresh
  BY DEF LedgerInv
<1>1. /\ deposits[e][w] \in Nat /\ spendings[e][w] \in Nat
      /\ received[e][w] \in Nat /\ allotments[e][w] \in Nat
      /\ late[e][w] \in Int
  BY <1>0, RowsAreNumbers
<1>2. /\ tx[h].amount \in Nat /\ tx[h].eon \in Eons /\ tx[h].wallet \in Wallets
      /\ tx[h].recipient \in Wallets
  BY <1>0, TypedRows
<1>3. /\ deposits'[e][w] = deposits[e][w] /\ allotments'[e][w] = allotments[e][w]
      /\ spendings' = [spendings EXCEPT ![tx[h].eon][tx[h].wallet] = tx[h].spendings]
      /\ received' = [received EXCEPT ![tx[h].eon][tx[h].recipient] = @ + tx[h].amount]
      /\ pc[h] = "append"
  BY DEF AppendTransfer, Goto, chain, checkpoint
<1>4. /\ tx[h].wallet # tx[h].recipient
      /\ tx[h].spendings = spendings[tx[h].eon][tx[h].wallet] + tx[h].amount
  BY <1>0, <1>3 DEF LocksHeld, ReadsAreFresh, InLocks
<1>5. /\ spendings \in [Eons -> [Wallets -> Nat]]
      /\ received \in [Eons -> [Wallets -> Nat]]
      /\ late \in [Eons -> [Wallets -> Int]]
  BY <1>0, RowsAreNumbers
<1>6. received'[e][w] = received[e][w] + (IF e = tx[h].eon /\ w = tx[h].recipient
                                          THEN tx[h].amount ELSE 0)
  BY <1>1, <1>2, <1>3, <1>5
<1>7. spendings'[e][w] = spendings[e][w] + (IF e = tx[h].eon /\ w = tx[h].wallet
                                            THEN tx[h].amount ELSE 0)
  BY <1>1, <1>2, <1>3, <1>4, <1>5
<1>8. AvailableFunds(w, e)' = AvailableFunds(w, e) + Moves(h, e, w)
  BY <1>1, <1>2, <1>3, <1>4, <1>6, <1>7 DEF AvailableFunds, Moves
<1>9. late'[e][w] = late[e][w] + IF h \in gap THEN Moves(h, e, w) ELSE 0
  <2>1. late' = IF h \in gap THEN LateTransfer(h) ELSE late
    BY DEF AppendTransfer
  <2>2. CASE h \in gap /\ e = tx[h].eon
    <3>1. late'[e] = [v \in Wallets |->
            IF v = tx[h].wallet THEN late[e][v] - tx[h].amount
            ELSE IF v = tx[h].recipient THEN late[e][v] + tx[h].amount
            ELSE late[e][v]]
      BY <1>5, <2>1, <2>2 DEF LateTransfer
    <3> QED BY <1>1, <1>2, <2>2, <3>1 DEF Moves
  <2>3. CASE h \in gap /\ e # tx[h].eon
    BY <1>1, <1>5, <2>1, <2>3 DEF LateTransfer, Moves
  <2>4. CASE h \notin gap
    BY <1>1, <2>1, <2>4
  <2> QED BY <2>2, <2>3, <2>4
<1>10. QED
  BY <1>1, <1>2, <1>8, <1>9 DEF AvailableFunds, Moves
-----------------------------------------------------------------------------
(* An eon falls behind its checkpoint when the lock is released, and stays *)
(* there.                                                                  *)

LEMMA BehindStep ==
  ASSUME LedgerInv, [Next]_vars, NEW e \in Eons
  PROVE  Behind(e)' <=> Behind(e) \/ (ReleaseWriteLock /\ e = task.eon - 1)
<1>0. /\ DOMAIN task = {"at", "eon", "next", "balances"}
      /\ task.eon \in Nat /\ e \in Nat
  BY TypedRows DEF LedgerInv, Eons
<1>1. CASE UNCHANGED << commitments, task >>
  <2>1. ~ReleaseWriteLock
    BY <1>0, <1>1 DEF ReleaseWriteLock, TaskGoto
  <2> QED BY <1>1, <2>1 DEF Behind, Committing
<1>2. CASE StartCheckpoint \/ AcquireWriteLock \/ SnapshotWallet \/ FailAssertion
  <2>1. task.at # "commit" /\ task'.at # "commit" /\ commitments' = commitments
    <3>1. CASE StartCheckpoint
      BY <1>0, <3>1 DEF StartCheckpoint
    <3>2. CASE AcquireWriteLock
      BY <1>0, <3>2 DEF AcquireWriteLock, TaskGoto
    <3>3. CASE SnapshotWallet
      BY <1>0, <3>3 DEF SnapshotWallet
    <3>4. CASE FailAssertion
      BY <3>4 DEF FailAssertion, NoTask
    <3> QED BY <1>2, <3>1, <3>2, <3>3, <3>4
  <2>2. ~ReleaseWriteLock
    BY <1>0, <2>1 DEF ReleaseWriteLock, TaskGoto
  <2> QED BY <2>1, <2>2 DEF Behind, Committing
<1>3. CASE ReleaseWriteLock
  <2>1. /\ task.at # "commit" /\ task'.at = "commit" /\ task'.eon = task.eon
        /\ commitments' = commitments
    BY <1>0, <1>3 DEF ReleaseWriteLock, TaskGoto
  <2> QED BY <1>0, <1>3, <2>1 DEF Behind, Committing
<1>4. CASE CommitCheckpoint
  <2>1. /\ task.at = "commit" /\ task'.at = "idle"
        /\ commitments' = commitments \cup {task.eon}
    BY <1>4 DEF CommitCheckpoint, NoTask
  <2>2. ~ReleaseWriteLock
    BY <2>1 DEF ReleaseWriteLock, TaskGoto
  <2> QED BY <2>1, <2>2 DEF Behind, Committing
<1>5. QED
  BY <1>1, <1>2, <1>3, <1>4, CheckpointKinds DEF TaskStep, checkpoint

LEMMA GapStep ==
  ASSUME LedgerInv, FenceInv, [Next]_vars
  PROVE  GapIsKnown'
<1>0. TypeOK /\ FenceEons /\ GapIsKnown /\ WriterAlone
  BY DEF LedgerInv, FenceInv
<1>00. /\ pc \in [Handlers -> HandlerPc] /\ DOMAIN tx = Handlers
       /\ \A h \in Handlers : tx[h].eon \in Eons
       /\ gap \subseteq Handlers
  BY <1>0, TypedRows DEF TypeOK, HistoryTypeOK
<1>1. ASSUME NEW g \in Handlers, pc'[g] = pc[g], tx'[g] = tx[g],
             g \in gap' <=> g \in gap
      PROVE  g \in gap' <=> PastChecks(g)' /\ Behind(tx[g].eon)'
  <2> DEFINE e == tx[g].eon
  <2>1. Behind(e)' <=> Behind(e) \/ (ReleaseWriteLock /\ e = task.eon - 1)
    <3>1. \A d \in Eons : Behind(d)' <=>
             Behind(d) \/ (ReleaseWriteLock /\ d = task.eon - 1)
      BY BehindStep
    <3>2. \A d \in Eons : d = e => (Behind(e)' <=> Behind(d)')
      BY <1>1 DEF Behind, Committing
    <3> QED BY <1>00, <3>1, <3>2
  <2>2. PastChecks(g) => ~(ReleaseWriteLock /\ e = task.eon - 1)
    BY <1>0 DEF ReleaseWriteLock, TaskGoto, WriterAlone, Reading, PastChecks
  <2>3. PastChecks(g)' <=> PastChecks(g)
    BY <1>1 DEF PastChecks, InLocks
  <2> QED BY <1>0, <1>1, <2>1, <2>2, <2>3 DEF GapIsKnown
<1>2. CASE UNCHANGED << pc, tx, gap >>
  BY <1>1, <1>2 DEF GapIsKnown
<1>3. ASSUME NEW h \in Handlers, Receive(h) \/ HandlerStep(h)
      PROVE  GapIsKnown'
  <2>1. \A g \in Handlers \ {h} :
           pc'[g] = pc[g] /\ tx'[g] = tx[g] /\ (g \in gap' <=> g \in gap)
    <3>1. \A g \in Handlers \ {h} : g \in gap' <=> g \in gap
      BY ZenonT(60), <1>3 DEF Receive, HandlerStep, EnterEon, LockFirstWallet,
             LockSecondWallet, CheckEon, PassChecks, ReadIsCreated,
             ReadLooseFunds, ReadFunds, AppendTransfer, RejectTransfer, history
    <3> QED BY SMTT(60), <1>0, <1>3, <3>1, HandlerFrame DEF Undisturbed
  <2>2. UNCHANGED << task, commitments >>
    BY <1>3 DEF Receive, HandlerStep, EnterEon, LockFirstWallet, LockSecondWallet,
                CheckEon, PassChecks, ReadIsCreated, ReadLooseFunds, ReadFunds,
                AppendTransfer, RejectTransfer, checkpoint
  <2>3. h \in gap' <=> PastChecks(h)' /\ Behind(tx[h].eon)'
    <3>1. CASE CheckEon(h)
      <4>1. /\ pc[h] = "checks" /\ pc'[h] = "created" /\ tx' = tx
            /\ gap' = IF Committing(tx[h].eon + 1) THEN gap \cup {h} ELSE gap
            /\ tx[h].eon + 1 \notin commitments
        BY <1>00, <3>1 DEF CheckEon, PassChecks, Goto, locals
      <4>2. h \notin gap
        BY <1>0, <4>1 DEF GapIsKnown, PastChecks
      <4>3. Behind(tx[h].eon)' <=> Committing(tx[h].eon + 1)
        BY <2>2, <4>1 DEF Behind, Committing
      <4> QED BY <4>1, <4>2, <4>3 DEF PastChecks, InLocks
    <3>2. CASE ReadIsCreated(h) \/ ReadLooseFunds(h) \/ ReadFunds(h)
      <4>1. /\ pc[h] \in {"created", "previous", "funds"}
            /\ pc'[h] \in {"previous", "funds", "append"}
            /\ tx'[h].eon = tx[h].eon /\ gap' = gap
        BY <1>00, <3>2, TypedRows, <1>0 DEF ReadIsCreated, ReadLooseFunds, ReadFunds,
               Goto, history
      <4>2. PastChecks(h) /\ PastChecks(h)'
        BY <4>1 DEF PastChecks, InLocks
      <4>3. Behind(tx[h].eon)' <=> Behind(tx[h].eon)
        BY <2>2, <4>1 DEF Behind, Committing
      <4> QED BY <1>0, <4>1, <4>2, <4>3 DEF GapIsKnown
    <3>3. CASE \/ Receive(h) \/ EnterEon(h) \/ LockFirstWallet(h)
               \/ LockSecondWallet(h)
      <4>1. /\ pc[h] \in {"idle", "locking", "first", "second"}
            /\ pc'[h] \in {"locking", "first", "second", "checks"}
            /\ gap' = gap
        BY <1>00, <3>3 DEF Receive, EnterEon, LockFirstWallet, LockSecondWallet,
                           Goto, history
      <4> QED BY <1>0, <4>1 DEF GapIsKnown, PastChecks, InLocks
    <3>4. CASE AppendTransfer(h) \/ RejectTransfer(h)
      <4>1. pc'[h] = "idle" /\ h \notin gap'
        BY <1>00, <3>4 DEF AppendTransfer, RejectTransfer, Goto
      <4> QED BY <4>1 DEF PastChecks, InLocks
    <3> QED BY <1>3, <3>1, <3>2, <3>3, <3>4 DEF HandlerStep
  <2> QED BY <1>1, <2>1, <2>3 DEF GapIsKnown
<1>4. QED
  BY <1>2, <1>3
  DEF Next, vars, NewEon, ConfirmEon, Deposit, TaskStep, StartCheckpoint,
      AcquireWriteLock, SnapshotWallet, FailAssertion, ReleaseWriteLock,
      CommitCheckpoint, SkipCheckpoint, locals, control, history

LEMMA LateBehindStep ==
  ASSUME LedgerInv, FenceInv, [Next]_vars
  PROVE  LateBehind'
<1> SUFFICES ASSUME NEW e \in Eons, NEW w \in Wallets, ~Behind(e)'
             PROVE  late'[e][w] = 0
  BY DEF LateBehind
<1>1. ~Behind(e) /\ late[e][w] = 0
  BY BehindStep DEF FenceInv, LateBehind
<1>2. ASSUME NEW h \in Handlers, AppendTransfer(h)
      PROVE  late'[e][w] = 0
  <2>1. e = tx[h].eon => h \notin gap
    BY <1>1, <1>2 DEF FenceInv, GapIsKnown
  <2> QED BY <1>1, <1>2, <2>1, TransferEffect DEF Moves
<1> QED BY <1>1, <1>2, AppendOrNot

(* What is settled stands: what still moves in an eon behind its           *)
(* checkpoint is late.                                                     *)
LEMMA SettledStands ==
  ASSUME LedgerInv, FenceInv, [Next]_vars, NEW e \in Eons, NEW w \in Wallets,
         e # confirmed_eon, task.at = "commit" => e # task.eon, Behind(e)
  PROVE  Settled(w, e)' = Settled(w, e)
<1>0. TypeOK /\ GapIsKnown
  BY DEF LedgerInv, FenceInv
<1>1. deposits'[e][w] = deposits[e][w] /\ allotments'[e][w] = allotments[e][w]
  BY <1>0, DepositsOnly, AllotmentsStand
<1>2. CASE UNCHANGED << rows, late >>
  BY <1>1, <1>2 DEF Settled, AvailableFunds, rows
<1>3. ASSUME NEW h \in Handlers, AppendTransfer(h)
      PROVE  Settled(w, e)' = Settled(w, e)
  <2>1. e = tx[h].eon => h \in gap
    BY <1>0, <1>3 DEF GapIsKnown, PastChecks, InLocks, AppendTransfer, Goto
  <2>2. e # tx[h].eon => Moves(h, e, w) = 0
    BY DEF Moves
  <2>3. /\ AvailableFunds(w, e) \in Int /\ Moves(h, e, w) \in Int
        /\ late[e][w] \in Int
        /\ AvailableFunds(w, e)' = AvailableFunds(w, e) + Moves(h, e, w)
        /\ late'[e][w] = late[e][w] + IF h \in gap THEN Moves(h, e, w) ELSE 0
    BY <1>3, TransferEffect
  <2>4. late'[e][w] = late[e][w] + Moves(h, e, w)
    BY <2>1, <2>2, <2>3
  <2>5. Settled(w, e)' = AvailableFunds(w, e)' - late'[e][w]
    BY DEF Settled
  <2> QED BY <2>3, <2>4, <2>5 DEF Settled
<1> QED BY <1>2, <1>3, AppendOrNot

LEMMA CommitStandsStep ==
  ASSUME LedgerInv, FenceInv, [Next]_vars
  PROVE  CommitStands'
<1>0. /\ TypeOK /\ EonsInOrder /\ WriterAlone /\ SnapshotConsistent
      /\ FenceEons /\ CommitStands /\ LateBehind
  BY DEF LedgerInv, FenceInv
<1>00. /\ DOMAIN task = {"at", "eon", "next", "balances"}
       /\ task.eon \in Eons /\ task.eon \in Nat /\ confirmed_eon \in Nat
  BY <1>0 DEF TypeOK, CheckpointTypeOK, ChainTypeOK, Eons
<1>1. ASSUME task' = task, task.at = "commit", NEW w \in Wallets
      PROVE  task.balances[w] = Settled(w, task.eon - 1)'
  <2>1. /\ task.eon - 1 \in Eons /\ task.eon = confirmed_eon
        /\ Committing(task.eon - 1 + 1)
    BY <1>0, <1>00, <1>1 DEF FenceEons, EonsInOrder, Eons, Committing
  <2>2. \A e \in Eons : e = task.eon - 1 => Settled(w, e)' = Settled(w, e)
    BY <1>00, <2>1, SettledStands DEF Behind
  <2>3. \A e \in Eons : e = task.eon - 1 =>
           Settled(w, task.eon - 1)' = Settled(w, e)'
    BY <1>1 DEF Settled, AvailableFunds
  <2> QED BY <1>0, <1>1, <2>1, <2>2, <2>3 DEF CommitStands
<1>2. CASE ReleaseWriteLock
  <2>1. /\ task.at = "snapshot" /\ task.next = NumWallets
        /\ task'.eon = task.eon /\ task'.balances = task.balances
        /\ UNCHANGED << allotments, deposits, spendings, received, late >>
        /\ task.eon - 1 \in Eons
    BY <1>0, <1>00, <1>2 DEF ReleaseWriteLock, TaskGoto, chain, rows, history,
                             EonsInOrder, Eons
  <2>2. \A w \in Wallets : task.balances[w] = AvailableFunds(w, task.eon - 1)
    BY <1>0, <2>1 DEF SnapshotConsistent, Wallets
  <2>3. ~Behind(task.eon - 1)
    BY <1>0, <1>00, <2>1 DEF Behind, Committing, FenceEons
  <2>4. ASSUME NEW w \in Wallets
        PROVE  task.balances[w] = Settled(w, task.eon - 1)
    <3>1. late[task.eon - 1][w] = 0
      BY <1>0, <2>1, <2>3 DEF LateBehind
    <3>2. AvailableFunds(w, task.eon - 1) \in Int
      BY <1>0, <2>1, FundsAreNumbers
    <3> QED BY <2>2, <3>1, <3>2 DEF Settled
  <2> QED BY <2>1, <2>4 DEF CommitStands, Settled, AvailableFunds
<1>3. CASE task'.at # "commit"
  BY <1>3 DEF CommitStands
<1>4. CASE \/ StartCheckpoint \/ AcquireWriteLock \/ SnapshotWallet
           \/ FailAssertion \/ CommitCheckpoint
  <2>1. CASE StartCheckpoint \/ AcquireWriteLock
    BY <1>00, <1>3, <2>1 DEF StartCheckpoint, AcquireWriteLock, TaskGoto
  <2>2. CASE SnapshotWallet
    BY <1>00, <1>3, <2>2 DEF SnapshotWallet
  <2>3. CASE FailAssertion \/ CommitCheckpoint
    BY <1>3, <2>3 DEF FailAssertion, CommitCheckpoint, NoTask
  <2>4. QED  BY <1>4, <2>1, <2>2, <2>3
<1>5. CASE task' = task
  BY <1>1, <1>3, <1>5 DEF CommitStands
<1>6. QED  BY <1>2, <1>4, <1>5, CheckpointKinds DEF TaskStep, checkpoint

LEMMA OnlyTheGapLeaksStep ==
  ASSUME LedgerInv, FenceInv, [Next]_vars
  PROVE  OnlyTheGapLeaks'
<1>0. TypeOK /\ EonsInOrder /\ FenceEons /\ CommitStands /\ OnlyTheGapLeaks
  BY DEF LedgerInv, FenceInv
<1>00. /\ commitments \subseteq Eons /\ confirmed_eon \in Nat
       /\ task.eon \in Nat /\ DOMAIN allotments = Eons
  BY <1>0, TypedRows DEF TypeOK, CheckpointTypeOK, ChainTypeOK, Eons
<1>1. ASSUME NEW e \in Eons, e >= 1, e <= confirmed_eon,
             e \in commitments \/ Committing(e), NEW w \in Wallets
      PROVE  Settled(w, e - 1)' = Settled(w, e - 1)
  <2>1. /\ e - 1 \in Eons /\ e - 1 # confirmed_eon /\ e - 1 + 1 = e
        /\ task.at = "commit" => e - 1 # task.eon
    BY <1>0, <1>00, <1>1 DEF Eons, FenceEons
  <2>2. Behind(e - 1)
    BY <1>1, <2>1 DEF Behind
  <2>3. \A d \in Eons : d = e - 1 => Settled(w, d)' = Settled(w, d)
    BY <2>1, <2>2, SettledStands
  <2> QED BY <2>1, <2>3
<1>2. ASSUME NEW e \in commitments, e # 1, NEW w \in Wallets
      PROVE  allotments'[e][w] = Settled(w, e - 1)'
  <2>1. /\ e \in Eons /\ e >= 1 /\ e <= confirmed_eon
        /\ task.at = "commit" => e # task.eon
    BY <1>0, <1>00, <1>2 DEF FenceEons
  <2>2. Settled(w, e - 1)' = Settled(w, e - 1)
    BY <1>1, <2>1
  <2>3. allotments'[e][w] = allotments[e][w]
    BY <1>0, <2>1, AllotmentsStand
  <2>4. QED  BY <1>0, <1>2, <2>2, <2>3 DEF OnlyTheGapLeaks, Settled
<1>3. CASE commitments' = commitments
  BY <1>2, <1>3 DEF OnlyTheGapLeaks, Settled
<1>4. CASE CommitCheckpoint
  <2>1. /\ task.at = "commit" /\ commitments' = commitments \cup {task.eon}
        /\ task.eon \in Eons /\ task.eon >= 1 /\ task.eon = confirmed_eon
        /\ Committing(task.eon)
    BY <1>0, <1>4 DEF CommitCheckpoint, FenceEons, EonsInOrder, TypeOK,
                      CheckpointTypeOK, Committing
  <2>2. ASSUME NEW e \in Eons, e = task.eon, NEW w \in Wallets
        PROVE  allotments'[e][w] = Settled(w, e - 1)'
    <3>1. allotments'[e][w] = Settled(w, e - 1)
      BY <1>0, <1>00, <1>4, <2>1, <2>2 DEF CommitCheckpoint, CommitStands
    <3>2. e >= 1 /\ e <= confirmed_eon /\ Committing(e)
      BY <1>00, <2>1, <2>2 DEF Committing
    <3>3. Settled(w, e - 1)' = Settled(w, e - 1)
      BY <1>1, <3>2
    <3> QED BY <3>1, <3>3
  <2>3. QED  BY <1>2, <2>1, <2>2 DEF OnlyTheGapLeaks, Settled
<1>5. QED
  BY <1>3, <1>4, CheckpointKinds
  DEF TaskStep, StartCheckpoint, AcquireWriteLock, SnapshotWallet, FailAssertion,
      ReleaseWriteLock, checkpoint

LEMMA FenceInvStep ==
  ASSUME LedgerInv, FenceInv, [Next]_vars
  PROVE  FenceInv'
BY FenceEonsStep, GapStep, LateBehindStep, CommitStandsStep, OnlyTheGapLeaksStep
DEF FenceInv

(* What leaks through a checkpoint is what passed through the gap between  *)
(* the release of its lock and its commit, to the last unit: the allotment *)
(* of a wallet is what it owns at the end of the eon before, less what the *)
(* handlers that looked into the gap moved.                                *)
THEOREM GapAccountsForEveryLeak == Spec => []OnlyTheGapLeaks
<1>1. Init => FenceInv
  BY FenceInit
<1>2. LedgerInv /\ FenceInv /\ [Next]_vars => FenceInv'
  BY FenceInvStep
<1>3. FenceInv => OnlyTheGapLeaks
  BY DEF FenceInv
<1>4. QED  BY <1>1, <1>2, <1>3, LedgerInvariant, PTL DEF Spec
-----------------------------------------------------------------------------
(* Nobody overspends but by a race.  Beside the fence this needs that the  *)
(* rows of what has not begun are empty, and that what a handler has found *)
(* out about the sender's funds stands until it writes, the races aside.   *)

Blank ==
  \A e \in Eons, w \in Wallets :
    /\ e > latest_eon => /\ deposits[e][w] = 0 /\ spendings[e][w] = 0
                         /\ received[e][w] = 0
    /\ e \notin commitments => allotments[e][w] = 0
    /\ touched[w] < e => spendings[e][w] = 0

(* What a wallet may spend in an eon.                                      *)
Sendable(w, e) ==
  AvailableFunds(w, e) + IF e \in commitments THEN 0 ELSE AvailableFunds(w, e - 1)

(* The races a wallet is excused by.                                       *)
Excused(w) == w \in straddled \/ \E e \in Eons : late[e][w] > 0

Budget(h) ==
  LET t == tx[h] IN
  /\ pc[h] \in {"previous", "funds"} /\ is_created[h] => t.eon \in commitments
  /\ pc[h] = "funds" /\ is_created[h] => loose_funds[h] = 0
  /\ pc[h] = "funds" /\ ~is_created[h] /\ t.eon \notin commitments =>
       loose_funds[h] = AvailableFunds(t.wallet, t.eon - 1)
  /\ pc[h] = "append" => \/ h \in twice
                         \/ late[t.eon - 1][t.wallet] > 0
                         \/ t.amount <= Sendable(t.wallet, t.eon)

BudgetStands == \A h \in Handlers : Budget(h)

SolventInv == Blank /\ BudgetStands /\ OverspentByRaceOnly

LEMMA SolventInit == Init => SolventInv
<1> SUFFICES ASSUME Init PROVE SolventInv
  OBVIOUS
<1> USE DEF Init
<1>1. Blank
  BY DEF Blank, Zero
<1>2. BudgetStands
  BY DEF BudgetStands, Budget
<1>3. OverspentByRaceOnly
  <2>1. \A w \in Wallets : AvailableFunds(w, 1) = 0
    BY SMTT(60) DEF AvailableFunds, Zero, Eons
  <2>2. QED  BY <2>1 DEF OverspentByRaceOnly, Spendable
<1>4. QED  BY <1>1, <1>2, <1>3 DEF SolventInv

LEMMA BlankStep ==
  ASSUME LedgerInv, FenceInv, Blank, [Next]_vars
  PROVE  Blank'
<1>0. TypeOK /\ EonsInOrder /\ FenceEons
  BY DEF LedgerInv, FenceInv
<1>01. /\ deposits \in [Eons -> [Wallets -> Nat]]
       /\ spendings \in [Eons -> [Wallets -> Nat]]
       /\ received \in [Eons -> [Wallets -> Nat]]
       /\ allotments \in [Eons -> [Wallets -> Nat]]
       /\ touched \in [Wallets -> Eons]
       /\ latest_eon \in Eons /\ confirmed_eon \in Eons
  BY <1>0, RowsAreNumbers
<1>02. /\ Eons \subseteq Nat
       /\ confirmed_eon <= latest_eon
       /\ \A h \in Handlers : tx[h].eon <= latest_eon /\ tx[h].eon \in Nat
  BY <1>0, TypedRows DEF EonsInOrder, FenceEons, Eons
<1>00. latest_eon \in Nat /\ confirmed_eon \in Nat
       /\ \A w \in Wallets : touched[w] \in Nat
  BY <1>01, <1>02
<1>1. CASE NewEon
  BY <1>00, <1>02, <1>1 DEF NewEon, Blank, rows, checkpoint
<1>2. ASSUME NEW v \in Wallets, Deposit(v)
      PROVE  Blank'
  <2>1. /\ UNCHANGED << latest_eon, spendings, received, touched, commitments,
                        allotments >>
        /\ \A e \in Eons, w \in Wallets :
             e # confirmed_eon => deposits'[e][w] = deposits[e][w]
    BY <1>01, <1>2 DEF Deposit, rows, checkpoint
  <2>2. \A e \in Eons : e > latest_eon => e # confirmed_eon
    BY <1>00, <1>02
  <2>3. QED  BY <2>1, <2>2 DEF Blank
<1>3. ASSUME NEW h \in Handlers, AppendTransfer(h)
      PROVE  Blank'
  <2>1. /\ UNCHANGED << latest_eon, deposits, commitments, allotments >>
        /\ touched' = [touched EXCEPT ![tx[h].wallet] =
                         IF @ < tx[h].eon THEN tx[h].eon ELSE @]
    BY <1>3 DEF AppendTransfer, chain, checkpoint
  <2> SUFFICES ASSUME NEW e \in Eons, NEW w \in Wallets
               PROVE  /\ e > latest_eon => spendings'[e][w] = 0 /\ received'[e][w] = 0
                      /\ touched'[w] < e => spendings'[e][w] = 0
    BY <2>1 DEF Blank
  <2>2. /\ ~(e = tx[h].eon /\ w = tx[h].wallet) => spendings'[e][w] = spendings[e][w]
        /\ e # tx[h].eon => received'[e][w] = received[e][w]
    BY <1>0, <1>3, AppendEffect
  <2>3. touched'[w] >= touched[w] /\ (w = tx[h].wallet => touched'[w] >= tx[h].eon)
    BY <1>00, <1>01, <1>02, <2>1
  <2>4. touched'[w] \in Nat /\ touched[w] \in Nat /\ e \in Nat
    BY <1>00, <1>01, <1>02, <2>1
  <2>5. QED  BY <1>00, <1>02, <2>2, <2>3, <2>4 DEF Blank
<1>4. CASE CommitCheckpoint
  <2>1. /\ commitments' = commitments \cup {task.eon}
        /\ allotments' = [allotments EXCEPT ![task.eon] = task.balances]
        /\ UNCHANGED << latest_eon, deposits, spendings, received, touched >>
    BY <1>4 DEF CommitCheckpoint, chain, rows
  <2>2. QED  BY <1>00, <1>01, <2>1 DEF Blank
<1>5. CASE UNCHANGED << latest_eon, deposits, rows, commitments, allotments >>
  BY <1>5 DEF Blank, rows
<1>6. QED
  BY ZenonT(60), <1>1, <1>2, <1>3, <1>4, <1>5, Steps
  DEF vars, ConfirmEon, Receive, EnterEon, LockFirstWallet, LockSecondWallet,
      CheckEon,
      PassChecks, ReadIsCreated, ReadLooseFunds, ReadFunds, RejectTransfer,
      StartCheckpoint, AcquireWriteLock, SnapshotWallet, FailAssertion,
      ReleaseWriteLock, SkipCheckpoint, chain, checkpoint

(* A commit moves what a wallet has over into its allotment, less what has *)
(* come late.                                                              *)
LEMMA CommitMovesFunds ==
  ASSUME LedgerInv, FenceInv, Blank, CommitCheckpoint, NEW w \in Wallets,
         NEW e \in Eons, 1 <= e, e <= latest_eon
  PROVE  /\ Sendable(w, e) \in Int /\ late[e - 1][w] \in Int
         /\ Sendable(w, e)' = Sendable(w, e) - IF e = task.eon
                                               THEN late[e - 1][w] ELSE 0
<1>0. TypeOK /\ FenceEons /\ CommitStands
  BY DEF LedgerInv, FenceInv
<1>1. /\ allotments \in [Eons -> [Wallets -> Nat]]
      /\ task.at = "commit" /\ task.eon = latest_eon /\ task.eon \notin commitments
      /\ task.eon \in Eons
      /\ commitments' = commitments \cup {task.eon}
      /\ allotments' = [allotments EXCEPT ![task.eon] = task.balances]
      /\ UNCHANGED << deposits, spendings, received >>
  BY <1>0, RowsAreNumbers DEF CommitCheckpoint, FenceEons, chain, rows
<1>2. e - 1 \in Eons /\ e - 1 # task.eon
  BY <1>1 DEF Eons
<1>3. AvailableFunds(w, e - 1)' = AvailableFunds(w, e - 1)
  BY <1>1, <1>2 DEF AvailableFunds
<1>0a. /\ AvailableFunds(w, e) \in Int /\ AvailableFunds(w, e - 1) \in Int
       /\ late[e - 1][w] \in Int
  BY <1>0, <1>2, FundsAreNumbers, RowsAreNumbers
<1>4. CASE e # task.eon
  BY <1>0a, <1>1, <1>3, <1>4 DEF Sendable, AvailableFunds
<1>5. CASE e = task.eon
  <2>1. /\ allotments[e][w] = 0
        /\ allotments'[e][w] = AvailableFunds(w, e - 1) - late[e - 1][w]
    BY <1>0, <1>1, <1>5 DEF Blank, CommitStands, Settled
  <2>2. /\ deposits[e][w] \in Int /\ spendings[e][w] \in Int
        /\ received[e][w] \in Int
    BY <1>0, RowsAreNumbers
  <2>3. AvailableFunds(w, e)'
          = AvailableFunds(w, e) + AvailableFunds(w, e - 1) - late[e - 1][w]
    BY <1>0a, <1>1, <2>1, <2>2 DEF AvailableFunds
  <2>4. e \in commitments' /\ e \notin commitments
    BY <1>1, <1>5
  <2>5. /\ Sendable(w, e)' = AvailableFunds(w, e)'
        /\ Sendable(w, e) = AvailableFunds(w, e) + AvailableFunds(w, e - 1)
    BY <1>0a, <2>3, <2>4 DEF Sendable
  <2>6. QED  BY <1>0a, <1>5, <2>3, <2>5
<1>6. QED  BY <1>4, <1>5

(* Nobody but its owner writes rows of a locked wallet.                    *)
LEMMA GuardedRows ==
  ASSUME LedgerInv, [Next]_vars, NEW g \in Handlers, InLocks(g),
         ~AppendTransfer(g), NEW e \in Eons, NEW w \in Wallets, w = tx[g].wallet
  PROVE  /\ deposits'[e][w] = deposits[e][w]
         /\ spendings'[e][w] = spendings[e][w]
         /\ received'[e][w] = received[e][w]
<1>0. TypeOK /\ LocksHeld
  BY DEF LedgerInv
<1>1. wallet_lock[w] = g /\ wallet_lock[w] # Free
  BY <1>0 DEF LocksHeld
<1>2. deposits'[e][w] = deposits[e][w]
  BY <1>0, <1>1, DepositsOnly
<1>3. spendings'[e][w] = spendings[e][w] /\ received'[e][w] = received[e][w]
  <2>1. CASE UNCHANGED rows
    BY <2>1 DEF rows
  <2>2. ASSUME NEW h \in Handlers, AppendTransfer(h)
        PROVE  spendings'[e][w] = spendings[e][w] /\ received'[e][w] = received[e][w]
    <3>1. h # g /\ InLocks(h)
      BY <2>2 DEF AppendTransfer, Goto, InLocks
    <3>2. w # tx[h].wallet /\ w # tx[h].recipient
      BY <1>0, <1>1, <3>1 DEF LocksHeld
    <3>3. QED  BY SMTT(60), <1>0, <2>2, <3>2, AppendEffect
  <2>3. QED  BY <2>1, <2>2, StepKinds, OnlyAppendWrites
<1>4. QED  BY <1>2, <1>3

(* Nor does anybody else's transfer come late for a locked wallet.         *)
LEMMA GuardedLate ==
  ASSUME LedgerInv, [Next]_vars, NEW g \in Handlers, InLocks(g),
         ~AppendTransfer(g), NEW e \in Eons, NEW w \in Wallets, w = tx[g].wallet
  PROVE  late'[e][w] = late[e][w]
<1>0. TypeOK /\ LocksHeld
  BY DEF LedgerInv
<1>1. wallet_lock[w] = g
  BY <1>0 DEF LocksHeld
<1>2. ASSUME NEW h \in Handlers, AppendTransfer(h)
      PROVE  late'[e][w] = late[e][w]
  <2>1. h # g /\ InLocks(h)
    BY <1>2 DEF AppendTransfer, Goto, InLocks
  <2>2. w # tx[h].wallet /\ w # tx[h].recipient
    BY SMTT(60), <1>0, <1>1, <2>1 DEF LocksHeld
  <2>3. QED  BY <1>2, <2>2, TransferEffect DEF Moves
<1>3. QED  BY <1>2, AppendOrNot

(* Others leave a handler's own variables alone.                           *)
LEMMA LocalsFrame ==
  ASSUME TypeOK, NEW h \in Handlers, Receive(h) \/ HandlerStep(h),
         NEW g \in Handlers \ {h}
  PROVE  /\ is_created'[g] = is_created[g] /\ loose_funds'[g] = loose_funds[g]
         /\ g \in twice' <=> g \in twice
<1>1. DOMAIN is_created = Handlers /\ DOMAIN loose_funds = Handlers
  BY DEF TypeOK, LocalsTypeOK
<1>2. QED
  BY <1>1 DEF Receive, HandlerStep, EnterEon, LockFirstWallet, LockSecondWallet,
              CheckEon, PassChecks, ReadIsCreated, ReadLooseFunds, ReadFunds,
              AppendTransfer, RejectTransfer, locals, history

LEMMA BudgetStep ==
  ASSUME LedgerInv, FenceInv, Blank, BudgetStands, [Next]_vars
  PROVE  BudgetStands'
<1> SUFFICES ASSUME NEW g \in Handlers
             PROVE  Budget(g)'
  BY DEF BudgetStands
<1>0. TypeOK /\ EonsInOrder /\ FenceEons /\ Budget(g)
  BY DEF LedgerInv, FenceInv, BudgetStands
<1>00. /\ pc \in [Handlers -> HandlerPc] /\ DOMAIN tx = Handlers
       /\ tx[g].wallet \in Wallets /\ tx[g].eon \in Eons /\ tx[g].eon \in Nat
       /\ tx[g].amount \in Nat
       /\ DOMAIN tx[g] = {"wallet", "recipient", "eon", "amount", "spendings",
                          "position"}
       /\ DOMAIN is_created = Handlers /\ DOMAIN loose_funds = Handlers
       /\ is_created[g] \in BOOLEAN
  BY <1>0, TypedRows DEF TypeOK, LocalsTypeOK
<1>1. CASE pc'[g] \notin {"previous", "funds", "append"}
  BY <1>1 DEF Budget
<1>2. ASSUME pc[g] # "idle"
      PROVE  1 <= tx[g].eon /\ tx[g].eon <= latest_eon /\ tx[g].eon - 1 \in Eons
  BY <1>0, <1>00, <1>2 DEF EonsInOrder, FenceEons, Eons
<1>3. ASSUME InLocks(g), ~AppendTransfer(g), ~CommitCheckpoint, NEW e \in Eons,
             NEW w \in Wallets, w = tx[g].wallet
      PROVE  AvailableFunds(w, e)' = AvailableFunds(w, e)
  <2>1. allotments' = allotments
    BY <1>3, CheckpointKinds DEF TaskStep, StartCheckpoint, AcquireWriteLock,
          SnapshotWallet, FailAssertion, ReleaseWriteLock, checkpoint
  <2>2. QED  BY <1>3, <2>1, GuardedRows DEF AvailableFunds
<1>4. ~CommitCheckpoint => commitments' = commitments
  BY CheckpointKinds DEF TaskStep, StartCheckpoint, AcquireWriteLock,
     SnapshotWallet, FailAssertion, ReleaseWriteLock, checkpoint
<1>5. ASSUME pc'[g] = pc[g], tx'[g] = tx[g], is_created'[g] = is_created[g],
             loose_funds'[g] = loose_funds[g], g \in twice' <=> g \in twice,
             ~AppendTransfer(g), ~CommitCheckpoint
      PROVE  Budget(g)'
  <2> SUFFICES ASSUME InLocks(g)
               PROVE  Budget(g)'
    BY <1>1, <1>5 DEF InLocks
  <2>1. tx[g].eon - 1 \in Eons
    BY <1>2 DEF InLocks
  <2> DEFINE w == tx[g].wallet
             e == tx[g].eon
  <2>2. \A v \in Wallets, d \in Eons : v = tx[g].wallet =>
          /\ AvailableFunds(v, d)' = AvailableFunds(v, d)
          /\ late'[d][v] = late[d][v]
    BY <1>3, <1>5, GuardedLate
  <2>3. /\ AvailableFunds(w, e)' = AvailableFunds(w, e)
        /\ AvailableFunds(w, e - 1)' = AvailableFunds(w, e - 1)
        /\ late'[e - 1][w] = late[e - 1][w]
    <3>1. w' = w /\ e' = e
      BY <1>5
    <3>2. \A v \in Wallets, d \in Eons :
            /\ (v = w /\ d = e) =>
                 AvailableFunds(w, e)' = AvailableFunds(v, d)'
            /\ (v = w /\ d = e - 1) =>
                 AvailableFunds(w, e - 1)' = AvailableFunds(v, d)'
      BY <3>1 DEF AvailableFunds
    <3>3. QED  BY <1>00, <2>1, <2>2, <3>2
  <2>4. Sendable(w, e)' = Sendable(w, e)
    BY <1>4, <1>5, <2>3 DEF Sendable
  <2> QED BY <1>0, <1>4, <1>5, <2>3, <2>4 DEF Budget
<1>6. CASE CommitCheckpoint
  <2>1. /\ UNCHANGED << pc, tx, is_created, loose_funds, twice, late >>
        /\ commitments' = commitments \cup {task.eon}
        /\ task.eon = latest_eon
        /\ allotments' = [allotments EXCEPT ![task.eon] = task.balances]
        /\ UNCHANGED << deposits, spendings, received >>
    BY <1>0, <1>6 DEF CommitCheckpoint, locals, control, history, chain, rows,
                      FenceEons
  <2> SUFFICES ASSUME pc[g] \in {"previous", "funds", "append"}
               PROVE  Budget(g)'
    BY <1>1, <2>1
  <2>2. 1 <= tx[g].eon /\ tx[g].eon <= latest_eon /\ tx[g].eon - 1 \in Eons
    BY <1>2
  <2>3. AvailableFunds(tx[g].wallet, tx[g].eon - 1)'
          = AvailableFunds(tx[g].wallet, tx[g].eon - 1)
    <3>1. tx[g].eon - 1 # task.eon /\ latest_eon \in Nat
      BY <1>0, <1>00, <2>1, <2>2, RowsAreNumbers DEF Eons
    <3>2. allotments'[tx[g].eon - 1] = allotments[tx[g].eon - 1]
      BY <1>0, <2>1, <2>2, <3>1, RowsAreNumbers
    <3> QED BY <2>1, <3>2 DEF AvailableFunds
  <2>4. /\ late[tx[g].eon - 1][tx[g].wallet] \in Int
        /\ Sendable(tx[g].wallet, tx[g].eon) \in Int
        /\ Sendable(tx[g].wallet, tx[g].eon)' = Sendable(tx[g].wallet, tx[g].eon)
             - IF tx[g].eon = task.eon
               THEN late[tx[g].eon - 1][tx[g].wallet] ELSE 0
    <3>1. \A v \in Wallets, d \in Eons : 1 <= d /\ d <= latest_eon =>
            /\ Sendable(v, d) \in Int /\ late[d - 1][v] \in Int
            /\ Sendable(v, d)' = Sendable(v, d)
                 - IF d = task.eon THEN late[d - 1][v] ELSE 0
      BY <1>6, CommitMovesFunds
    <3>2. \A v \in Wallets, d \in Eons : v = tx[g].wallet /\ d = tx[g].eon =>
            Sendable(tx[g].wallet, tx[g].eon)' = Sendable(v, d)'
      BY <2>1 DEF Sendable, AvailableFunds
    <3> QED BY <1>00, <2>2, <3>1, <3>2
  <2>5. late[tx[g].eon - 1][tx[g].wallet] > 0 \/
          Sendable(tx[g].wallet, tx[g].eon)' >= Sendable(tx[g].wallet, tx[g].eon)
    BY <2>4
  <2>6. Sendable(tx[g].wallet, tx[g].eon)' \in Int
    BY <2>4
  <2>7. pc[g] = "append" =>
           \/ g \in twice \/ late[tx[g].eon - 1][tx[g].wallet] > 0
           \/ tx[g].amount <= Sendable(tx[g].wallet, tx[g].eon)'
    BY <1>0, <1>00, <2>4, <2>5, <2>6 DEF Budget
  <2> QED BY <1>0, <2>1, <2>3, <2>7 DEF Budget
<1>7. CASE \/ Receive(g) \/ EnterEon(g) \/ LockFirstWallet(g)
           \/ LockSecondWallet(g) \/ CheckEon(g) \/ AppendTransfer(g)
           \/ RejectTransfer(g)
  <2>1. pc'[g] \in {"locking", "first", "second", "checks", "created", "idle"}
    BY ZenonT(60), <1>00, <1>7 DEF Receive, EnterEon, LockFirstWallet, LockSecondWallet,
              CheckEon, PassChecks, AppendTransfer, RejectTransfer, Goto
  <2>2. QED  BY SMTT(60), <1>1, <2>1
<1>8. CASE ReadIsCreated(g)
  <2>1. /\ pc'[g] = "previous" /\ tx' = tx /\ commitments' = commitments
        /\ is_created'[g] = (tx[g].eon \in commitments)
    BY <1>00, <1>8 DEF ReadIsCreated, Goto, checkpoint
  <2>2. QED  BY <2>1 DEF Budget
<1>9. CASE ReadLooseFunds(g)
  <2>1. /\ pc[g] = "previous" /\ pc'[g] = "funds"
        /\ UNCHANGED << tx, is_created, commitments, allotments, deposits,
                        spendings, received >>
        /\ loose_funds'[g] = IF is_created[g] THEN 0
                             ELSE AvailableFunds(tx[g].wallet, tx[g].eon - 1)
    BY <1>00, <1>9 DEF ReadLooseFunds, Goto, chain, rows, checkpoint
  <2>2. is_created[g] => tx[g].eon \in commitments
    BY <1>0, <2>1 DEF Budget
  <2>3. QED  BY <2>1, <2>2 DEF Budget, AvailableFunds
<1>10. CASE ReadFunds(g)
  <2>1. /\ pc[g] = "funds" /\ pc'[g] = "append"
        /\ tx[g].amount <= loose_funds[g] + AvailableFunds(tx[g].wallet, tx[g].eon)
        /\ tx'[g].wallet = tx[g].wallet /\ tx'[g].eon = tx[g].eon
        /\ tx'[g].amount = tx[g].amount
        /\ ~is_created[g] /\ tx[g].eon \in commitments => g \in twice'
        /\ UNCHANGED << commitments, allotments, deposits, spendings, received >>
    BY <1>00, <1>10 DEF ReadFunds, Goto, chain, rows, checkpoint
  <2>2. /\ AvailableFunds(tx[g].wallet, tx[g].eon) \in Int
        /\ AvailableFunds(tx[g].wallet, tx[g].eon - 1) \in Int
    BY <1>0, <1>00, <1>2, <2>1, FundsAreNumbers
  <2>3. Sendable(tx[g].wallet, tx[g].eon)' = Sendable(tx[g].wallet, tx[g].eon)
    BY <2>1 DEF Sendable, AvailableFunds
  <2>4. CASE is_created[g]
    <3>1. tx[g].eon \in commitments /\ loose_funds[g] = 0
      BY <1>0, <2>1, <2>4 DEF Budget
    <3>2. tx[g].amount <= Sendable(tx[g].wallet, tx[g].eon)
      BY <1>00, <2>1, <2>2, <3>1 DEF Sendable
    <3> QED BY <2>1, <2>3, <3>2 DEF Budget
  <2>5. CASE ~is_created[g] /\ tx[g].eon \in commitments
    BY <2>1, <2>5 DEF Budget
  <2>6. CASE ~is_created[g] /\ tx[g].eon \notin commitments
    <3>1. loose_funds[g] = AvailableFunds(tx[g].wallet, tx[g].eon - 1)
      BY <1>0, <2>1, <2>6 DEF Budget
    <3>2. tx[g].amount <= Sendable(tx[g].wallet, tx[g].eon)
      BY <1>00, <2>1, <2>2, <2>6, <3>1 DEF Sendable
    <3> QED BY <2>1, <2>3, <3>2 DEF Budget
  <2> QED BY <2>4, <2>5, <2>6
<1>11. ASSUME NEW h \in Handlers \ {g}, Receive(h) \/ HandlerStep(h)
       PROVE  Budget(g)'
  <2>1. /\ pc'[g] = pc[g] /\ tx'[g] = tx[g]
        /\ is_created'[g] = is_created[g] /\ loose_funds'[g] = loose_funds[g]
        /\ g \in twice' <=> g \in twice
    BY <1>0, <1>11, HandlerFrame, LocalsFrame DEF Undisturbed
  <2>2. ~CommitCheckpoint
    <3>1. task' = task
      BY <1>11 DEF Receive, HandlerStep, EnterEon, LockFirstWallet,
            LockSecondWallet, CheckEon, PassChecks, ReadIsCreated,
            ReadLooseFunds, ReadFunds, AppendTransfer, RejectTransfer, checkpoint
    <3>2. QED  BY SMTT(60), <3>1 DEF CommitCheckpoint, NoTask
  <2>3. ~AppendTransfer(g)
    BY <1>00, <2>1 DEF AppendTransfer, Goto
  <2>4. QED  BY <1>5, <2>1, <2>2, <2>3
<1>12. CASE UNCHANGED << locals, control, history >>
  <2>1. /\ pc'[g] = pc[g] /\ tx'[g] = tx[g]
        /\ is_created'[g] = is_created[g] /\ loose_funds'[g] = loose_funds[g]
        /\ g \in twice' <=> g \in twice
    BY <1>12 DEF locals, control, history
  <2>2. ~AppendTransfer(g)
    BY <1>00, <2>1 DEF AppendTransfer, Goto
  <2>3. QED  BY <1>5, <1>6, <2>1, <2>2
<1>13. QED
  <2>1. \/ UNCHANGED << locals, control, history >>
        \/ \E h \in Handlers : Receive(h) \/ HandlerStep(h)
    BY DEF Next, vars, NewEon, ConfirmEon, Deposit, TaskStep, StartCheckpoint,
           AcquireWriteLock, SnapshotWallet, FailAssertion, ReleaseWriteLock,
           CommitCheckpoint, SkipCheckpoint
  <2>2. Receive(g) \/ HandlerStep(g) => Budget(g)'
    BY <1>7, <1>8, <1>9, <1>10 DEF HandlerStep
  <2>3. QED  BY <1>11, <1>12, <2>1, <2>2
-----------------------------------------------------------------------------
(* A transfer costs its sender its amount in its eon, and nobody else and  *)
(* no other eon anything; no excuse of anybody else is lost by it.         *)

LEMMA TransferCosts ==
  ASSUME LedgerInv, NEW h \in Handlers, AppendTransfer(h), NEW e \in Eons,
         NEW w \in Wallets
  PROVE  /\ AvailableFunds(w, e)' \in Int /\ AvailableFunds(w, e) \in Int
         /\ late[e][w] \in Int /\ late'[e][w] \in Int
         /\ (e = tx[h].eon /\ w = tx[h].wallet) =>
              AvailableFunds(w, e)' = AvailableFunds(w, e) - tx[h].amount
         /\ ~(e = tx[h].eon /\ w = tx[h].wallet) =>
              /\ AvailableFunds(w, e)' >= AvailableFunds(w, e)
              /\ late'[e][w] >= late[e][w]
         /\ h \notin gap => late'[e][w] = late[e][w]
<1>1. tx[h].amount \in Nat
  BY TypedRows DEF LedgerInv
<1>2. QED
  BY <1>1, TransferEffect DEF Moves

LEMMA TransferIsCovered ==
  ASSUME LedgerInv, FenceInv, SolventInv, NEW h \in Handlers, AppendTransfer(h),
         NEW w \in Wallets, NEW l \in Eons, l = latest_eon,
         NEW k \in Eons, k = l - 1, ~Excused(w)'
  PROVE  AvailableFunds(w, l)'
           + (IF l \in commitments THEN 0 ELSE AvailableFunds(w, k)') >= 0
<1>0. /\ TypeOK /\ EonsInOrder /\ ReadsAreFresh /\ FenceEons /\ GapIsKnown
      /\ Blank /\ OverspentByRaceOnly /\ Budget(h)
  BY DEF LedgerInv, FenceInv, SolventInv, BudgetStands
<1>1. /\ tx[h].amount \in Nat /\ tx[h].eon \in Nat /\ tx[h].eon \in Eons
      /\ tx[h].wallet \in Wallets /\ l \in Nat /\ k \in Nat
      /\ pc[h] = "append" /\ InLocks(h)
  BY <1>0, TypedRows DEF AppendTransfer, Goto, InLocks, Eons
<1>2. /\ 1 <= tx[h].eon /\ tx[h].eon <= l /\ touched[tx[h].wallet] <= tx[h].eon
  BY <1>0, <1>1 DEF EonsInOrder, FenceEons, ReadsAreFresh
<1>3. /\ AvailableFunds(w, l) \in Int /\ AvailableFunds(w, l)' \in Int
      /\ AvailableFunds(w, k) \in Int /\ AvailableFunds(w, k)' \in Int
  <2>1. \A e \in Eons : AvailableFunds(w, e) \in Int /\ AvailableFunds(w, e)' \in Int
    BY TransferCosts
  <2>2. QED  BY <2>1
<1>4. ~Excused(w) => AvailableFunds(w, l)
        + (IF l \in commitments THEN 0 ELSE AvailableFunds(w, k)) >= 0
  BY <1>0, <1>3 DEF OverspentByRaceOnly, Spendable, Excused
<1>a. w \notin straddled
  BY DEF Excused, AppendTransfer
<1>b. ASSUME \A e \in Eons : late'[e][w] >= late[e][w]
      PROVE  ~Excused(w)
  <2>1. \A e \in Eons : ~(late'[e][w] > 0)
    BY DEF Excused
  <2>2. \A e \in Eons : late[e][w] \in Int /\ late'[e][w] \in Int
    BY TransferCosts
  <2>3. \A e \in Eons : ~(late[e][w] > 0)
    BY <1>b, <2>1, <2>2
  <2> QED BY <1>a, <2>3 DEF Excused
<1>5. CASE w # tx[h].wallet
  <2>1. \A e \in Eons : /\ AvailableFunds(w, e)' >= AvailableFunds(w, e)
                        /\ late'[e][w] >= late[e][w]
    BY <1>5, TransferCosts
  <2>2. ~Excused(w)
    BY <1>b, <2>1
  <2>3. /\ AvailableFunds(w, l)' >= AvailableFunds(w, l)
        /\ AvailableFunds(w, k)' >= AvailableFunds(w, k)
    BY <2>1
  <2>4. QED  BY <1>3, <1>4, <2>2, <2>3
<1>c. ASSUME w = tx[h].wallet
      PROVE  tx[h].amount <= Sendable(w, tx[h].eon)
  <2>1. h \notin twice
    BY <1>c DEF Excused, AppendTransfer
  <2>2. tx[h].eon - 1 \in Eons
    BY <1>1, <1>2 DEF Eons
  <2>3. ~(late[tx[h].eon - 1][w] > 0)
    <3>1. \A e \in Eons : e = tx[h].eon - 1 =>
             /\ late'[e][w] >= late[e][w] /\ ~(late'[e][w] > 0)
             /\ late[e][w] \in Int /\ late'[e][w] \in Int
      BY <1>1, TransferCosts DEF Excused
    <3>2. \A e \in Eons : e = tx[h].eon - 1 => ~(late[e][w] > 0)
      BY <3>1
    <3> QED BY <2>2, <3>2
  <2> QED BY <1>0, <1>1, <1>c, <2>1, <2>3 DEF Budget
<1>6. CASE w = tx[h].wallet /\ tx[h].eon = l
  <2>1. /\ AvailableFunds(w, l)' = AvailableFunds(w, l) - tx[h].amount
        /\ AvailableFunds(w, k)' >= AvailableFunds(w, k)
    BY <1>1, <1>6, TransferCosts
  <2>2. tx[h].amount <= AvailableFunds(w, l)
          + (IF l \in commitments THEN 0 ELSE AvailableFunds(w, k))
    BY <1>1, <1>6, <1>c DEF Sendable
  <2>3. QED  BY <1>1, <1>3, <2>1, <2>2
<1>7. CASE w = tx[h].wallet /\ tx[h].eon < l
  <2>0. touched[w] \in Nat
    BY <1>0, RowsAreNumbers DEF Eons
  <2>1. tx[h].eon <= k /\ touched[w] \in Nat /\ touched[w] <= tx[h].eon
    BY <1>1, <1>2, <1>7, <2>0
  <2>2. ASSUME NEW e \in Eons, e \in Nat, e > tx[h].eon
        PROVE  AvailableFunds(w, e)' >= 0
    <3>1. spendings[e][w] = 0
      BY <1>0, <1>1, <2>1, <2>2 DEF Blank
    <3>2. /\ deposits[e][w] \in Nat /\ received[e][w] \in Nat
          /\ allotments[e][w] \in Nat
      BY <1>0, RowsAreNumbers
    <3>3. AvailableFunds(w, e) >= 0
      BY <3>1, <3>2 DEF AvailableFunds
    <3>4. /\ AvailableFunds(w, e)' >= AvailableFunds(w, e)
          /\ AvailableFunds(w, e)' \in Int /\ AvailableFunds(w, e) \in Int
      BY <1>1, <2>2, TransferCosts
    <3> QED BY <3>3, <3>4
  <2>3. AvailableFunds(w, l)' >= 0
    BY <1>1, <1>7, <2>2
  <2>4. AvailableFunds(w, k)' >= 0
    <3>1. CASE tx[h].eon = k
      <4>1. k \in commitments
        BY <1>0, <1>1, <1>2, <3>1 DEF FenceEons
      <4>2. tx[h].amount <= AvailableFunds(w, k)
        BY <1>3, <1>7, <1>c, <3>1, <4>1 DEF Sendable
      <4>3. AvailableFunds(w, k)' = AvailableFunds(w, k) - tx[h].amount
        BY <1>7, <3>1, TransferCosts
      <4> QED BY <1>1, <1>3, <4>2, <4>3
    <3>2. CASE tx[h].eon # k
      BY SMTT(60), <1>1, <2>1, <2>2, <3>2
    <3> QED BY <3>1, <3>2
  <2> QED BY <1>3, <2>3, <2>4
<1>8. QED  BY <1>1, <1>2, <1>5, <1>6, <1>7

LEMMA OverspentStep ==
  ASSUME LedgerInv, FenceInv, SolventInv, [Next]_vars
  PROVE  OverspentByRaceOnly'
<1> SUFFICES ASSUME NEW w \in Wallets, ~Excused(w)'
             PROVE  ~(Spendable(w)' < 0)
  BY DEF OverspentByRaceOnly, Excused
<1>0. /\ TypeOK /\ EonsInOrder /\ FenceEons /\ Blank
      /\ ~Excused(w) => ~(Spendable(w) < 0)
  BY DEF LedgerInv, FenceInv, SolventInv, OverspentByRaceOnly, Excused
<1>1. /\ latest_eon \in Eons /\ latest_eon - 1 \in Eons /\ latest_eon \in Nat
      /\ latest_eon >= 1
  BY <1>0 DEF EonsInOrder, Eons, TypeOK, ChainTypeOK
<1>2. PICK l \in Eons : l = latest_eon
  BY <1>1
<1>3. PICK k \in Eons : k = l - 1
  BY <1>1, <1>2
<1> DEFINE Old == AvailableFunds(w, l)
                    + (IF l \in commitments THEN 0 ELSE AvailableFunds(w, k))
<1>4. /\ ~Excused(w) => Old >= 0
      /\ AvailableFunds(w, l) \in Int /\ AvailableFunds(w, k) \in Int
  <2>1. AvailableFunds(w, l) \in Int /\ AvailableFunds(w, k) \in Int
    BY <1>0, FundsAreNumbers
  <2> QED BY <1>0, <1>2, <1>3, <2>1 DEF Spendable
<1>5. latest_eon' = latest_eon =>
        Spendable(w)' = AvailableFunds(w, l)'
                          + (IF l \in commitments' THEN 0 ELSE AvailableFunds(w, k)')
  BY <1>2, <1>3 DEF Spendable
<1>x. UNCHANGED << late, straddled >> => ~Excused(w)
  BY DEF Excused
<1>6. CASE NewEon
  <2>1. /\ latest_eon' = l + 1 /\ l + 1 \in Eons
        /\ l \in commitments /\ l + 1 \notin commitments
        /\ UNCHANGED << deposits, spendings, received, allotments, commitments,
                        late, straddled >>
    BY <1>0, <1>1, <1>2, <1>6 DEF NewEon, FenceEons, rows, checkpoint, history, Eons
  <2>2. AvailableFunds(w, l + 1) = 0
    BY <1>0, <1>1, <1>2, <2>1 DEF Blank, AvailableFunds
  <2>3. Spendable(w)' = AvailableFunds(w, l + 1) + AvailableFunds(w, l)
    BY <1>1, <1>2, <2>1 DEF Spendable, AvailableFunds
  <2>4. QED  BY <1>x, <1>4, <2>1, <2>2, <2>3
<1>7. ASSUME NEW v \in Wallets, Deposit(v)
      PROVE  ~(Spendable(w)' < 0)
  <2>1. UNCHANGED << latest_eon, spendings, received, allotments, commitments,
                     late, straddled >>
    BY <1>7 DEF Deposit, rows, checkpoint, history
  <2>2. \A e \in Eons : /\ deposits'[e][w] >= deposits[e][w]
                        /\ deposits'[e][w] \in Nat /\ deposits[e][w] \in Nat
                        /\ spendings[e][w] \in Nat /\ received[e][w] \in Nat
                        /\ allotments[e][w] \in Nat
    <3>1. deposits' \in [Eons -> [Wallets -> Nat]]
      BY TypeStep DEF TypeOK, ChainTypeOK
    <3>2. QED  BY <1>0, <3>1, DepositsOnly, RowsAreNumbers
  <2>3. \A e \in Eons : /\ AvailableFunds(w, e)' >= AvailableFunds(w, e)
                        /\ AvailableFunds(w, e)' \in Int /\ AvailableFunds(w, e) \in Int
    BY <2>1, <2>2 DEF AvailableFunds
  <2> HIDE DEF AvailableFunds
  <2>4. QED  BY <1>x, <1>4, <1>5, <2>1, <2>3
<1>8. ASSUME NEW h \in Handlers, AppendTransfer(h)
      PROVE  ~(Spendable(w)' < 0)
  <2>1. latest_eon' = latest_eon /\ commitments' = commitments
    BY <1>8 DEF AppendTransfer, chain, checkpoint
  <2>2. /\ AvailableFunds(w, l)' \in Int /\ AvailableFunds(w, k)' \in Int
    BY <1>8, TransferCosts
  <2>3. AvailableFunds(w, l)'
           + (IF l \in commitments THEN 0 ELSE AvailableFunds(w, k)') >= 0
    BY <1>2, <1>3, <1>8, TransferIsCovered
  <2>4. QED  BY <1>5, <2>1, <2>2, <2>3
<1>9. CASE CommitCheckpoint
  <2>1. /\ latest_eon' = latest_eon /\ UNCHANGED << late, straddled >>
        /\ Sendable(w, l) \in Int /\ late[k][w] \in Int
        /\ Sendable(w, l)' = Sendable(w, l) - IF l = task.eon THEN late[k][w] ELSE 0
    <3>1. \A e \in Eons : e = l =>
            /\ Sendable(w, e) \in Int /\ late[e - 1][w] \in Int
            /\ Sendable(w, e)' = Sendable(w, e)
                 - IF e = task.eon THEN late[e - 1][w] ELSE 0
      BY <1>0, <1>1, <1>2, <1>9, CommitMovesFunds
    <3> QED BY <1>3, <1>9, <3>1 DEF CommitCheckpoint, chain, history
  <2>2. Sendable(w, l) = Old
    BY <1>3 DEF Sendable
  <2>3. Sendable(w, l)' = Spendable(w)'
    BY <1>3, <1>5, <2>1 DEF Sendable
  <2>4. ~(late[k][w] > 0)
    BY <1>x, <2>1 DEF Excused
  <2> HIDE DEF Old
  <2>5. QED  BY <1>x, <1>4, <2>1, <2>2, <2>3, <2>4
<1>10. CASE UNCHANGED << latest_eon, deposits, rows, commitments, allotments,
                         late, straddled >>
  <2>1. Spendable(w)' = Spendable(w)
    BY <1>10 DEF Spendable, AvailableFunds, rows
  <2> QED BY <1>0, <1>x, <1>10, <2>1
<1>11. QED
  BY ZenonT(60), <1>6, <1>7, <1>8, <1>9, <1>10, Steps
  DEF vars, ConfirmEon, Receive, EnterEon, LockFirstWallet, LockSecondWallet,
      CheckEon, PassChecks, ReadIsCreated, ReadLooseFunds, ReadFunds,
      RejectTransfer, StartCheckpoint, AcquireWriteLock, SnapshotWallet,
      FailAssertion, ReleaseWriteLock, SkipCheckpoint, chain, checkpoint, history

(* Nobody spends more than he owns, in the open eon and the one before     *)
(* together, whatever transfers, deposits and checkpoints race, but by the *)
(* two races the program has: a handler that counts the funds of the eon   *)
(* before twice, and a transfer through the gap before a commit.           *)
THEOREM NobodyOverspendsButByARace == Spec => []OverspentByRaceOnly
<1> DEFINE Inv == FenceInv /\ SolventInv
<1>1. Init => Inv
  BY FenceInit, SolventInit
<1>2. LedgerInv /\ Inv /\ [Next]_vars => Inv'
  <2>1. LedgerInv /\ FenceInv /\ [Next]_vars => FenceInv'
    BY FenceInvStep
  <2>2. LedgerInv /\ Inv /\ [Next]_vars => SolventInv'
    BY BlankStep, BudgetStep, OverspentStep DEF SolventInv
  <2>3. QED  BY <2>1, <2>2
<1>3. Inv => OverspentByRaceOnly
  BY DEF SolventInv
<1>4. QED  BY <1>1, <1>2, <1>3, LedgerInvariant, PTL DEF Spec
-----------------------------------------------------------------------------
(* Nothing is lost or made.  What all wallets own together changes only by *)
(* deposits: a transfer takes from one what it gives to another in the     *)
(* same eon, also one that is late for the checkpoint, and a checkpoint    *)
(* allots what the sums were when it noted them.                           *)

SumOver(f) == SumFunctionOnSet(f, Wallets)

LEMMA WalletsAreFinite == IsFiniteSet(Wallets)
<1>1. 0 \in Int /\ NumWallets - 1 \in Int
  OBVIOUS
<1> QED BY <1>1, FS_Interval DEF Wallets

LEMMA SumOfWallets ==
  ASSUME NEW f \in [Wallets -> Int]
  PROVE  SumFunction(f) = SumOver(f) /\ SumOver(f) \in Int
<1>1. Counts(f, Wallets)
  BY DEF Counts
<1>2. DOMAIN f = Wallets
  OBVIOUS
<1>3. SumFunction(f) = SumOver(f)
  BY <1>2, Zenon DEF SumFunction, SumOver
<1> QED BY <1>1, <1>3, WalletsAreFinite, SumIsNumber DEF SumOver

LEMMA SumOverWallets ==
  ASSUME NEW f \in [Wallets -> Int], NEW g \in [Wallets -> Int],
         NEW a \in Wallets, NEW n \in Int, g[a] = f[a] + n,
         \A w \in Wallets \ {a} : g[w] = f[w]
  PROVE  SumOver(g) = SumOver(f) + n
<1>1. Counts(f, Wallets) /\ f[a] \in Int /\ g[a] \in Int
  BY DEF Counts
<1>2. SumOver(g) = SumOver(f) - f[a] + g[a]
  BY <1>1, WalletsAreFinite, SumChangedAt DEF SumOver
<1> QED BY <1>1, <1>2, SumOfWallets

(* The deposits of an eon come on top of those before it.                  *)
LEMMA TotalDepositsIsStep ==
  ASSUME deposits \in [Eons -> [Wallets -> Nat]], NEW e \in Eons
  PROVE  /\ TotalDeposits(e) \in Int
         /\ e = 0 => TotalDeposits(e) = SumOver(deposits[e])
         /\ e # 0 => TotalDeposits(e) = TotalDeposits(e - 1) + SumOver(deposits[e])
<1> DEFINE total == [d \in Eons |-> SumOver(deposits[d])]
           upto(k) == [d \in 0 .. k |-> SumFunction(deposits[d])]
<1>1. \A d \in Eons : total[d] \in Int /\ SumFunction(deposits[d]) = total[d]
  <2> SUFFICES ASSUME NEW d \in Eons
               PROVE  total[d] \in Int /\ SumFunction(deposits[d]) = total[d]
    OBVIOUS
  <2>1. deposits[d] \in [Wallets -> Int]
    OBVIOUS
  <2> QED BY <2>1, SumOfWallets
<1>2. ASSUME NEW k \in Eons
      PROVE  /\ IsFiniteSet(0 .. k) /\ Counts(total, 0 .. k)
             /\ TotalDeposits(k) = SumFunctionOnSet(total, 0 .. k)
  <2>0. k \in Nat
    BY DEF Eons
  <2>1. IsFiniteSet(0 .. k) /\ 0 .. k \subseteq Eons
    BY <2>0, FS_Interval DEF Eons
  <2>2. Counts(total, 0 .. k) /\ \A d \in 0 .. k : total[d] = upto(k)[d]
    BY <1>1, <2>1 DEF Counts
  <2>3. SumFunctionOnSet(total, 0 .. k) = SumFunctionOnSet(upto(k), 0 .. k)
    <3> HIDE DEF total, upto
    <3> QED BY <2>1, <2>2, SumsAgree
  <2>4. DOMAIN upto(k) = 0 .. k
    OBVIOUS
  <2>5. TotalDeposits(k) = SumFunctionOnSet(upto(k), 0 .. k)
    BY <2>4, Zenon DEF TotalDeposits, SumFunction
  <2> QED BY <2>1, <2>2, <2>3, <2>5
<1>3. TotalDeposits(e) \in Int
  BY <1>2, SumIsNumber
<1>4. CASE e = 0
  <2>1. {} \cup {0} = 0 .. e /\ total[e] = total[0]
    BY <1>4
  <2>2. Counts(total, {}) /\ total[0] \in Int /\ IsFiniteSet({})
    BY <1>1, <1>4, FS_EmptySet DEF Counts
  <2>3. SumFunctionOnSet(total, {} \cup {0}) = total[0] + SumFunctionOnSet(total, {})
    <3> HIDE DEF total
    <3> QED BY <2>2, SumPutIn
  <2>4. SumFunctionOnSet(total, 0 .. e) = total[0] + SumFunctionOnSet(total, {})
    BY <2>1, <2>3, Zenon
  <2>5. TotalDeposits(e) = total[e]
    BY <1>2, <2>1, <2>2, <2>4, SumOfNothing
  <2> QED BY <1>3, <1>4, <2>5
<1>5. CASE e # 0
  <2>0. e \in Nat /\ e > 0 /\ e - 1 \in Eons
    BY <1>5 DEF Eons
  <2>1. (0 .. (e - 1)) \cup {e} = 0 .. e /\ e \notin 0 .. (e - 1)
    BY <2>0
  <2>2. /\ IsFiniteSet(0 .. (e - 1)) /\ Counts(total, 0 .. (e - 1))
        /\ TotalDeposits(e - 1) = SumFunctionOnSet(total, 0 .. (e - 1))
    BY <1>2, <2>0
  <2>3. SumFunctionOnSet(total, (0 .. (e - 1)) \cup {e})
          = total[e] + SumFunctionOnSet(total, 0 .. (e - 1))
    <3>1. total[e] \in Int
      BY <1>1
    <3> HIDE DEF total
    <3> QED BY <2>1, <2>2, <3>1, SumPutIn
  <2>4. SumFunctionOnSet(total, 0 .. e)
          = total[e] + SumFunctionOnSet(total, 0 .. (e - 1))
    BY <2>1, <2>3, Zenon
  <2>5. TotalDeposits(e - 1) \in Int
    BY <2>2, SumIsNumber
  <2> QED BY <1>1, <1>2, <1>3, <1>5, <2>2, <2>4, <2>5
<1> QED BY <1>3, <1>4, <1>5


(* The sums stay: what the wallets have sent in an eon is what they have   *)
(* received, an allotment hands out the deposits before it, and so will    *)
(* the balances that wait for their commit.                                *)
Start == /\ 1 \in commitments
         /\ \A w \in Wallets : allotments[1][w] = 0 /\ deposits[0][w] = 0

Allotted == \A e \in commitments : SumOver(allotments[e]) = TotalDeposits(e - 1)

CommitAddsUp ==
  task.at = "commit" => SumOver(task.balances) = TotalDeposits(task.eon - 1)

SumInv == FenceEons /\ Start /\ SpendingsAddUp /\ Allotted /\ CommitAddsUp

(* Many zeros are zero.                                                    *)
LEMMA SumOfZeros ==
  ASSUME NEW f, \A w \in Wallets : f[w] = 0
  PROVE  SumOver(f) = 0
<1> DEFINE T == {s \in SUBSET Wallets : SumFunctionOnSet(f, s) = 0}
<1>1. {} \in T
  BY SumOfNothing
<1>2. ASSUME NEW s \in SUBSET Wallets, NEW x \in Wallets \ s, s \in T
      PROVE  s \cup {x} \in T
  <2>1. IsFiniteSet(s)
    BY WalletsAreFinite, FS_Subset
  <2>2. Counts(f, s) /\ f[x] = 0
    BY DEF Counts
  <2>3. SumFunctionOnSet(f, s \cup {x}) = f[x] + SumFunctionOnSet(f, s)
    BY <2>1, <2>2, SumPutIn
  <2> QED BY <1>2, <2>2, <2>3
<1>3. Inductive(T, Wallets)
  BY <1>1, <1>2 DEF Inductive
<1> HIDE DEF T
<1>4. Wallets \in T
  BY <1>3, WalletsAreFinite, SetInduction
<1> QED BY <1>4 DEF T, SumOver

LEMMA SumInit == Init => SumInv
<1> SUFFICES ASSUME Init PROVE SumInv
  OBVIOUS
<1>0. 1 \in Eons /\ 0 \in Eons
  BY DEF Eons
<1>1. FenceEons
  BY FenceInit DEF FenceInv
<1>2. Start
  BY <1>0 DEF Start, Init, Zero
<1>3. SpendingsAddUp
  BY DEF SpendingsAddUp, Init
<1>4. Allotted
  <2>1. deposits \in [Eons -> [Wallets -> Nat]]
    BY DEF Init, Zero
  <2>2. SumOver(allotments[1]) = 0 /\ SumOver(deposits[0]) = 0
    BY <1>0, <1>2, SumOfZeros DEF Start
  <2>3. TotalDeposits(0) = 0
    BY <1>0, <2>1, <2>2, TotalDepositsIsStep
  <2>4. commitments = {1}
    BY DEF Init
  <2>5. 1 - 1 = 0
    OBVIOUS
  <2> QED BY <2>2, <2>3, <2>4, <2>5 DEF Allotted
<1>5. CommitAddsUp
  BY DEF CommitAddsUp, Init, NoTask
<1> QED BY <1>1, <1>2, <1>3, <1>4, <1>5 DEF SumInv
-----------------------------------------------------------------------------
LEMMA StartStep ==
  ASSUME LedgerInv, FenceEons, Start, [Next]_vars
  PROVE  Start'
<1>1. TypeOK /\ 1 <= confirmed_eon /\ 1 \in Eons /\ 0 \in Eons
  BY DEF LedgerInv, EonsInOrder, Eons
<1>2. task.at = "commit" => 1 # task.eon
  BY DEF FenceEons, Start
<1>3. 1 \in commitments'
  BY CheckpointKinds DEF Start, TaskStep, checkpoint, StartCheckpoint,
     AcquireWriteLock, SnapshotWallet, FailAssertion, ReleaseWriteLock,
     CommitCheckpoint
<1>4. ASSUME NEW w \in Wallets
      PROVE  allotments'[1][w] = 0 /\ deposits'[0][w] = 0
  <2>1. allotments'[1][w] = allotments[1][w]
    BY <1>1, <1>2, AllotmentsStand
  <2>2. deposits'[0][w] = deposits[0][w]
    BY <1>1, DepositsOnly
  <2> QED BY <2>1, <2>2 DEF Start
<1> QED BY <1>3, <1>4 DEF Start

LEMMA SpendingsAddUpStep ==
  ASSUME LedgerInv, SpendingsAddUp, [Next]_vars
  PROVE  SpendingsAddUp'
<1>0. TypeOK /\ ReadsAreFresh
  BY DEF LedgerInv
<1>1. /\ spendings \in [Eons -> [Wallets -> Nat]]
      /\ received \in [Eons -> [Wallets -> Nat]]
  BY <1>0, RowsAreNumbers
<1>2. ASSUME NEW h \in Handlers, AppendTransfer(h)
      PROVE  SpendingsAddUp'
  <2> DEFINE t == tx[h]
  <2>1. /\ t.eon \in Eons /\ t.wallet \in Wallets /\ t.recipient \in Wallets
        /\ t.amount \in Nat
        /\ t.spendings = spendings[t.eon][t.wallet] + t.amount
    BY <1>0, <1>2 DEF TypeOK, LocalsTypeOK, ReadsAreFresh, AppendTransfer, Goto
  <2> HIDE DEF t
  <2>2. /\ spendings' = [spendings EXCEPT ![t.eon][t.wallet] = t.spendings]
        /\ received' = [received EXCEPT ![t.eon][t.recipient] = @ + t.amount]
    BY <1>2 DEF AppendTransfer, t
  <2>3. /\ spendings' \in [Eons -> [Wallets -> Nat]]
        /\ received' \in [Eons -> [Wallets -> Nat]]
    BY <1>1, <2>1, <2>2
  <2>4. ASSUME NEW e \in Eons, e # t.eon
        PROVE  SumFunction(spendings'[e]) = SumFunction(received'[e])
    BY <1>1, <2>1, <2>2, <2>4 DEF SpendingsAddUp
  <2>5. SumFunction(spendings'[t.eon]) = SumFunction(received'[t.eon])
    <3>1. /\ spendings[t.eon] \in [Wallets -> Int]
          /\ received[t.eon] \in [Wallets -> Int]
          /\ spendings'[t.eon] \in [Wallets -> Int]
          /\ received'[t.eon] \in [Wallets -> Int]
      BY <1>1, <2>1, <2>3
    <3>2. /\ spendings'[t.eon][t.wallet] = spendings[t.eon][t.wallet] + t.amount
          /\ \A w \in Wallets \ {t.wallet} :
               spendings'[t.eon][w] = spendings[t.eon][w]
          /\ received'[t.eon][t.recipient] = received[t.eon][t.recipient] + t.amount
          /\ \A w \in Wallets \ {t.recipient} :
               received'[t.eon][w] = received[t.eon][w]
      BY <1>1, <2>1, <2>2
    <3>3. SumOver(spendings'[t.eon]) = SumOver(spendings[t.eon]) + t.amount
      BY <2>1, <3>1, <3>2, SumOverWallets
    <3>4. SumOver(received'[t.eon]) = SumOver(received[t.eon]) + t.amount
      BY <2>1, <3>1, <3>2, SumOverWallets
    <3>5. SumOver(spendings[t.eon]) = SumOver(received[t.eon])
      BY <2>1, <3>1, SumOfWallets DEF SpendingsAddUp
    <3> QED BY <3>1, <3>3, <3>4, <3>5, SumOfWallets
  <2> QED BY <2>4, <2>5 DEF SpendingsAddUp
<1>3. CASE UNCHANGED rows
  BY <1>3 DEF SpendingsAddUp, rows
<1> QED BY <1>2, <1>3, StepKinds, OnlyAppendWrites
-----------------------------------------------------------------------------
(* What was deposited until the end of an eon stays once the eon is over.  *)
LEMMA TotalDepositsStand ==
  ASSUME LedgerInv, [Next]_vars, NEW k \in Eons, k < confirmed_eon
  PROVE  TotalDeposits(k)' = TotalDeposits(k)
<1>1. TypeOK /\ confirmed_eon \in Nat /\ 0 .. k \subseteq Eons
  BY DEF LedgerInv, TypeOK, ChainTypeOK, Eons
<1>2. /\ deposits \in [Eons -> [Wallets -> Nat]]
      /\ deposits' \in [Eons -> [Wallets -> Nat]]
  BY ChainTypeStep DEF LedgerInv, TypeOK, ChainTypeOK
<1>3. ASSUME NEW d \in 0 .. k
      PROVE  deposits'[d] = deposits[d]
  <2>1. d \in Eons /\ d # confirmed_eon
    BY <1>1, <1>3 DEF Eons
  <2>2. \A w \in Wallets : deposits'[d][w] = deposits[d][w]
    BY <1>1, <2>1, DepositsOnly
  <2> QED BY <1>2, <2>1, <2>2
<1>4. [d \in 0 .. k |-> SumFunction(deposits'[d])]
        = [d \in 0 .. k |-> SumFunction(deposits[d])]
  BY <1>3
<1> QED BY <1>4, Zenon DEF TotalDeposits

LEMMA AllottedStep ==
  ASSUME LedgerInv, SumInv, [Next]_vars
  PROVE  Allotted'
<1>0. /\ TypeOK /\ FenceEons /\ Allotted /\ CommitAddsUp
      /\ commitments \subseteq Eons /\ confirmed_eon \in Nat /\ task.eon \in Eons
      /\ allotments \in [Eons -> [Wallets -> Nat]]
  BY SMTT(60) DEF LedgerInv, SumInv, TypeOK, ChainTypeOK, CheckpointTypeOK, Eons
<1>1. ASSUME NEW e \in commitments
      PROVE  SumOver(allotments'[e]) = TotalDeposits(e - 1)'
  <2>1. e \in Eons /\ e - 1 \in Eons /\ e - 1 < confirmed_eon
    BY <1>0 DEF FenceEons, Eons
  <2>2. TotalDeposits(e - 1)' = TotalDeposits(e - 1)
    <3>1. ASSUME NEW k \in Eons, k = e - 1
          PROVE  TotalDeposits(k)' = TotalDeposits(k)
      BY <2>1, <3>1, TotalDepositsStand
    <3> QED BY <2>1, <3>1
  <2>3. \A w \in Wallets : allotments'[e][w] = allotments[e][w]
    BY <1>0, <2>1, AllotmentsStand DEF FenceEons
  <2>4. SumOver(allotments'[e]) = SumOver(allotments[e])
    <3>1. Counts(allotments[e], Wallets)
      BY <1>0, <2>1 DEF Counts
    <3>2. \A w \in Wallets : allotments[e][w] = allotments'[e][w]
      BY <2>3
    <3> QED BY <3>1, <3>2, WalletsAreFinite, SumsAgree DEF SumOver
  <2> QED BY <1>0, <2>2, <2>4 DEF Allotted
<1>2. CASE CommitCheckpoint
  <2>1. /\ task.at = "commit" /\ commitments' = commitments \cup {task.eon}
        /\ allotments' = [allotments EXCEPT ![task.eon] = task.balances]
    BY <1>2 DEF CommitCheckpoint
  <2>2. SumOver(allotments'[task.eon]) = TotalDeposits(task.eon - 1)
    BY <1>0, <2>1 DEF CommitAddsUp
  <2>3. deposits' = deposits
    BY <1>2 DEF CommitCheckpoint, chain
  <2>4. \A e : TotalDeposits(e)' = TotalDeposits(e)
    BY <2>3, Zenon DEF TotalDeposits
  <2> QED BY <1>1, <2>1, <2>2, <2>4 DEF Allotted
<1>3. CASE UNCHANGED commitments
  BY <1>1, <1>3 DEF Allotted
<1> QED BY <1>2, <1>3, CheckpointKinds DEF TaskStep, checkpoint,
           StartCheckpoint, AcquireWriteLock, SnapshotWallet, FailAssertion,
           ReleaseWriteLock

(* What the task has noted when it leaves the lock is what the eon before  *)
(* the checkpoint's ends with: its allotments and its deposits, and the    *)
(* transfers of the eon cancel out.                                        *)
LEMMA NotedBalancesAddUp ==
  ASSUME LedgerInv, SumInv, task.at = "snapshot", task.next = NumWallets,
         NEW e \in Eons, e = task.eon - 1
  PROVE  SumOver(task.balances) = TotalDeposits(e)
<1>a. TypeOK /\ FenceEons /\ Allotted /\ SpendingsAddUp /\ Start
  BY DEF LedgerInv, SumInv
<1>b. /\ deposits \in [Eons -> [Wallets -> Nat]]
      /\ spendings \in [Eons -> [Wallets -> Nat]]
      /\ received \in [Eons -> [Wallets -> Nat]]
      /\ allotments \in [Eons -> [Wallets -> Nat]]
  BY <1>a, RowsAreNumbers
<1>c. /\ task.eon \in Nat /\ task.balances \in [Wallets -> Nat] /\ e \in Nat
      /\ latest_eon \in Nat
  BY <1>a DEF TypeOK, ChainTypeOK, CheckpointTypeOK, Eons
<1>0. /\ allotments[e] \in [Wallets -> Nat] /\ deposits[e] \in [Wallets -> Nat]
      /\ spendings[e] \in [Wallets -> Nat] /\ received[e] \in [Wallets -> Nat]
  BY <1>b
<1>1. task.eon # 1 /\ task.eon >= 1 /\ task.eon = latest_eon
  BY <1>a, <1>c DEF LedgerInv, EonsInOrder, FenceEons, Start
<1>2. e \in commitments /\ e # 0
  BY <1>a, <1>c, <1>1 DEF FenceEons
<1>3. SumOver(allotments[e]) = TotalDeposits(e - 1)
  BY <1>a, <1>2 DEF Allotted
<1>4. TotalDeposits(e) = TotalDeposits(e - 1) + SumOver(deposits[e])
  BY <1>b, <1>2, TotalDepositsIsStep
<1>5. \A w \in Wallets : task.balances[w] = AvailableFunds(w, e)
  BY DEF LedgerInv, SnapshotConsistent, Wallets
<1> DEFINE f == [w \in Wallets |-> allotments[e][w] + deposits[e][w]]
           g == [w \in Wallets |-> task.balances[w] + spendings[e][w]]
<1>6. \A w \in Wallets : g[w] = f[w] + received[e][w]
  BY <1>0, <1>c, <1>5 DEF AvailableFunds
<1>7. /\ Counts(allotments[e], Wallets) /\ Counts(deposits[e], Wallets)
      /\ Counts(spendings[e], Wallets) /\ Counts(received[e], Wallets)
      /\ Counts(task.balances, Wallets) /\ Counts(f, Wallets)
  BY <1>0, <1>c DEF Counts
<1>8. /\ \A w \in Wallets : f[w] = allotments[e][w] + deposits[e][w]
      /\ \A w \in Wallets : g[w] = task.balances[w] + spendings[e][w]
  OBVIOUS
<1> HIDE DEF f, g
<1>9. SumOver(f) = SumOver(allotments[e]) + SumOver(deposits[e])
  BY <1>7, <1>8, WalletsAreFinite, SumOfSums DEF SumOver
<1>10. SumOver(g) = SumOver(task.balances) + SumOver(spendings[e])
  BY <1>7, <1>8, WalletsAreFinite, SumOfSums DEF SumOver
<1>11. SumOver(g) = SumOver(f) + SumOver(received[e])
  BY <1>6, <1>7, WalletsAreFinite, SumOfSums DEF SumOver
<1>12. SumOver(spendings[e]) = SumOver(received[e])
  <2>1. spendings[e] \in [Wallets -> Int] /\ received[e] \in [Wallets -> Int]
    BY <1>0
  <2> QED BY <1>a, <2>1, SumOfWallets DEF SpendingsAddUp
<1>13. /\ SumOver(task.balances) \in Int /\ SumOver(allotments[e]) \in Int
       /\ SumOver(deposits[e]) \in Int /\ SumOver(spendings[e]) \in Int
  BY <1>7, WalletsAreFinite, SumIsNumber DEF SumOver
<1> QED BY <1>3, <1>4, <1>9, <1>10, <1>11, <1>12, <1>13

LEMMA CommitAddsUpStep ==
  ASSUME LedgerInv, SumInv, [Next]_vars
  PROVE  CommitAddsUp'
<1>0. /\ EonsInOrder /\ FenceEons /\ CommitAddsUp
      /\ task.eon \in Eons /\ task.eon \in Nat /\ confirmed_eon \in Nat
      /\ DOMAIN task = {"at", "eon", "next", "balances"}
  BY DEF LedgerInv, SumInv, TypeOK, ChainTypeOK, CheckpointTypeOK, Eons
<1>1. ASSUME NEW e \in Eons, e = task.eon - 1, task.at # "idle",
             task'.eon = task.eon, task'.balances = task.balances,
             SumOver(task.balances) = TotalDeposits(e)
      PROVE  CommitAddsUp'
  <2>1. e < confirmed_eon
    BY <1>0, <1>1 DEF EonsInOrder
  <2>2. TotalDeposits(e)' = TotalDeposits(e)
    BY <2>1, TotalDepositsStand
  <2>3. task'.eon - 1 = e
    BY <1>1
  <2>4. TotalDeposits(task.eon - 1)' = TotalDeposits(e)'
    BY <2>3, Zenon DEF TotalDeposits
  <2> QED BY <1>1, <2>2, <2>4 DEF CommitAddsUp
<1>2. CASE task'.at # "commit"
  BY <1>2 DEF CommitAddsUp
<1>3. CASE UNCHANGED task /\ task.at = "commit"
  <2>1. task.eon - 1 \in Eons
    BY <1>0, <1>3 DEF EonsInOrder, Eons
  <2> QED BY <1>0, <1>1, <1>3, <2>1 DEF CommitAddsUp
<1>4. CASE ReleaseWriteLock
  <2>1. /\ task.at = "snapshot" /\ task.next = NumWallets
        /\ task'.eon = task.eon /\ task'.balances = task.balances
    BY <1>0, <1>4 DEF ReleaseWriteLock, TaskGoto
  <2>2. task.eon - 1 \in Eons
    BY <1>0, <2>1 DEF EonsInOrder, Eons
  <2> QED BY <1>1, <2>1, <2>2, NotedBalancesAddUp
<1>5. CASE \/ StartCheckpoint \/ AcquireWriteLock \/ SnapshotWallet
           \/ FailAssertion \/ CommitCheckpoint
  <2>1. CASE StartCheckpoint \/ AcquireWriteLock
    BY <1>0, <1>2, <2>1 DEF StartCheckpoint, AcquireWriteLock, TaskGoto
  <2>2. CASE SnapshotWallet
    BY <1>0, <1>2, <2>2 DEF SnapshotWallet
  <2>3. CASE FailAssertion \/ CommitCheckpoint
    BY <1>2, <2>3 DEF FailAssertion, CommitCheckpoint, NoTask
  <2> QED BY <1>5, <2>1, <2>2, <2>3
<1> QED BY <1>2, <1>3, <1>4, <1>5, CheckpointKinds DEF TaskStep, checkpoint

(* The money supply: for any number of wallets, handlers and eons what the *)
(* wallets have sent in an eon they have received.                         *)
THEOREM NoTransferIsLost == Spec => []SpendingsAddUp
<1>1. Init => SpendingsAddUp
  BY SumInit DEF SumInv
<1>2. LedgerInv /\ SpendingsAddUp /\ [Next]_vars => SpendingsAddUp'
  BY SpendingsAddUpStep
<1> QED BY <1>1, <1>2, LedgerInvariant, PTL DEF Spec

(* A checkpoint allots exactly what was deposited until the end of the eon *)
(* before: it neither overclaims nor leaves anything unclaimed, and the    *)
(* gap between the release of its lock and its commit does not matter for  *)
(* the total.                                                              *)
THEOREM CheckpointsConserveFunds == Spec => []CheckpointConservesFunds
<1>1. Init => SumInv
  BY SumInit
<1>2. LedgerInv /\ SumInv /\ [Next]_vars => SumInv'
  BY FenceEonsStep, StartStep, SpendingsAddUpStep, AllottedStep,
     CommitAddsUpStep DEF SumInv
<1>3. LedgerInv /\ SumInv => CheckpointConservesFunds
  <2> SUFFICES ASSUME LedgerInv, SumInv, NEW e \in commitments \ {1}
               PROVE  SumFunction(allotments[e]) = TotalDeposits(e - 1)
    BY DEF CheckpointConservesFunds
  <2>1. allotments[e] \in [Wallets -> Int]
    BY DEF LedgerInv, TypeOK, CheckpointTypeOK
  <2> QED BY <2>1, SumOfWallets DEF SumInv, Allotted
<1> QED BY <1>1, <1>2, <1>3, LedgerInvariant, PTL DEF Spec
=============================================================================
