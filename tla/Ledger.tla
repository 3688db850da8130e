-------------------------------- MODULE Ledger --------------------------------
(***************************************************************************)
(* The off-chain ledger of one token: transfer handlers of the HTTP        *)
(* server (transactor/serializers/transfer.py), deposits recorded by the   *)
(* chain synchroniser (contractor/interpreters/deposit.py) and the         *)
(* checkpoint task of the accounting worker                                *)
(* (ledger/tasks/create_checkpoint.py), which run concurrently on one      *)
(* PostgreSQL database at READ COMMITTED.                                  *)
(*                                                                         *)
(* Time is divided into eons.  During eon e wallets exchange transfers of  *)
(* eon e; when the chain has entered eon e+1 for good, the checkpoint of   *)
(* e+1 freezes what every wallet owned at the end of e as its allotment    *)
(* in e+1.  A handler holds the readers-writer lock of its eon as a reader *)
(* and the locks of both wallets; the checkpoint task holds the lock of    *)
(* the eon it freezes as a writer.  The readers-writer lock is the one     *)
(* RWLockPromise specifies: who holds it is read off the program counters. *)
(*                                                                         *)
(* The Transfer rows of a wallet and eon are kept as what the queries of   *)
(* WalletTransferContext ask of them: the spendings of the last outgoing   *)
(* one, the sum of the incoming ones and the last of these by position.    *)
(* A step is a group of database accesses nobody else can disturb: the     *)
(* rows of a wallet while its lock is held.  The rows of a checkpoint are  *)
(* not protected like that, and each read of them is a step.               *)
(*                                                                         *)
(* The variables of history record what two races do: they are written by  *)
(* the handlers, and no action depends on them.                            *)
(*                                                                         *)
(* The definitions SenderFirst, LockWithoutWaiting, CheckEonNotTouched,    *)
(* CheckEonNotSealed, AlwaysReadLooseFunds, DueUnconfirmed,                *)
(* DueBeforeConfirmed and AcquireWithReaders are faulty variants of the    *)
(* definitions they precede: put in their place, they break the properties *)
(* that guard against them.                                                *)
(***************************************************************************)
EXTENDS Integers, FiniteSets, Functions

CONSTANTS
  NumWallets,    \* wallets are numbered by their trail identifiers, from 0
  Handlers,      \* concurrent executions of TransferSerializer.create
  Free,          \* the value of a wallet lock nobody holds
  Amounts,       \* the amounts of transfers and deposits
  MaxEon,        \* bound: the last eon
  MaxRequests,   \* bound: the number of requests
  MaxDeposit     \* bound: the deposits of all wallets in all eons

Wallets == 0 .. NumWallets - 1
Eons == 0 .. MaxEon

ASSUME LedgerAssumption ==
  /\ NumWallets \in Nat \ {0}
  /\ Amounts \subseteq Nat
  /\ MaxEon \in Nat \ {0}
  /\ MaxRequests \in Nat
  /\ MaxDeposit \in Nat
  /\ Free \notin Handlers

VARIABLES
  latest_eon,     \* eon of LocalViewInterface.latest()
  confirmed_eon,  \* eon of LocalViewInterface.confirmed()
  deposits,       \* [e][w]: the sum of the Deposit rows
  spendings,      \* [e][w]: updated_spendings of the last outgoing transfer
  received,       \* [e][w]: the sum of the incoming transfers
  last_in,        \* [e][w]: the incoming transfer with the highest position
  touched,        \* [w]: the latest eon with an outgoing transfer
  requests,       \* the number of requests so far, for the bound
  commitments,    \* the eons with a committed RootCommitment
  allotments,     \* [e][w]: the amount of the ExclusiveBalanceAllotment
  wallet_lock,    \* [w]: the handler that holds the wallet's lock, or Free
  pc,             \* per handler, where it is in create()
  tx,             \* per handler, the transfer it builds
  is_created,     \* per handler, is_checkpoint_created
  loose_funds,    \* per handler, what it counts of the eon before
  task,           \* the checkpoint task: where it is, the eon of its
                  \* checkpoint, the next wallet and new_balances so far
  gap,            \* history: the handlers that found their eon open between
                  \* the release of its checkpoint's lock and the commit
  late,           \* history, [e][w]: what their transfers moved, in eon e,
                  \* to and from the wallet
  twice,          \* history: the handlers that counted the funds of the eon
                  \* before and, after its commit, those of the eon's allotment
  straddled       \* history: the senders of the transfers of such handlers

chain == << latest_eon, confirmed_eon, deposits >>
rows == << spendings, received, last_in, touched >>
checkpoint == << commitments, allotments, task >>
locals == << tx, is_created, loose_funds >>
control == << wallet_lock, pc, requests >>
history == << gap, late, twice, straddled >>
vars == << chain, rows, checkpoint, locals, control, history >>

Zero == [e \in Eons |-> [w \in Wallets |-> 0]]

NoTransfer == [wallet |-> 0, recipient |-> 0, eon |-> 0, amount |-> 0,
               spendings |-> 0, position |-> 0]

NoTask == [at |-> "idle", eon |-> 0, next |-> 0,
           balances |-> [w \in Wallets |-> 0]]

(* The ledger starts in eon 1, whose checkpoint is empty.                  *)
Init ==
  /\ latest_eon = 1
  /\ confirmed_eon = 1
  /\ deposits = Zero
  /\ spendings = Zero
  /\ received = Zero
  /\ last_in = [e \in Eons |-> [w \in Wallets |-> [position |-> 0, amount |-> 0]]]
  /\ touched = [w \in Wallets |-> 0]
  /\ requests = 0
  /\ commitments = {1}
  /\ allotments = Zero
  /\ wallet_lock = [w \in Wallets |-> Free]
  /\ pc = [h \in Handlers |-> "idle"]
  /\ tx = [h \in Handlers |-> NoTransfer]
  /\ is_created = [h \in Handlers |-> FALSE]
  /\ loose_funds = [h \in Handlers |-> 0]
  /\ task = NoTask
  /\ gap = {}
  /\ late = Zero
  /\ twice = {}
  /\ straddled = {}

-----------------------------------------------------------------------------
(* What a wallet owns in an eon, from its allotment on.  The checkpoint    *)
(* asks with only_appended=True and takes the end of the last incoming     *)
(* transfer for what the wallet received, a handler adds the amounts up.   *)

AvailableFunds(w, e) ==
  allotments[e][w] + deposits[e][w] - spendings[e][w] + received[e][w]

AppendedFunds(w, e) ==
  allotments[e][w] + deposits[e][w] - spendings[e][w]
    + last_in[e][w].position + last_in[e][w].amount

-----------------------------------------------------------------------------
(* The chain, as the synchroniser reports it.                              *)

(* A new eon begins.  The lag of confirmations is shorter than an eon, and *)
(* an eon whose checkpoint is missed halts the contract for good.          *)
NewEon ==
  /\ latest_eon < MaxEon
  /\ confirmed_eon = latest_eon
  /\ latest_eon \in commitments
  /\ latest_eon' = latest_eon + 1
  /\ UNCHANGED << confirmed_eon, deposits, rows, checkpoint, locals,
                  control, history >>

ConfirmEon ==
  /\ confirmed_eon < latest_eon
  /\ confirmed_eon' = latest_eon
  /\ UNCHANGED << latest_eon, deposits, rows, checkpoint, locals,
                  control, history >>

(* What all wallets have deposited until the end of an eon.                *)
TotalDeposits(e) ==
  SumFunction([d \in 0 .. e |-> SumFunction(deposits[d])])

(* DepositInterpreter.interpret on a confirmed block, under wallet.lock.   *)
Deposit(w) ==
  \E a \in Amounts :
    /\ wallet_lock[w] = Free
    /\ TotalDeposits(MaxEon) + a <= MaxDeposit
    /\ deposits' = [deposits EXCEPT ![confirmed_eon][w] = @ + a]
    /\ UNCHANGED << latest_eon, confirmed_eon, rows, checkpoint, locals,
                    control, history >>

-----------------------------------------------------------------------------
(* TransferSerializer.create.                                              *)

Goto(h, from, to) == pc[h] = from /\ pc' = [pc EXCEPT ![h] = to]

LockWithoutWaiting(h, w) == wallet_lock' = [wallet_lock EXCEPT ![w] = h]

Lock(h, w) ==
  /\ wallet_lock[w] = Free
  /\ wallet_lock' = [wallet_lock EXCEPT ![w] = h]

Unlock(h) ==
  wallet_lock' = [w \in Wallets |-> IF wallet_lock[w] = h THEN Free
                                    ELSE wallet_lock[w]]

(* Inside the readers-writer lock of its eon, and inside all its locks.    *)
InLocks(h) == pc[h] \in {"checks", "created", "previous", "funds", "append"}
Reading(h, e) == tx[h].eon = e /\ (InLocks(h) \/ pc[h] \in {"first", "second"})

(* A request arrives for the latest eon, between two different wallets.    *)
Receive(h) ==
  \E w, r \in Wallets, a \in Amounts :
    /\ Goto(h, "idle", "locking")
    /\ requests < MaxRequests
    /\ w # r
    /\ tx' = [tx EXCEPT ![h] = [NoTransfer EXCEPT !.wallet = w, !.recipient = r,
                                  !.amount = a, !.eon = latest_eon]]
    /\ requests' = requests + 1
    /\ UNCHANGED << chain, rows, checkpoint, is_created, loose_funds,
                    wallet_lock, history >>

(* It takes the readers-writer lock of the eon, which a waiting or writing *)
(* checkpoint task keeps it from,                                          *)
EonOpen(e) == ~(task.eon - 1 = e /\ task.at \in {"waiting", "snapshot"})

EnterEon(h) ==
  /\ Goto(h, "locking", "first")
  /\ EonOpen(tx[h].eon)
  /\ UNCHANGED << chain, rows, checkpoint, locals, wallet_lock, requests,
                  history >>

(* and the locks of the two wallets, sorted by trail_identifier.           *)
SenderFirst(t) == << t.wallet, t.recipient >>

LockOrder(t) == IF t.wallet < t.recipient THEN << t.wallet, t.recipient >>
                ELSE << t.recipient, t.wallet >>

LockFirstWallet(h) ==
  /\ Goto(h, "first", "second")
  /\ Lock(h, LockOrder(tx[h])[1])
  /\ UNCHANGED << chain, rows, checkpoint, locals, requests, history >>

LockSecondWallet(h) ==
  /\ Goto(h, "second", "checks")
  /\ Lock(h, LockOrder(tx[h])[2])
  /\ UNCHANGED << chain, rows, checkpoint, locals, requests, history >>

(* The eon must not be frozen, and the sender (can_schedule_transfer) must *)
(* not have sent in a later eon.                                           *)
Committing(e) == task.at = "commit" /\ task.eon = e

PassChecks(h) ==
  /\ Goto(h, "checks", "created")
  /\ gap' = IF Committing(tx[h].eon + 1) THEN gap \cup {h} ELSE gap
  /\ UNCHANGED << chain, rows, checkpoint, locals, wallet_lock, requests,
                  late, twice, straddled >>

CheckEonNotTouched(h) == tx[h].eon + 1 \notin commitments /\ PassChecks(h)

CheckEonNotSealed(h) == touched[tx[h].wallet] <= tx[h].eon /\ PassChecks(h)

CheckEon(h) ==
  /\ tx[h].eon + 1 \notin commitments
  /\ touched[tx[h].wallet] <= tx[h].eon
  /\ PassChecks(h)

(* can_send_transfer: is there a checkpoint of the eon?                    *)
ReadIsCreated(h) ==
  /\ Goto(h, "created", "previous")
  /\ is_created' = [is_created EXCEPT ![h] = tx[h].eon \in commitments]
  /\ UNCHANGED << chain, rows, checkpoint, tx, loose_funds, wallet_lock,
                  requests, history >>

(* loosely_available_funds_at_eon: while there is none, the funds of the   *)
(* eon before count,                                                       *)
AlwaysReadLooseFunds(h) ==
  /\ Goto(h, "previous", "funds")
  /\ loose_funds' = [loose_funds EXCEPT ![h] =
                       AvailableFunds(tx[h].wallet, tx[h].eon - 1)]
  /\ UNCHANGED << chain, rows, checkpoint, tx, is_created, wallet_lock,
                  requests, history >>

ReadLooseFunds(h) ==
  /\ Goto(h, "previous", "funds")
  /\ loose_funds' = [loose_funds EXCEPT ![h] =
                       IF is_created[h] THEN 0
                       ELSE AvailableFunds(tx[h].wallet, tx[h].eon - 1)]
  /\ UNCHANGED << chain, rows, checkpoint, tx, is_created, wallet_lock,
                  requests, history >>

(* and then those of the eon, its allotment among them.  The amount must   *)
(* not exceed the two; the active state adds it to the spendings so far    *)
(* and the recipient receives it after all he has received.                *)
ReadFunds(h) ==
  LET t == tx[h] IN
  /\ Goto(h, "funds", "append")
  /\ t.amount <= loose_funds[h] + AvailableFunds(t.wallet, t.eon)
  /\ tx' = [tx EXCEPT ![h].spendings = spendings[t.eon][t.wallet] + t.amount,
                      ![h].position = received[t.eon][t.recipient]]
  /\ twice' = IF ~is_created[h] /\ t.eon \in commitments
                THEN twice \cup {h} ELSE twice
  /\ UNCHANGED << chain, rows, checkpoint, is_created, loose_funds,
                  wallet_lock, requests, gap, late, straddled >>

(* transfer.save() in its own transaction, then the locks are left.        *)
LateTransfer(h) ==
  LET t == tx[h] IN
  [late EXCEPT ![t.eon] = [w \in Wallets |->
     IF w = t.wallet THEN @[w] - t.amount
     ELSE IF w = t.recipient THEN @[w] + t.amount ELSE @[w]]]

AppendTransfer(h) ==
  LET t == tx[h] IN
  /\ Goto(h, "append", "idle")
  /\ spendings' = [spendings EXCEPT ![t.eon][t.wallet] = t.spendings]
  /\ received' = [received EXCEPT ![t.eon][t.recipient] = @ + t.amount]
  /\ last_in' = [last_in EXCEPT ![t.eon][t.recipient] =
                   IF t.position >= @.position
                     THEN [position |-> t.position, amount |-> t.amount] ELSE @]
  /\ touched' = [touched EXCEPT ![t.wallet] = IF @ < t.eon THEN t.eon ELSE @]
  /\ Unlock(h)
  /\ tx' = [tx EXCEPT ![h] = NoTransfer]
  /\ is_created' = [is_created EXCEPT ![h] = FALSE]
  /\ loose_funds' = [loose_funds EXCEPT ![h] = 0]
  /\ gap' = gap \ {h}
  /\ late' = IF h \in gap THEN LateTransfer(h) ELSE late
  /\ straddled' = IF h \in twice THEN straddled \cup {t.wallet} ELSE straddled
  /\ twice' = twice \ {h}
  /\ UNCHANGED << chain, checkpoint, requests >>

(* Any check may turn the transfer down: those above, the SLA, the balance *)
(* marker or a signature.  Nothing is written and the locks are left.      *)
RejectTransfer(h) ==
  /\ InLocks(h)
  /\ pc' = [pc EXCEPT ![h] = "idle"]
  /\ Unlock(h)
  /\ tx' = [tx EXCEPT ![h] = NoTransfer]
  /\ is_created' = [is_created EXCEPT ![h] = FALSE]
  /\ loose_funds' = [loose_funds EXCEPT ![h] = 0]
  /\ gap' = gap \ {h}
  /\ twice' = twice \ {h}
  /\ UNCHANGED << chain, rows, checkpoint, requests, late, straddled >>

-----------------------------------------------------------------------------
(* create_checkpoint, in the one accounting worker.                        *)

TaskGoto(from, to) == task.at = from /\ task' = [task EXCEPT !.at = to]

DueUnconfirmed == latest_eon \notin commitments
DueBeforeConfirmed == confirmed_eon < latest_eon /\ latest_eon \notin commitments

CheckpointDue == confirmed_eon = latest_eon /\ latest_eon \notin commitments

StartCheckpoint ==
  /\ task.at = "idle"
  /\ CheckpointDue
  /\ task' = [task EXCEPT !.at = "waiting", !.eon = latest_eon]
  /\ UNCHANGED << chain, rows, commitments, allotments, locals, control,
                  history >>

(* Every second the task looks, and mostly there is nothing to do.         *)
SkipCheckpoint ==
  /\ task.at = "idle"
  /\ ~CheckpointDue
  /\ UNCHANGED vars

(* The writer lock of the eon to freeze: its readers are out.              *)
AcquireWithReaders ==
  /\ TaskGoto("waiting", "snapshot")
  /\ UNCHANGED << chain, rows, commitments, allotments, locals, control,
                  history >>

AcquireWriteLock ==
  /\ TaskGoto("waiting", "snapshot")
  /\ \A h \in Handlers : ~Reading(h, task.eon - 1)
  /\ UNCHANGED << chain, rows, commitments, allotments, locals, control,
                  history >>

(* create_token_commitment_for_eon, one wallet at a time under its lock.   *)
SnapshotWallet ==
  LET w == task.next IN
  /\ task.at = "snapshot"
  /\ w \in Wallets
  /\ wallet_lock[w] = Free
  /\ AppendedFunds(w, task.eon - 1) >= 0
  /\ task' = [task EXCEPT !.balances[w] = AppendedFunds(w, task.eon - 1),
                          !.next = w + 1]
  /\ UNCHANGED << chain, rows, commitments, allotments, locals, control,
                  history >>

(* `assert right >= left` fails: the transaction rolls back, the lock is   *)
(* released and notification_on_error swallows the exception.              *)
FailAssertion ==
  /\ task.at = "snapshot"
  /\ task.next \in Wallets
  /\ wallet_lock[task.next] = Free
  /\ AppendedFunds(task.next, task.eon - 1) < 0
  /\ task' = NoTask
  /\ UNCHANGED << chain, rows, commitments, allotments, locals, control,
                  history >>

(* `with transaction.atomic(), ...read_write_lock(...)` leaves the lock    *)
(* first,                                                                  *)
ReleaseWriteLock ==
  /\ task.next = NumWallets
  /\ TaskGoto("snapshot", "commit")
  /\ UNCHANGED << chain, rows, commitments, allotments, locals, control,
                  history >>

(* and commits the allotments and the RootCommitment after that.           *)
CommitCheckpoint ==
  /\ task.at = "commit"
  /\ commitments' = commitments \cup {task.eon}
  /\ allotments' = [allotments EXCEPT ![task.eon] = task.balances]
  /\ task' = NoTask
  /\ UNCHANGED << chain, rows, locals, control, history >>

-----------------------------------------------------------------------------

HandlerStep(h) ==
  \/ EnterEon(h) \/ LockFirstWallet(h) \/ LockSecondWallet(h)
  \/ CheckEon(h) \/ ReadIsCreated(h) \/ ReadLooseFunds(h) \/ ReadFunds(h)
  \/ AppendTransfer(h) \/ RejectTransfer(h)

TaskStep ==
  \/ StartCheckpoint \/ AcquireWriteLock \/ SnapshotWallet \/ FailAssertion
  \/ ReleaseWriteLock \/ CommitCheckpoint

Next ==
  \/ NewEon \/ ConfirmEon
  \/ \E w \in Wallets : Deposit(w)
  \/ \E h \in Handlers : Receive(h) \/ HandlerStep(h)
  \/ TaskStep \/ SkipCheckpoint

Spec == Init /\ [][Next]_vars

(* Requests finish, the accounting worker runs its task every second and   *)
(* the synchroniser confirms blocks.                                       *)
FairSpec ==
  /\ Spec
  /\ \A h \in Handlers : WF_vars(HandlerStep(h))
  /\ WF_vars(TaskStep)
  /\ WF_vars(ConfirmEon)

-----------------------------------------------------------------------------
(* Properties.                                                             *)

HandlerPc == {"idle", "locking", "first", "second", "checks", "created",
              "previous", "funds", "append"}

ChainTypeOK ==
  /\ latest_eon \in Eons
  /\ confirmed_eon \in Eons
  /\ deposits \in [Eons -> [Wallets -> Nat]]

RowsTypeOK ==
  /\ spendings \in [Eons -> [Wallets -> Nat]]
  /\ received \in [Eons -> [Wallets -> Nat]]
  /\ last_in \in [Eons -> [Wallets -> [position : Nat, amount : Nat]]]
  /\ touched \in [Wallets -> Eons]

CheckpointTypeOK ==
  /\ commitments \subseteq Eons
  /\ allotments \in [Eons -> [Wallets -> Nat]]
  /\ task \in [at : {"idle", "waiting", "snapshot", "commit"}, eon : Eons,
               next : 0 .. NumWallets, balances : [Wallets -> Nat]]

LocalsTypeOK ==
  /\ tx \in [Handlers -> [wallet : Wallets, recipient : Wallets, eon : Eons,
                          amount : Nat, spendings : Nat, position : Nat]]
  /\ is_created \in [Handlers -> BOOLEAN]
  /\ loose_funds \in [Handlers -> Int]

ControlTypeOK ==
  /\ wallet_lock \in [Wallets -> Handlers \cup {Free}]
  /\ pc \in [Handlers -> HandlerPc]
  /\ requests \in Nat

HistoryTypeOK ==
  /\ gap \subseteq Handlers
  /\ late \in [Eons -> [Wallets -> Int]]
  /\ twice \subseteq Handlers
  /\ straddled \subseteq Wallets

TypeOK ==
  /\ ChainTypeOK /\ RowsTypeOK /\ CheckpointTypeOK
  /\ LocalsTypeOK /\ ControlTypeOK /\ HistoryTypeOK

(* The transfers a wallet receives in an eon lie side by side, without gap *)
(* or overlap, so that the end of the last one is their sum: the leaves of *)
(* PassiveDeliveryMerkleTree are disjoint and the checkpoint may take      *)
(* position + amount for what was received (wallet_transfer.py:705-723).   *)
PassiveTiling ==
  \A e \in Eons, w \in Wallets :
    last_in[e][w].position + last_in[e][w].amount = received[e][w]

(* No transfer's effect is lost: what the wallets have sent in an eon,     *)
(* by their last active states, is what they have received in it.          *)
SpendingsAddUp ==
  \A e \in Eons : SumFunction(spendings[e]) = SumFunction(received[e])

(* While the writer lock is held the ledger of the eon stands still: the   *)
(* balances the checkpoint has noted are still those of the wallets        *)
(* ("transaction confirmation will not mutate ledger while checkpoint is   *)
(* being created", create_checkpoint.py:89).                               *)
SnapshotConsistent ==
  task.at = "snapshot" =>
    \A w \in Wallets : w < task.next =>
      task.balances[w] = AvailableFunds(w, task.eon - 1)

(* A checkpoint hands out exactly what was deposited until the end of the  *)
(* eon before, the funds the contract manages: it never reports            *)
(* OVERCLAIMING (create_checkpoint.py:331) nor leaves some UNCLAIMED.      *)
CheckpointConservesFunds ==
  \A e \in commitments \ {1} :
    SumFunction(allotments[e]) = TotalDeposits(e - 1)

(* A wallet that signs for eon e has given up eon e-1: what it has sent in *)
(* an eon never changes once a later one is touched by it.                 *)
TouchedEonIsClosed ==
  [][\A e \in Eons, w \in Wallets :
       e < touched[w] => spendings'[e][w] = spendings[e][w]]_vars

(* What a wallet may spend now: until the eon's checkpoint exists, the     *)
(* funds of the eon before count as well.                                  *)
Spendable(w) ==
  AvailableFunds(w, latest_eon)
    + IF latest_eon \in commitments THEN 0 ELSE AvailableFunds(w, latest_eon - 1)

(* The checkpoint is a fence: once the eon after e has its checkpoint, the *)
(* allotments in it are what the wallets owned at the end of e, and no     *)
(* transfer of e is added any more.  It does not hold: see the run         *)
(* ledger_commit_gap.                                                      *)
Fence ==
  \A e \in commitments \ {1}, w \in Wallets :
    allotments[e][w] = AvailableFunds(w, e - 1)

(* What the fence lets through is what handlers move that looked for the   *)
(* RootCommitment between the release of the lock and the commit           *)
(* (create_checkpoint.py:90, transfer.py:96), to the last unit: a transfer *)
(* that waited for its wallets, whose eon was read before or that was      *)
(* checked before the snapshot is in the allotments or is turned down.     *)
OnlyTheGapLeaks ==
  \A e \in commitments \ {1}, w \in Wallets :
    allotments[e][w] = AvailableFunds(w, e - 1) - late[e - 1][w]

(* Nobody spends more than he owns, however transfers race with the        *)
(* checkpoint that turns the funds of the last eon into an allotment,      *)
(* except in two races: a handler that finds no checkpoint of its eon and  *)
(* reads the eon's funds when there is one counts what was left of the eon *)
(* before twice (wallet_transfer.py:752), and what came in through the gap *)
(* may be spent although it is in no allotment.                            *)
OverspentByRaceOnly ==
  \A w \in Wallets :
    Spendable(w) < 0 => w \in straddled \/ \E e \in Eons : late[e][w] > 0

(* Every eon that is confirmed gets its checkpoint, whatever handlers hold *)
(* the locks it needs when the task starts: unless a wallet is overdrawn   *)
(* at its end and stays so, which fails the assertion of                   *)
(* create_checkpoint.py:169 in every attempt.                              *)
Overdrawn(e) == \E w \in Wallets : AppendedFunds(w, e) < 0

EveryEonIsCheckpointed ==
  \A e \in Eons \ {0, 1} :
    confirmed_eon = e ~> (e \in commitments \/ []Overdrawn(e - 1))

(* Nobody waits for a lock forever: handlers and the task take the locks   *)
(* in the same order, the eon before the wallets and those by trail.  Only *)
(* a checkpoint that fails again and again, for a wallet that is and stays *)
(* overdrawn, may take the eon's lock before a handler each time.          *)
RequestsAreAnswered ==
  \A h \in Handlers :
    pc[h] # "idle" ~> (pc[h] = "idle" \/ []Overdrawn(latest_eon - 1))

-----------------------------------------------------------------------------
(* The inductive invariant behind PassiveTiling, SnapshotConsistent and    *)
(* TouchedEonIsClosed, part by part.                                       *)

(* Nobody works for an eon that has not begun, and the eon a checkpoint    *)
(* freezes is over for the deposits as well.                               *)
EonsInOrder ==
  /\ 1 <= confirmed_eon /\ confirmed_eon <= latest_eon
  /\ \A h \in Handlers : pc[h] # "idle" => tx[h].eon >= 1
  /\ task.at # "idle" => 1 <= task.eon /\ task.eon <= confirmed_eon

(* A handler that has passed the locks owns those of both wallets.         *)
LocksHeld ==
  \A h \in Handlers :
    /\ pc[h] # "idle" => tx[h].wallet # tx[h].recipient
    /\ pc[h] = "second" => wallet_lock[LockOrder(tx[h])[1]] = h
    /\ InLocks(h) => /\ wallet_lock[tx[h].wallet] = h
                     /\ wallet_lock[tx[h].recipient] = h

(* What a handler has read of the rows its locks guard is still so when it *)
(* writes.                                                                 *)
ReadsAreFresh ==
  \A h \in Handlers :
    /\ InLocks(h) /\ pc[h] # "checks" => touched[tx[h].wallet] <= tx[h].eon
    /\ pc[h] = "append" =>
         /\ tx[h].position = received[tx[h].eon][tx[h].recipient]
         /\ tx[h].spendings =
              spendings[tx[h].eon][tx[h].wallet] + tx[h].amount

(* The writer lock keeps the readers of the eon out.                       *)
WriterAlone ==
  /\ task.at = "snapshot" => \A h \in Handlers : ~Reading(h, task.eon - 1)
  /\ task.at \in {"idle", "waiting"} => task.next = 0

LedgerInv ==
  /\ TypeOK
  /\ EonsInOrder
  /\ LocksHeld
  /\ ReadsAreFresh
  /\ WriterAlone
  /\ PassiveTiling
  /\ SnapshotConsistent
=============================================================================
