# A TLA+ model of the NOCUST operator hub

The repository is the operator ("hub") of a NOCUST commit chain: a Django and
Celery application that keeps an off-chain ledger of wallets, matches swaps
between them, commits the state of every *eon* to an Ethereum contract and
watches that contract.  This directory holds TLA+ modules translated from the
source under `src/operator_api`, TLC configurations that check them on small
instances, and TLAPS proofs of the properties that matter most.

Paths without a prefix are relative to `src/operator_api`; `README.md:n` is the
repository's own README.

* [1. The system](#1-the-system): processes, components, state, hazards
* [2. The project](#2-the-project): modules, composition
* [3. The modules](#3-the-modules): how each corresponds to the code
* [4. The runs](#4-the-runs): what is checked, with which bounds
* [5. The proofs](#5-the-proofs): what holds for every instance, and why
* [6. Findings](#6-findings): what the code does otherwise than it says
* [7. What is left out](#7-what-is-left-out)


## 1. The system

### Processes

| process | does | concurrency |
|---|---|---|
| Server | HTTP requests and websockets | many threads |
| Scheduler | Celery beat: starts the heartbeats | one |
| Accounting worker | `heartbeat_accounting` every second: admissions, slashing, passive transfers, confirm swaps, cancel and finalize swaps, match swaps, checkpoint; in this order | one |
| Verifier worker | `heartbeat_verifier` every 10 seconds: synchronise with the contract, answer challenges, confirm withdrawals, send queued transactions; in this order | one |
| Chain worker | fetches blocks for the verifier, health checks | several |
| Audit worker | websocket notifications, terms of service | several |

They share one PostgreSQL database at its default isolation READ COMMITTED,
without a transaction per request (`operator_api/settings.py`), and Redis locks
(`operator_api/models/mutex_model.py`, `locks.py`): a lock per row (wallets,
swaps), a global lock per model, and a readers-writer lock per eon.  A task's
exception is mailed and swallowed (`operator_api/decorators.py:8-16`), so the
heartbeat goes on and the task is tried again in the next beat.

### Components

| component | state | operations | interacts with |
|---|---|---|---|
| Locks | Redis keys with a time to live, a counter | acquire, release, renew, reset; enter and leave as reader or writer | all others |
| Ledger | `Wallet`, `Transfer`, `ActiveState`, `ExclusiveBalanceAllotment`, `RootCommitment`, `TokenCommitment`, `Deposit`, `Withdrawal` | transfer, balance of a wallet in an eon, checkpoint | Contractor (eon, deposits), Swapper, Transactor |
| Transactor | rows of the Ledger | create a transfer, sign and finalize passive ones | Ledger |
| Swapper | `Transfer` rows with `swap=True`, `Matching` rows | create, freeze, cancel, finalize (clients); match, confirm, cancel and finalize (worker) | Ledger, Synchronizer |
| Contractor | `ContractState`, `ContractLedgerState`, `EthereumTransaction`, `EthereumTransactionAttempt`, `ChallengeEntry`, `WithdrawalRequest` | follow the chain, queue and send transactions, confirm and slash withdrawals, answer challenges | Ethereum, Ledger |
| Admission | `Wallet`, `Signature` | admit wallets with a trail identifier | Ledger, Terms of Service |
| Heartbeat | none | run the tasks of a worker in order | all tasks |
| Auditor | none | proofs and views of wallets, order books | Ledger, Swapper |
| Synchronizer | subscriptions of websocket connections | subscribe, unsubscribe, push | Auditor |
| Leveller | service agreements | agree, pay | Ledger |
| Terms of Service | texts and their signatures | sign, check | Admission |
| Analytics | none | counts | Ledger |
| Merkle trees | none (functions, caches in columns) | roots, proofs, incremental updates | Ledger, Swapper, Auditor |

### What is hard in it

* *Interleaving.* Handlers of the server and tasks of the workers read and write
  the same wallets in many separate queries; the accounting and the verifier
  worker number Ethereum transactions from one sequence.
* *What a lock covers and when it is left.*  A `with` statement that opens a
  transaction and then takes a lock leaves the lock before the commit
  (`ledger/tasks/create_checkpoint.py:90`); a value read before a lock is used
  after it (`transactor/serializers/transfer.py:86`,
  `contractor/interfaces/nocust_contract_interface.py:35`).
* *Locks that are more than a mutex.*  The readers-writer lock is four Redis keys
  that expire separately, and any process may delete (`operator_api/models/locks.py`).
* *Eons.*  What a wallet owns depends on the eon, on whether its checkpoint has
  been cut and on which transfers were in time.
* *Cached views.*  One run of the matcher keeps order books in memory beside the
  rows they come from, and asserts that they agree.
* *Rounding.*  Matching converts between two tokens with integer division, and its
  price checks forgive a slack.
* *The chain.*  Blocks arrive late and in batches, are reorganised, transactions
  are refused, forgotten, or priced too low; a worker dies between sending and
  recording; the client library raises an exception where the code expects None.

`PROJECT.json` lists each of these at its line under `hazards`, with the
properties that would catch it going wrong, or the reason why none does.

### What makes each component correct

| component | properties |
|---|---|
| Locks | nobody reads while somebody writes; a waiting writer is not overtaken; somebody always enters |
| Ledger | no transfer is lost or counted twice; nobody overspends; a checkpoint allots exactly what there was and nothing changes behind it; each confirmed eon gets one |
| Swapper | no order gives more than it offered or at a worse price than its limit (within the slack); orders that cross do not stay open; the assertions of the matcher hold |
| Contractor: sending | nonces without gaps; nothing queued twice; what is queued gets into the chain, unless it pays too little or is forgotten; confirmed means deep |
| Contractor: chain | every block's events are interpreted exactly once, in order, and only when deep enough |
| Contractor: withdrawals | a withdrawal is confirmed or slashed, never both; who has spent what he asks for can be slashed; a confirmation settles the requests it was for |
| Admission | trail identifiers are dense and never reused; a wallet appears in the ledger between two checkpoints |
| Challenges | each open challenge is answered once and in time |
| Synchronizer | a connection gets what it subscribed to and nothing else |
| Merkle trees | a proof verifies exactly for the leaf it was made of; incremental and full trees agree |


## 2. The project

| module | component | built on | proofs |
|---|---|---|---|
| `RWLockPromise` | what the readers-writer lock promises | | |
| `ReadWriteLock` | the lock as Redis commands | implements `RWLockPromise` | `ReadWriteLock_proofs` |
| `Ledger` | transfers, deposits, checkpoints | the lock by its promise | `Ledger_proofs` |
| `LimitMatching` | the arithmetic of one match | | with `SwapMatching` |
| `SwapMatching` | a run of the matcher over the order books | `LimitMatching` | `SwapMatching_proofs` |
| `SwapLifecycle` | an order over several eons | a match as `SwapMatching` makes it: it fills an order by some amount | `SwapLifecycle_proofs` |
| `TxQueue` | the queue of Ethereum transactions | | `TxQueue_proofs` |
| `ChainView` | what the rest of the hub sees of the chain | | |
| `ChainSync` | running and confirmed view, checkpoints that rest on them | implements `ChainView` | `ChainSync_proofs` |
| `Withdrawals` | request, slash, confirm against the balances of two eons | `ChainSync` and `TxQueue` by what they guarantee | `Withdrawals_proofs` |

`Sums` holds lemmas about sums over finite sets, which the proofs of
`Ledger` and `Withdrawals` use.  `MC` modules instantiate the others for TLC: they
add symmetry sets and, for `SwapMatching`, the choice of instances (`Bounds`).
A module that builds on another uses what that one is shown to provide rather
than its steps: `Ledger` takes from `ReadWriteLock` that readers and writers
exclude each other and a writer that waits keeps readers out; `Ledger` and
`SwapLifecycle` take from `ChainSync` eons that begin and are confirmed in
order; `Withdrawals` takes from it events that come once and in order, and from
`TxQueue` transactions mined in the order of their nonces with one row per tag.

What remains is listed with its reasons in [section 7](#7-what-is-left-out).


## 3. The modules

Each module's opening comment says what its steps and its data stand for;
`PROJECT.json` maps each definition to its lines.  Definitions named as "faulty
variants" are there to show that the properties would notice a bug of that kind;
no action uses them.

### ReadWriteLock and RWLockPromise: `operator_api/models/locks.py`

One action is one Redis command or statement of `ReadWriteLock.acquire_read`,
`release_read`, `acquire_write` and `release_write`.  `pc` is the next command of
a process; `counter` is the local variable of a reader between the command that
reads the shared counter and the one that writes it.  A lock is its owner or
`Free`.  `Mortal` processes may crash anywhere inside, and a lock of `MayExpire`
may run out while its living owner works; both are circumstances a run chooses.

`RWLockPromise` says in four variables what users rely on: a writer *claims* the
lock, nobody is *admitted* from then on, and it *writes* when those admitted
before are out.  `KeepsPromise` in `ReadWriteLock` is the refinement.

### Ledger: transfers, deposits and checkpoints

| action | code |
|---|---|
| `Receive`, `EnterEon`, `LockFirstWallet`, `LockSecondWallet`, `CheckEon`, `ReadIsCreated`, `ReadLooseFunds`, `ReadFunds`, `AppendTransfer`, `RejectTransfer` | `TransferSerializer.create` and `validate`, `transactor/serializers/transfer.py`, with the balances of `ledger/context/wallet_transfer.py` |
| `Deposit` | `contractor/interpreters/deposit.py` |
| `NewEon`, `ConfirmEon` | what `LocalViewInterface.latest` and `confirmed` return |
| `StartCheckpoint`, `SkipCheckpoint`, `AcquireWriteLock`, `SnapshotWallet`, `FailAssertion`, `ReleaseWriteLock`, `CommitCheckpoint` | `ledger/tasks/create_checkpoint.py` |

The rows of a wallet in an eon are kept as what the queries ask of them: the
`updated_spendings` of the last outgoing transfer, the sum of the incoming ones
and the last of these by position.  A group of accesses to rows whose wallet lock
is held is one step; the `RootCommitment` and the allotments are not protected by
those locks and each read of them is a step.

The writer lock is left before the transaction commits (`ReleaseWriteLock`,
`CommitCheckpoint`), and a checkpoint may commit between a handler's look at
`RootCommitment` and its sum of the funds (`ReadIsCreated`, `ReadLooseFunds`,
`ReadFunds`), as both may at READ COMMITTED.  Nothing switches these two races off.
Four history variables, which no guard reads, record what they do: `gap` and
`late` the handlers that found their eon open between release and commit and what
they moved, `twice` and `straddled` the handlers whose reads straddled a commit and
the wallets that sent with them.  The properties say what the code guarantees in
their terms.

`SkipCheckpoint` (the early returns of `create_checkpoint`), like `SkipRun` of
the matcher, changes nothing, so a
system in which nothing is left to do still takes steps and the check for
deadlock stays on.  The sub-block test (`create_checkpoint.py:42`) and the cases
of a missed checkpoint (`:55-87`) are abstracted to "the eon before is confirmed".

### LimitMatching and SwapMatching: matching orders

`LimitMatching` is `match_limit_to_limit` (`swapper/matcher/limit_to_limit.py`) as
operators: whether two orders cross, the volume the one with the better rank
trades, what each gives and gets, the four checks of the price with their slack
(100 in the code, `Slack` here), which order is then fulfilled, and the assertions
after it.  `SwapMatching` is `process_swaps_for_eon`
(`swapper/tasks/process_swaps.py`): which orders a run takes, the two cached
order books, the count of consumed entries, completed objects, the stamp where
the next run starts, the rollback of the whole run when an assertion fails or the
worker dies, and the stamp that is set inside the transaction and survives its
rollback (`CrashAtCommit`, `:218`).

The run works on Python objects, two for some rows: an entry of a book says
whether it is the loop's object or the row's, because `complete` is set on one of
them.  No order appears in the middle of a run: a run reads the unprocessed
orders once and its books leave out higher ids.  Orders are named by the rank of
their stamps; `ids` is the order in which they became visible, equal to that of
the stamps only when `InStampOrder`.  Stamps are in microseconds and the next run
starts a millisecond after the last stamp it took (`:70`): the constant
`Millisecond` says for each order which is the first stamp beyond that, any
monotone function.  `skipped` and `lost` record the orders that appeared behind the
stamp and those whose run was lost as it committed; `refused` the pairs turned down.

### TxQueue: Ethereum transactions

`QueueStep` is `queue_transaction_by_owner`
(`contractor/interfaces/nocust_contract_interface.py:34-72`), which both workers
call: read the chain's count of the owner's transactions, take the lock, number,
insert, leave the lock.  The accounting worker does so inside a transaction of
its own and its row is seen when that commits (`Commit`); the verifier commits
each statement.  An insertion of a nonce that another transaction has inserted
waits for that one and fails when it commits, as a unique index does.

`SendTransaction` is the body of the loop of
`contractor/tasks/send_queued_transactions.py`, a step per access to the node or
the tables.  `requirements-serv.txt:17` asks for web3 from version 5.0 on, whose
`getTransactionReceipt` raises an exception for a transaction without a receipt.
`ethereum_interface.py:38-39` lets it through and nothing in the task catches it:
`NoReceipt` ends the pass and leaves the lock.  What the source has behind a
receipt that is None (`:75-78`, the mark of a reorganised transaction is taken
back; `:87-111`, the gas price is doubled) is never reached and has no action, so
a transaction has one attempt at most: `attempts` is what it is marked.  Blocks are
not numbered: `lag` is how far the hub's view is behind, `chain` how deep the block
of each nonce is, no further than a comparison can tell.

Ethereum is external: blocks come, contain the owner's next transaction unless
miners ask for more than it pays (`Outbid`), are reorganised away unless they are
`Confirmations` deep; nodes forget a transaction, and refuse what has a used nonce
or does not pay more than what they hold, which the same attempt never does.


### SwapLifecycle: an order over several eons

| action | code |
|---|---|
| `PlaceSwap` | `SwapSerializer.create`, `swapper/serializers/swap.py` |
| `FreezeSwap`, `CancelSwap`, `FinalizeSwap` | `swap_freeze.py`, `swap_cancellation.py`, `swap_finalization.py` in `swapper/serializers` |
| `MatchSwap` | what `swapper/tasks/process_swaps.py` does to one row |
| `ConfirmSwaps`, `VoidSwap` | `swapper/tasks/confirm_swaps.py`, `swapper/util.py` |
| `CreateCheckpoint` | `retire_swap` for the rows of the eon before, `ledger/tasks/create_checkpoint.py` |
| `NextEon`, `ReceiveDeposit` | the chain |

An order has a row for each eon it is valid in; a row is the set of its flags
that are set.  `change_state`, `close`, `sign_swap` and `retire_swap` are
`ledger/models/transfer.py`.  Handlers and tasks lock the rows they read until
they commit, so each is a step; the eon they act for is read before and is not
protected.  `stale_eon` chooses, once, whether it may have passed by then.
A checkpoint is one step here: the gap between its release and its commit
(`create_checkpoint.py:90`) is in `Ledger`, and its assertions on delivery proofs
(`:244`, `:252`) are left out.  `FirstUncounted` says which deposits the starting
balance of an eon leaves out: those from the eon on when its checkpoint is cut, and
before that those of the last eon too, which are filtered out by their time
(`ledger/context/wallet_transfer.py:56-66`, `:837-844`).
Amounts are `Size` units that matches fill; how much a match fills and at which
price is `SwapMatching`'s subject.

### ChainSync and ChainView: following the chain

One pass of `synchronize_contract_state`
(`contractor/tasks/synchronize_contract_state.py`) is: compute the window
(`BeginPass`), let workers fetch its blocks in any order (`Workers`), take the
answers in ascending order, and store each block as running, confirmed or both.
What a block of the running view takes in several transactions is several steps;
what the code wraps in one transaction is one.  `AbandonPass` is a time-out, a
failed read or a crash between any two of them: nothing of a pass survives but
the rows it has committed.  `RegisterToken` is an administrator's or a
notification's new `Token` row, at any moment or, with `QuietRegistration`,
between passes only.  `Checkpoint` is the part of
`ledger/tasks/create_checkpoint.py` that takes blocks and ledger states from
the views (`:22-42`, `:305`).

The contents of a block is the number of the reorganisation that brought it, so
that a stale row can be told from a good one.  `Unread` are the zeros that a
failed call leaves in a row (`nocust_contract_interface.py:640`).

`ChainView` has two variables: the blocks no reorganisation reaches any more,
and those whose events were acted upon.  A step makes blocks final or applies
the next final one.  `ImplementsView` maps the confirmed view to it.

### Withdrawals: request, slash, confirm

`Request`, `MineSlash`, `MineConfirmation` and `PassSlack` are the contract,
which is not in the repository: external, by what the hub's calls and its tests
rely on.  `SeeRequest` and `SeeConfirmation` are the interpreters
(`contractor/interpreters/withdrawal_request.py`, `withdrawal_confirmation.py`);
`BeginSlashing`, `Slash`, `SkipSlashing` are
`contractor/tasks/slash_bad_withdrawals.py`, which reads the eon before it waits
for a lock; `QueueConfirmation` is `contractor/tasks/confirm_withdrawals.py`;
`Transfer` and `CreateCheckpoint` are the ledger reduced to one wallet and the
deduction of withdrawals (`ledger/context/wallet_transfer.py`), with the assertion
that a balance is not negative (`FundsSuffice`, `create_checkpoint.py:169`).

The hub learns nothing about which requests a confirmation on chain has paid: it
gets a sum and takes the oldest requests that are neither slashed nor withdrawn.
Nothing keeps a request from coming while a slashing is queued, a slashing from
being queued before a request is seen, or an eon from passing before the hub has
done what was due in it.  The history variable `disorder`, which no guard reads,
records the bad moments there were:

| kind | an eon passed ... |
|---|---|
| `"unseen"` | before the hub had seen all events of it |
| `"negative"` | while the funds of the wallet were negative |
| `"missed"` | before the requests due in it were queued for confirmation |
| `"mining"` | while a slashing waited to be mined |
| `"slashing"` | (no eon) a request came while a slashing waited, or was not seen yet when one was queued |

The money properties hold at all times (`OnlySlashedIsPaidTwice` unless
`"negative"`); `OverdrawnIsSlashable` says what holds while at most `"missed"` has
come (`Quiet`), `RequestsAreSettled` while nothing has, `ConfirmationsAddUp`
whenever the hub's marks and the contract agree (`MarksAgree`).  A transfer
that is accepted before the hub sees a request is no bad moment: no hub can
avoid it, and everything holds with it.  What comes of the others is in section 6.


## 4. The runs

All pass unless marked *violation*; those belong to a finding in section 6.

| run | shows | bounds, and why they are enough |
|---|---|---|
| `rwlock_safety` | mutual exclusion, the inductive invariant, the lock implements its promise | 3 readers (first, middle, last of a group), 2 writers that may crash |
| `rwlock_liveness` | a waiting writer is served; somebody who wants to enter does | 2 readers, 2 writers, a reader that crashes, two locks that expire |
| `ledger_checkpoint` | as the code runs: no transfer is lost, the snapshot stands still, checkpoints conserve funds, closed eons stay closed; what differs from an allotment came in through the commit gap, who overspends took part in one of the two races; every request is answered, every confirmed eon gets its checkpoint unless a wallet is and stays overdrawn; the inductive invariant | 2 handlers that may send in opposite directions, 2 wallets, eons 1 to 3: two checkpoints, the second built on the first, and the second fails if the first was raced; the proofs cover every number |
| `ledger_commit_gap` | *violation*: a transfer enters a frozen eon | 2 handlers, 2 wallets, 1 checkpoint |
| `swap_matching` | no order exceeds its limits; tables, caches and rollbacks agree; the assertions hold; no crossed book stays but for orders missed within a millisecond or with a lost run | (`Bounds`) orders of two tokens of which the second and third, and the fourth and fifth, share a millisecond.  3 orders below the slack of the price checks that become visible in any order, with partial matches; 3 or 4 that one run takes, two against one or two, with amounts on both sides of the slack: an order is refused, another filled, and the next order meets the latter in the cached book; 4 small ones over any number of runs, crashes and lost runs; or 5 of fixed amounts, whose fifth meets a book that is one entry short after a refusal |
| `swap_life` | nothing counts after an outcome, an outcome stays, a frozen order is not matched, the inductive invariant (with the signatures of what is fulfilled, and what a checkpoint retires) | an order of 2 units (matched, matched again), valid in 3 eons, placed in eon 1 or 2, with stale eons and without |
| `swap_deposit` | *violation*: a deposit into the wallet of an order makes an assertion of `confirm_swaps` fail once the checkpoint is cut | 2 orders, 1 eon to be confirmed in |
| `tx_queue` | nonces without gap, no tag twice, everything asked for is queued and, unless it or one before it gets stuck, mined for good; the inductive invariant | a transaction of each worker; of each kind of mishap (forgotten, outbid, reorganised, worker dies) one, three in all; a view up to 2 blocks behind |
| `tx_confirmation` | *violation*: a shallow block is confirmed | a view up to 3 blocks behind |
| `chain_sync` | neither view has gaps, checkpoints use final blocks, the view implements `ChainView`, every final block is applied and the running view catches up | 4 blocks in eons of 2, 2 confirmations, a window of 3, one reorganisation, one fault, a token registered at any height |
| `withdrawals` | only what is marked as slashed is paid twice, who has overdrawn can be slashed, a confirmation finds requests of its amount, requests are settled; the inductive invariant | balance 3, 2 requests of 1 or 2, 4 eons: request, slash or confirm, and one eon in between; behaviours until a second kind of bad moment (`OneDisorder`) |
| `withdrawals_slashing` | *violation*: what was spent is paid out | 4 requests, balance 3; no bad moment but `"slashing"` (`OnlySlashingIsDisturbed`), which leads TLC to the trace within its time |

Every bound is a constant of its module with a comment.  Requests, eons,
deposits, orders, blocks and faults are finite in number; the properties are
about what two or three actors do to each other, and each run reaches the case
it is about, which the faulty variants under `mutants` in `PROJECT.json` confirm:
each property is violated when the definition it guards is replaced.  Larger
instances passed as well: `chain_sync` with 5 blocks and 2 reorganisations (1.5
million states), `withdrawals` without `OneDisorder` (784,885 states, the safety
properties).

`OneDisorder` is a constraint of the run: TLC does not go on from a state in which a
second kind of bad moment has come.  That hides no violation of `RequestsAreSettled`,
which asks for nothing as soon as there is one, and `disorder` never shrinks.  The
safety properties hold beyond it too, by the larger run and by proof.  `Bounds`
constrains `swap_matching`, which states safety only.

`NoCrossedBook` and `BooksAgree` are said only while orders become visible in the
order of their stamps and the price checks turn nothing down: `NoCrossedBook` if
they never did, `BooksAgree` if they did not in a run that is still to be
committed.  `NoCrossedBook` also leaves aside the orders of `skipped` and `lost`,
and says of the former that they share a millisecond with an older order.
`OutcomeIsFinal` and `FrozenIsNotMatched` only while
handlers act in the eon they have read.  What happens otherwise is in section 6.

`swap_life`, `swap_deposit`, `chain_sync` and the two runs of `Withdrawals` do not check for
deadlock: their eons or blocks end at a bound, after which there is nothing left
to do.

### Fairness

* `ReadWriteLock`: each command of a living process is weakly fair (Redis answers,
  the process is scheduled), and a process that has not asked for the lock may
  never ask.  Starvation of a single reader is possible and not excluded.
* `Ledger`: weak fairness of each handler (a thread runs on), of the checkpoint
  task (the heartbeat is every second) and of `ConfirmEon` (blocks are confirmed).
  Requests are bounded, so that wallet locks, which are not queued, cannot starve a
  handler; that unbounded traffic could do so is outside the model.
* `TxQueue`: weak fairness of the verifier; strong fairness of the accounting
  worker, because the lock it needs is free for the seconds between two beats of
  the verifier; not every fetch of blocks times out; blocks keep coming, and one
  contains a transaction that the nodes hold again and again and that pays enough.
* `ChainSync`: weak fairness of the synchroniser (the heartbeat starts a pass
  again and again, and a pass runs on) and of the workers that fetch.  Faults are
  bounded: not every pass fails.  The chain need not grow.
* `Withdrawals`: weak fairness of what happens by itself on chain and of the
  interpreters; strong fairness of the tasks that are possible in parts of an eon
  only: they are tried every second or every ten, an eon lasts hours.
* `SwapMatching` and `SwapLifecycle` state safety only: what comes first in them
  depends on clients.


## 5. The proofs

The theorems hold for every value of the constants that satisfies the named
assumption of the module (`LockAssumption`, `LedgerAssumption`, `SwapAssumption`
with `SlackAssumption`, `SwapLifecycleAssumption`, `TxQueueAssumption`,
`ChainSyncAssumption`, `WithdrawalsAssumption`): any number of processes,
wallets, eons, orders, amounts, requests, blocks.  What a theorem assumes beyond
that is in its statement.  Each rests on an inductive invariant; those named here
as `...Inv` are checked by TLC as well, in the run of their module.

**Sums.**  What the sum over a set of values is when it gains or loses an element,
when two summands differ, when one function is nowhere above another, and that
the sum over a union of disjoint sets is that of the two.  A sum is a fold, a recursive
function of the subsets of a finite set.  The induction principle for those takes
an operator as a parameter; instead, each proof takes the set of subsets for
which its fact fails and, if there is any, a smallest one (`SmallestSet`, from
the well-foundedness of the numbers), which leads to a contradiction.

**ReadWriteLock_proofs.**  `LockInvariant` under `OnlyWritersCrash`, no lock of a
living process expires and no reader dies: the counter is the number of readers
between its increment and its decrement, the group holds `global_lock` exactly
while it is positive, and the temporary value a reader holds is still that of the
counter.  Mutual exclusion does not follow from the owners of the locks alone,
since the last reader resets a lock the first one took.  `LockKeepsPromise` maps
every command to a step of `RWLockPromise` or a stutter.

**Ledger_proofs.**  `LedgerInvariant` is `LedgerInv`: the eons of handlers and task
are in order, a handler owns the wallets its program counter says, what it read
under their locks is unchanged when it writes (`ReadsAreFresh`), and no reader is
in the eon that the task snapshots (`WriterAlone`).  From it `PassiveTilingHolds`
(the position of a new transfer is the sum so far), `SnapshotStandsStill` and
`TouchedEonStaysClosed`.  It holds with the commit gap and the split reads: what
the findings break is the fence behind the commit, not the snapshot.

So do the two theorems about sums.  `NoTransferIsLost`: in each eon, what all
wallets have spent is what all have received, since a transfer is written into
both while both wallets are locked, and the row of the last outgoing transfer,
from which the next spending is computed, is still the one that was read.
`CheckpointsConserveFunds`: the allotments of a checkpoint sum to all deposits
until the end of the eon before.  The invariant behind them is `SumInv`: the same
holds of the balances that wait for their commit (`CommitAddsUp`), because each of
them is that of its wallet when the snapshot is complete, in whichever order
they were taken, and nothing can change them before it (`SnapshotStandsStill`,
from `LedgerInv`); the balances of all wallets sum to their allotments and deposits,
as what they have sent and received cancels out; and the task commits the eon after
the last commitment (`FenceEons`), so that no allotment is replaced.

The two theorems about the fence are of the ledger with its races.
`GapAccountsForEveryLeak`: the task works on the one eon that has no checkpoint
(`FenceEons`); what a handler has checked stays true until it writes, unless it
checked between release and commit, and then it is in `gap`; so the balances that
wait for their commit are those of the wallets but for what `late` records, and
behind the commit only handlers of `gap` write.  `NobodyOverspendsButByARace`
follows the funds of the open eon and the one before together: a commit moves
what a wallet has over from the one into the other and changes nothing of the two,
but for what came through the gap; rows of a locked wallet are written by its owner
only (`GuardedRows`), so the amount a handler has found covered is covered when it
writes, if it did not count the same funds twice, and then it is in `twice`; and a
transfer of the eon before, while that is possible, is covered by it alone,
because its sender has not touched the open one.

**SwapMatching_proofs.**  The arithmetic comes first: `DivMono` and `DivCross` say
what rounding down twice preserves, `TradedFits` that a trade fits both orders,
`AcceptedIsAsserted` that the checks imply the assertions when amounts are not
below the slack.  `FillInvariant` then says that what is filled, what is complete
and what a rollback restores agree at each point of a run, and that each book holds
orders of one side.  `WithinLimitsHolds`, `CompleteAgreesHolds` and
`MatchAssertionHolds` follow.

The second half, `BooksInv`, is about the order of the books.  Neither the size of a
cached book nor the absence of crossed orders is inductive: both need to know what
the books of a run list, which is `BooksListed`, each open order of one side from
before the run's last stamp exactly once, best first, behind as many entries as
were consumed; and what the run has still to take, which is `RunInStep`.  Three
facts carry it.  Comparing prices by cross-multiplication is transitive and total
(`BetterIsTransitive`, `BetterIsTotal`), so a book that an order joins by
`bisect_right` stays sorted (`JoinLists`), and what is worse than an order that does
not cross does not cross either (`WorseDoesNotCross`): the loop may stop at the
first entry that does not.  A list of a set without repetition is as long as the set
is large (`ListSize`), which is the assertion of `process_swaps.py:140`.  And of two
orders that are matched at least one is filled, with the code's rounding
(`OneIsDone`): the loop consumes the entry or ends with it, so cutting off the
consumed entries cuts off those at the head.  This is where a refusal breaks the
argument, since it goes on to the next entry without consuming the one it leaves
behind; the attempt to prove the assertion without excluding refusals is how the
entry on it in section 6 was found.  The stamp of a run may be past orders it has
not seen: `past` is where it really is, and the two differ only within a millisecond
of an order it took (`Stamped`), which is where an order that appears later may be
skipped.  A run lost as it commits leaves its orders open behind the stamp, and
`lost` holds all of them.  `SwapInvariant` is both halves, and
`BooksAgreeHolds` and `NoCrossedBookHolds` follow from it for any number of
orders and runs, whichever stamps share a millisecond.

**TxQueue_proofs.**  `TxInvariant` is `TxInv`.  The nonces of the queue are 1 to the
number of its rows because a worker that numbers holds the lock until it has
inserted, and what the accounting worker has inserted and not committed makes
the verifier wait; the chain never has used a nonce beyond them
(`ChainFollows`), so the larger of the two counts is the next one.  The
verifier queues before it sends and sends under the lock (`SenderInTurn`), so the
lock it gives back, also when a missing receipt ends its pass, is its own, and
what it publishes has no attempt on record (`AttemptsInOrder`).

**SwapLifecycle_proofs.**  `LifeInvariant` is `LifeInv`, for any number of
orders, eons and units.  Its first part, `RowsInv`, holds with stale eons: a
voided row is closed and does not count, a complete one is of a filled order, at
most one row of an order is complete, and a row that is closed and counts
without an outcome was retired.  The last is what makes `NothingComesAfterwards`
go through: a change of state voids the rows after it, and no later action opens
a voided row.  `FulfilledStaysSigned` and `CheckpointRetires` are parts of it.

The second part is about handlers that act in the eon they have read, and gives
the action properties.  `OutcomesAreFinal`: a change of state voids the rows after
it and would undo an outcome there, so no row may have one before its eon has
come (`OneOutcome`), and the handler of the latest eon must go by the row of that
eon (`PlacedInTime`); and a checkpoint voids a row that is not signed together
with those after it, so a row that counts must be signed while it is open.
`FrozenStaysUnmatched`: a checkpoint takes the flag `cancelled` off the row it
retires, so "frozen" alone is not inductive; that a freeze leaves no later
row of its order live (`FrozenStaysOut`) is, since nothing makes a row live again.

**ChainSync_proofs.**  The argument has three steps.  The position of a pass tells
both views: which blocks are stored and which confirmed is an expression of the
pass's bounds and its next block, and a fault leaves the views as a new pass
would find them; hence `ViewsHaveNoGaps` and `ConfirmedKeepsUp`.  A block
that is to be confirmed is deeper than any reorganisation reaches
(`MaxReorgDepth <= Confirmations`), so what a worker has read of it is
what the chain keeps, in whichever order the workers answer; hence
`EventsAreAppliedOnce` and `CheckpointBlockIsFinal`.  With registrations between
passes, the tokens a block was stored with are those registered when it is read
again; hence `LedgerStatesAreComplete` and, when an eon has more than one
block, `OnlyLateTokensRefuse`.  `SynchroniserImplementsView` maps each step to a
step of `ChainView`: growth and reorganisation move or keep the final prefix,
a confirmation applies its next block, everything else stutters.

**Withdrawals_proofs.**  The theorems assume nothing about when requests, eons and
slashings come.  The inductive invariant `WithdrawalsInv` has two halves.  `Always`
holds whatever comes: an eon has its checkpoint before the next begins, and the one
`slash_bad_withdrawals` has read is over by one at most, until the checkpoint
that waits for the same lock (`EonsFollow`); a checkpoint knows all requests before
it and a request is paid two eons later (`RowsFollow`); an allotment, what was spent
before it and the requests before it that are not marked as slashed sum to no more
than the balance (`NothingIsAllottedTwice`); and spending is covered by the last two
allotments as long as no eon has passed with negative funds (`SpendingIsCovered`).
From the last two `DoubleSpendingIsMarked`: what is paid without a mark and what is
spent are within the balance in every state, although the checkpoint that
notices comes later.

`InStep` holds while at most a confirmation has been missed (`Quiet`): the hub has
seen the requests of the eons before (`RequestsFollow`); what it has marked is
slashed on chain or waits for it, and only that (`FatesAreKnown`); a slashing that
waits finds what is marked, and more of it than its marker leaves
(`SlashingWillDo`); the hub lacks one confirmation at most, of the sum of the
requests that are paid and not yet withdrawn (`PaymentsAreKnown`);
`ConfirmationsAreMatched` follows.  Who has spent has signed a marker no higher than
what was left (`SpendingIsMarked`), and what is pending was covered by the last
checkpoint when it was requested (`RequestsWereCovered`); from these
`SlashingIsPossible`: a wallet whose funds are negative has signed a marker below
what it has requested.  `Quiet` is a condition on what has happened, not on
what may: each action is proved to keep `InStep` or to leave `Quiet`.
`ConfirmationsAddUp` itself asks for less, that the marks agree with the contract;
that much is model-checked.

Only model-checked is liveness, which the prover has no rules for:
`WaitingWriterIsServed`, `SomebodyEnters`, `EveryEonIsCheckpointed`,
`RequestsAreAnswered`, `EveryRequestIsQueued`, `MinedUnlessStuck`,
`EveryFinalBlockIsApplied`, `RunningViewCatchesUp` and `RequestsAreSettled`; and `ConfirmationsAddUp` outside
of `Quiet`.  Every other property of a passing run is a theorem.

`TypeOK`, `NoncesFollow`, `AccountingNeverCollides`, `PassiveTiling`,
`SnapshotConsistent`, `CompleteAgrees`, `RetiredByCheckpoint`,
`NothingLeftToCountersign`, `FulfilledIsSigned`, `EventsExactlyOnce`, `ConfirmedMatchesChain` and
`ConfirmNeverRefuses` are not listed in a run of their own: they are parts of the
inductive invariants that a run checks or a theorem proves.


## 6. Findings

Each is a run that TLC violates, described with its lines in `PROJECT.json`:

1. `ledger_commit_gap`: the writer lock is left before the checkpoint commits
   (`create_checkpoint.py:90`), against the comment above it.
2. `tx_confirmation`: the depth of a block is computed the wrong way round
   (`send_queued_transactions.py:68`).
3. `swap_deposit`: the starting balance asserted for the orders of an eon
   (`swapper/util.py:133`) is that of the eon they were placed in; once the
   checkpoint is cut, a deposit in between fails the assertion and rolls back the
   confirmation of every order of that eon, in each later run as well.  (Before
   the checkpoint the deposit is filtered out by its time and the assertion holds.)
4. `withdrawals_slashing`: requests that come while a slashing is queued leave
   requests marked as slashed that the contract pays
   (`contractor/tasks/slash_bad_withdrawals.py:126`); told below.

The models show more with other constants or properties; these are not kept as
runs:

| property | constants | what happens |
|---|---|---|
| `ReadWriteLock!MutualExclusion` | `Mortal = {r1}` | a reader that dies inside leaks the shared counter, and from then on readers enter without taking `global_lock` |
| `ReadWriteLock!MutualExclusion` | `MayExpire` with all three locks | a reader or writer that outlives the time to live of a lock is joined by the other kind |
| `Ledger!OverspentByRaceOnly` without the race of `straddled` | 1 handler, 3 eons | existence of the checkpoint and funds are read in two queries (`wallet_transfer.py:752`): the handler finds no checkpoint of eon 2 and adds what the wallet has left of eon 1, the checkpoint commits, and the allotment that holds the same money is added too.  A transfer of twice the funds is accepted, the wallet is overdrawn at the end of eon 2, and `create_checkpoint.py:169` fails for eon 3 in every beat until a deposit comes too late: the run `ledger_checkpoint` goes through this, and `EveryEonIsCheckpointed` allows it as the one exception |
| `SwapMatching!SizeAssertion` | `InStampOrder => SizeAssertion`, the 5 orders of `MCSwapMatching!CutShort` | the price checks refuse the head of a book and the entry behind it is consumed: `islice` (`process_swaps.py:202`) cuts as many entries off the head as were consumed, so the refused order, still open, goes and the filled one stays.  The next order passes over the filled entry and counts it as consumed again; the book of the order after it is one entry short, the assertion of `:140` fails and rolls back the run, and so does every later run, which starts from the same stamp |
| `SwapMatching!SizeAssertion` | any | orders become visible out of the order of their stamps (`swap.py:179`): the loop meets one its cached book has not, and the assertion on the size of the book (`process_swaps.py:140`) fails in every run from then on |
| `SwapMatching!MatchAssertion` | its guard on amounts dropped | the price checks (`limit_to_limit.py:80`) forgive up to the slack what the assertions after them (`:136`) do not; the whole run is rolled back |
| `SwapMatching!EveryMatchIsNotified` | three orders | only the opposite order looked at last is notified (`process_swaps.py:216`) |
| `SwapLifecycle!CancelledIsSigned` | `StaleEons = {FALSE}` | an order that is frozen, and cancelled after the next eon has begun, is cancelled without the operator's signature, which `swapper/tests/test_cancellation.py` asserts and a cancellation needs (`transfer.py:357-374`) |
| `SwapLifecycle!OutcomeIsFinal`, `FrozenIsNotMatched` | their condition on `stale_eon` dropped | a handler or the matcher that acts for an eon that has just passed works on another row than who acts for the new one: an order is frozen or cancelled in one and matched in the other |
| `SwapMatching!NoCrossedBook` without `skipped` | two orders of one millisecond | `process_swaps.py:70` adds a millisecond to a stamp in microseconds: the second becomes visible after the run that took the first, lies before the stamp where the next run starts, and is never taken as a younger order; it crosses and stays open |
| `SwapMatching!NoCrossedBook` without `lost` | two orders | the stamp is set inside the transaction (`process_swaps.py:218`): when the worker dies before the commit, matches are undone and the stamp is not |
| `TxQueue!MinedUnlessStuck` without `Stuck` | `"market"` or `"drop"` | no pass gets past the missing receipt (`send_queued_transactions.py:80`), the price is never raised and nothing is published again, although the worker is to "write queued transactions to the blockchain" (`README.md:105`); everything behind it waits too.  After a crash between `:40` and `:47` a published transaction has no attempt on record for good: each later pass signs it again and is refused |
| `ChainSync!LedgerStatesComplete` | `QuietRegistration = FALSE` | a token registered between the fetch of a block and its confirmation in the same pass never gets a ledger state for it |
| `ChainSync!RunningViewCatchesUp` | `Window < Confirmations`, as in the configuration of `README.md:25`, 20 confirmations for the window of 11 (`synchronize_contract_state.py:68`) | passes read the same blocks again |
| `Withdrawals!OverdrawnIsSlashable` without `Quiet` | `MaxRequests = 2`, an eon passes with negative funds | the owner, with 3, requests 1 and spends 1 before the hub has seen it (marker 2), and requests 2 in eon 2; nobody slashes before eon 3 begins.  `slash_bad_withdrawals` looks at requests of eons 2 and 3 only, which the marker covers.  The wallet is overdrawn and cannot be slashed, and no checkpoint of it can be cut |
| `Withdrawals!OnlySlashedIsPaidTwice` without its condition | `disorder` may be `{"unseen", "negative"}` | request 1 (2 of 3) of eon 1 is seen in eon 2, before its checkpoint but after the wallet has spent 2 against the funds of eon 1; the eon passes before anybody slashes, and in eon 3 the request is confirmed and paid (4 of 3).  With negative funds alone, TLC finds no violation on 3 requests |
| `Withdrawals!ConfirmationsAddUp` without `MarksAgree` | 4 requests, some during a slashing, or 3 and a slashing mined in the next eon | the contract has dropped what the hub has not marked, or keeps what it has: the requests the hub finds for the amount are others, of which `withdrawal_confirmation.py:46` says "there is something very wrong going on" |
| `Withdrawals!RequestsAreSettled` without `disorder` | any kind | `slash_bad_withdrawals.py:24` reads the eon before it waits for the lock and then slashes for one that is over; `confirm_withdrawals` looks at requests of exactly two eons ago, so an eon it missed is not confirmed later; a wallet left overdrawn has no next checkpoint |

How `withdrawals_slashing` comes to pay twice, with a balance of 3.  All of it up
to the last step is in eon 1.  The owner makes request 1 of 2 and request 2 of 1,
which the hub has not seen yet, and a transfer of 2 that leaves a marker of 1.  By
request 1 the funds are negative: the hub queues a slashing and marks request 1.
The contract finds 3 pending, more than the marker, and drops both.  The hub sees
request 2 late and goes on deducting it, and after request 3 of 1 it finds the
funds negative again: it queues a slashing for requests 2 and 3, whose sum is above
the marker, and marks them.  The contract finds request 3 alone pending, which the
marker covers, and turns the slashing down.  Nothing tells the hub: to it only
request 4 of 1 is left, the funds are zero, and there is nothing to slash.  Two eons
later the contract pays requests 3 and 4, and 2 were spent: 4 of 3.
(`"slash all withdrawals for this wallet-token pair"`, `:114`, is about the
contract's requests, `"mark all related withdrawals as slashed"`, `:125`, about the
hub's.)  No block has to be late for it.

## 7. What is left out

* *Challenges.*  Which challenges may be open together, which may lack an allotment
  and what a second answer does is decided by the contract, which is not in the
  repository.  Unlike for withdrawals, the hub's calls do not show its rules.
* *Admission.*  One task in one transaction under a global lock: its steps
  are invisible from outside, and what can go wrong in it is sequential.
* *Passive transfers.*  A transfer is complete in the transaction that creates it
  (`transactor/serializers/transfer.py:228`), so that `process_passive_transfers`
  finds none; `process_passive_transfer_finalizations` raises `NotImplemented`.
* *Merkle trees.*  Over abstract hashes a root determines its leaves by
  construction; a model would show nothing about this code.  `Ledger` represents a
  root by the balances it commits to.
* *Synchronizer.*  Notifications about what is committed already.  That all
  connections share one set of subscriptions (`async_websocket_consumer.py:11`) is
  listed as a hazard; no document says what a connection may expect.
* *Leveller, Terms of Service, Analytics, Auditor, health checks, registration.*
  One insertion, or reads only.
* *Inside modelled components*: signatures, hashes, serialisation, e-mails;
  Decimal rounding at 28 digits in the products of the matcher (amounts are exact
  integers here); the expiry of wallet locks during slow requests (with it nothing
  `Ledger` says would hold, as for the locks in section 6); minimum balance markers
  and orders in the balances of `Ledger` (they are in `Withdrawals` and
  `SwapLifecycle`, each for one wallet).
* *Static files.*  All JavaScript of the repository is third-party code under
  `static/` (Django admin, Django REST framework, drf-yasg, silk) that the hub
  serves and does not depend on.  The program is Python, and the modules map to
  Python sources only: a count of JavaScript lines covered says nothing about it.

Components are marked `modelled`, `partly` or `not_modelled` in `PROJECT.json`,
each with what its module leaves out.
