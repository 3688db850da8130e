------------------------------- MODULE TxQueue -------------------------------
(***************************************************************************)
(* The queue of the operator's Ethereum transactions: checkpoints and      *)
(* slashings queued by the accounting worker, confirmations of withdrawals *)
(* queued by the verifier worker (queue_transaction_by_owner), and the     *)
(* task of the verifier that publishes what is queued and looks for the    *)
(* receipts (send_queued_transactions).                                    *)
(*                                                                         *)
(* The accounting worker queues inside the transaction of the task that    *)
(* asks for it (create_checkpoint.py:90, slash_bad_withdrawals.py:41): its *)
(* row is seen by others when that commits.  The verifier commits every    *)
(* statement at once.  Both number their rows under the global lock of     *)
(* EthereumTransaction, and nonces are unique in the table.                *)
(*                                                                         *)
(* The client library raises an exception for a transaction without a      *)
(* receipt (getTransactionReceipt of web3 >= 5.0, requirements-serv.txt:   *)
(* 17), and nothing in the task catches it: the pass over the queue ends   *)
(* there, the lock is left and the next heartbeat begins anew.  So the     *)
(* code behind a missing receipt (send_queued_transactions.py:75-78 and    *)
(* :87-111) is never reached: no mark of a mined attempt is taken back, no *)
(* gas price is raised, and a transaction has one attempt at most.         *)
(*                                                                         *)
(* Blocks are not numbered: `lag` is how far the hub's view is behind the  *)
(* head of the chain, `chain` how far the block of each transaction is     *)
(* below the head, up to where no comparison tells it any more.            *)
(*                                                                         *)
(* AskAgain, NumberUnlocked, InsertKeepsLock and StopAtRefusal are faulty  *)
(* variants of the definitions they precede.                               *)
(***************************************************************************)
EXTENDS Integers, Sequences, FiniteSets, Functions

CONSTANTS
  Accounting, Verifier,   \* the two workers
  Free,                   \* the value of a lock nobody holds
  AccountingTags,         \* what the accounting worker asks for, by its tag
  VerifierTags,           \* what the verifier asks for, by its tag
  Confirmations,          \* HUB_LQD_CONTRACT_CONFIRMATIONS
  MaxLag,                 \* bound: the blocks the hub is behind
  Mishaps,                \* bound: what may happen once, of AllMishaps
  MaxMishaps              \* bound: how many of them happen in a behaviour

(* The nodes forget a transaction, miners want a higher price than it pays,*)
(* a transaction leaves the chain again, a worker dies.                    *)
AllMishaps == {"drop", "market", "reorg", "crash"}

Workers == {Accounting, Verifier}
Tags == AccountingTags \cup VerifierTags
TagsOf(w) == IF w = Accounting THEN AccountingTags ELSE VerifierTags

(* The chain begins with the deployment of the contract, nonce 0.          *)
Nonces == 1 .. Cardinality(Tags)
Deep == IF Confirmations > MaxLag THEN Confirmations ELSE MaxLag

ASSUME TxQueueAssumption ==
  /\ Accounting # Verifier
  /\ Free \notin Workers
  /\ IsFiniteSet(Tags)
  /\ AccountingTags \cap VerifierTags = {}
  /\ {Confirmations, MaxLag, MaxMishaps} \subseteq Nat
  /\ Mishaps \subseteq AllMishaps

VARIABLES
  chain,      \* the owner's mined transactions: the depth of nonce n is
              \* chain[n + 1]
  mempool,    \* the nonces of the transactions the nodes hold
  underpaid,  \* those of the transactions that pay too little for miners
  lag,        \* blocks between LocalViewInterface.latest_block() and the head
  due,        \* the tags that have been asked for
  queued,     \* the committed EthereumTransaction rows: nonce to tag
  attempts,   \* [n]: the EthereumTransactionAttempt row, by what it is marked
  tx_lock,    \* EthereumTransaction.global_lock()
  worker,     \* [w]: its progress in queue_transaction_by_owner
  sender,     \* the verifier's progress in its heartbeat
  mishaps     \* the mishaps there were, for the bounds

ethereum == << chain, mempool, underpaid, lag >>
table == << queued, attempts >>
vars == << ethereum, due, table, tx_lock, worker, sender, mishaps >>

Ready == [at |-> "ready", tag |-> Free, remote |-> 0, nonce |-> 0]
NewBeat == [at |-> "sync", todo |-> {}]

Init ==
  /\ chain = << Deep >>
  /\ mempool = {}
  /\ underpaid = {}
  /\ lag = 0
  /\ due = {}
  /\ queued = << >>
  /\ attempts = [n \in Nonces |-> "none"]
  /\ tx_lock = Free
  /\ worker = [w \in Workers |-> Ready]
  /\ sender = NewBeat
  /\ mishaps = {}

-----------------------------------------------------------------------------
Mishap(kind) ==
  /\ kind \in Mishaps \ mishaps
  /\ Cardinality(mishaps) < MaxMishaps
  /\ mishaps' = mishaps \cup {kind}

-----------------------------------------------------------------------------
(* The Ethereum network.                                                   *)

AtMost(n, bound) == IF n < bound THEN n ELSE bound
Buried == [i \in DOMAIN chain |-> AtMost(chain[i] + 1, Deep)]

NextBlock == lag < MaxLag /\ lag' = lag + 1

NewBlock ==
  /\ NextBlock
  /\ chain' = Buried
  /\ UNCHANGED << mempool, underpaid, due, table, tx_lock, worker, sender,
                  mishaps >>

(* A block contains the owner's next transaction if it pays enough.        *)
MineTransaction ==
  LET n == Len(chain) IN
  /\ NextBlock
  /\ n \in mempool \ underpaid
  /\ chain' = Append(Buried, 0)
  /\ mempool' = mempool \ {n}
  /\ UNCHANGED << underpaid, due, table, tx_lock, worker, sender, mishaps >>

(* The nodes forget a transaction.                                         *)
Forget ==
  \E n \in mempool :
    /\ Mishap("drop")
    /\ mempool' = mempool \ {n}
    /\ UNCHANGED << chain, underpaid, lag, due, table, tx_lock, worker, sender >>

(* The market moves on: miners do not take a transaction at its price.     *)
Outbid ==
  \E n \in mempool :
    /\ Mishap("market")
    /\ underpaid' = underpaid \cup {n}
    /\ UNCHANGED << chain, mempool, lag, due, table, tx_lock, worker, sender >>

(* Another branch wins, without the block of the last transaction.         *)
Reorganise ==
  LET last == Len(chain) IN
  /\ chain[last] < Confirmations
  /\ Mishap("reorg")
  /\ chain' = SubSeq(chain, 1, last - 1)
  /\ mempool' = mempool \cup {last - 1}
  /\ UNCHANGED << underpaid, lag, due, table, tx_lock, worker, sender >>

HasReceipt(n) == n < Len(chain)

(* A node takes a raw transaction unless its nonce is used or it holds one *)
(* of the same nonce that pays as much ("already known", "underpriced").   *)
NodeAccepts(n) == ~HasReceipt(n) /\ n \notin mempool

-----------------------------------------------------------------------------
(* queue_transaction_by_owner, called for a tag that is due.               *)

Request(t) ==
  /\ t \notin due
  /\ due' = due \cup {t}
  /\ UNCHANGED << ethereum, table, tx_lock, worker, sender, mishaps >>

(* A faulty variant: the tasks do not look for the tag.                    *)
AskAgain(w) == due \cap TagsOf(w)

(* `if EthereumTransaction.objects.filter(tag=tag).exists()` skips a tag.  *)
ToQueue(w) == (due \cap TagsOf(w)) \ Range(queued)

(* Tasks of a worker run one after the other: the verifier's queue before  *)
(* it sends.  The count of mined transactions is read before the lock.     *)
ReadRemoteNonce(w) ==
  \E t \in ToQueue(w) :
    /\ worker[w].at = "ready"
    /\ w = Verifier => sender.at = "queue"
    /\ worker' = [worker EXCEPT ![w] = [Ready EXCEPT !.at = "remote", !.tag = t,
                                          !.remote = Len(chain)]]
    /\ UNCHANGED << ethereum, due, table, tx_lock, sender, mishaps >>

Latest(S) == CHOOSE n \in S : \A m \in S : m <= n
LocalNonce == IF DOMAIN queued = {} THEN 0 ELSE Latest(DOMAIN queued) + 1

NextNonce(remote) == IF remote > LocalNonce THEN remote ELSE LocalNonce

(* A faulty variant: the number is taken without the lock.                 *)
NumberUnlocked(w) ==
  /\ worker[w].at = "remote"
  /\ worker' = [worker EXCEPT ![w].at = "insert",
                              ![w].nonce = NextNonce(worker[w].remote)]
  /\ UNCHANGED << ethereum, due, table, tx_lock, sender, mishaps >>

AcquireAndNumber(w) ==
  /\ worker[w].at = "remote"
  /\ tx_lock = Free
  /\ tx_lock' = w
  /\ worker' = [worker EXCEPT ![w].at = "insert",
                              ![w].nonce = NextNonce(worker[w].remote)]
  /\ UNCHANGED << ethereum, due, table, sender, mishaps >>

(* The insertion waits for a transaction that has inserted the same nonce. *)
InsertDecided(w) ==
  /\ worker[w].at = "insert"
  /\ \A v \in Workers :
       worker[v].at = "commit" => worker[v].nonce # worker[w].nonce

WithRow(w) ==
  [n \in DOMAIN queued \cup {worker[w].nonce} |->
     IF n = worker[w].nonce THEN worker[w].tag ELSE queued[n]]

(* A faulty variant: the lock is kept.                                     *)
InsertKeepsLock(w) ==
  /\ InsertDecided(w)
  /\ worker[w].nonce \notin DOMAIN queued
  /\ queued' = WithRow(w)
  /\ worker' = [worker EXCEPT ![w] = Ready]
  /\ UNCHANGED << ethereum, due, attempts, tx_lock, sender, mishaps >>

(* The lock is left; the row is there for all to see if the worker commits *)
(* by the statement.                                                       *)
Insert(w) ==
  /\ InsertDecided(w)
  /\ worker[w].nonce \notin DOMAIN queued
  /\ tx_lock' = Free
  /\ IF w = Verifier
       THEN /\ queued' = WithRow(w)
            /\ worker' = [worker EXCEPT ![w] = Ready]
       ELSE /\ worker' = [worker EXCEPT ![w].at = "commit"]
            /\ UNCHANGED queued
  /\ UNCHANGED << ethereum, due, attempts, sender, mishaps >>

(* The nonce is taken: the task fails, notification_on_error swallows the  *)
(* exception and the heartbeat goes on.                                    *)
InsertFails(w) ==
  /\ InsertDecided(w)
  /\ worker[w].nonce \in DOMAIN queued
  /\ tx_lock' = Free
  /\ worker' = [worker EXCEPT ![w] = Ready]
  /\ sender' = IF w = Verifier THEN [sender EXCEPT !.at = "send"] ELSE sender
  /\ UNCHANGED << ethereum, due, table, mishaps >>

Commit ==
  /\ worker[Accounting].at = "commit"
  /\ queued' = WithRow(Accounting)
  /\ worker' = [worker EXCEPT ![Accounting] = Ready]
  /\ UNCHANGED << ethereum, due, attempts, tx_lock, sender, mishaps >>

-----------------------------------------------------------------------------
(* heartbeat_verifier: synchronize_contract_state, then the tasks that     *)
(* queue, then send_queued_transactions.                                   *)

(* Fetching blocks stops where it times out, at the first one maybe.       *)
Synchronise ==
  /\ sender.at = "sync"
  /\ lag' \in 0 .. lag
  /\ sender' = [sender EXCEPT !.at = "queue"]
  /\ UNCHANGED << chain, mempool, underpaid, due, table, tx_lock, worker,
                  mishaps >>

FinishQueueing ==
  /\ sender.at = "queue"
  /\ worker[Verifier].at = "ready"
  /\ ToQueue(Verifier) = {}
  /\ sender' = [sender EXCEPT !.at = "send"]
  /\ UNCHANGED << ethereum, due, table, tx_lock, worker, mishaps >>

StartSending ==
  /\ sender.at = "send"
  /\ tx_lock = Free
  /\ tx_lock' = Verifier
  /\ sender' = [sender EXCEPT !.at = "sending", !.todo = DOMAIN queued]
  /\ UNCHANGED << ethereum, due, table, worker, mishaps >>

(* The transactions are taken in the order of their nonces.                *)
Current(n) == n \in sender.todo /\ \A m \in sender.todo : n <= m
Taken(n) == sender.at = "sending" /\ Current(n)
NextTransaction(n) == sender' = [sender EXCEPT !.todo = @ \ {n}]

SkipConfirmed(n) ==
  /\ Taken(n)
  /\ attempts[n] = "confirmed"
  /\ NextTransaction(n)
  /\ UNCHANGED << ethereum, due, table, tx_lock, worker, mishaps >>

(* There is no attempt yet: one is signed for the initial gas price.       *)
SignAttempt(n) ==
  /\ Taken(n)
  /\ attempts[n] = "none"
  /\ sender' = [sender EXCEPT !.at = "publish"]
  /\ UNCHANGED << ethereum, due, table, tx_lock, worker, mishaps >>

PublishAttempt(n) ==
  /\ sender.at = "publish"
  /\ Current(n)
  /\ NodeAccepts(n)
  /\ mempool' = mempool \cup {n}
  /\ sender' = [sender EXCEPT !.at = "record"]
  /\ UNCHANGED << chain, underpaid, lag, due, table, tx_lock, worker, mishaps >>

Refused(n) == sender.at = "publish" /\ Current(n) /\ ~NodeAccepts(n)

(* A faulty variant: the pass ends where a node refuses a transaction.     *)
StopAtRefusal(n) ==
  /\ Refused(n)
  /\ tx_lock' = Free
  /\ sender' = NewBeat
  /\ UNCHANGED << ethereum, due, table, worker, mishaps >>

(* ValueError: an e-mail is sent and the loop goes on.                     *)
PublishFails(n) ==
  /\ Refused(n)
  /\ sender' = [sender EXCEPT !.at = "sending", !.todo = @ \ {n}]
  /\ UNCHANGED << ethereum, due, table, tx_lock, worker, mishaps >>

Save(n, mark) == attempts' = [attempts EXCEPT ![n] = mark]

(* The attempt is on record; its receipt is looked for at once.            *)
RecordAttempt(n) ==
  /\ sender.at = "record"
  /\ Current(n)
  /\ Save(n, "sent")
  /\ sender' = [sender EXCEPT !.at = "sending"]
  /\ UNCHANGED << ethereum, due, queued, tx_lock, worker, mishaps >>

(* The mined attempt still has its receipt: is it confirmed?               *)
CheckMined(n) ==
  /\ Taken(n)
  /\ attempts[n] = "mined"
  /\ HasReceipt(n)
  /\ Save(n, IF lag - chain[n + 1] > Confirmations THEN "confirmed" ELSE "mined")
  /\ NextTransaction(n)
  /\ UNCHANGED << ethereum, due, queued, tx_lock, worker, mishaps >>

MarkMined(n) ==
  /\ Taken(n)
  /\ attempts[n] = "sent"
  /\ HasReceipt(n)
  /\ Save(n, "mined")
  /\ NextTransaction(n)
  /\ UNCHANGED << ethereum, due, queued, tx_lock, worker, mishaps >>

(* TransactionNotFound: the task ends, and with it the pass over the queue;*)
(* notification_on_error swallows the exception.                           *)
NoReceipt(n) ==
  /\ Taken(n)
  /\ attempts[n] \in {"sent", "mined"}
  /\ ~HasReceipt(n)
  /\ tx_lock' = Free
  /\ sender' = NewBeat
  /\ UNCHANGED << ethereum, due, table, worker, mishaps >>

FinishSending ==
  /\ sender.at = "sending"
  /\ sender.todo = {}
  /\ tx_lock' = Free
  /\ sender' = NewBeat
  /\ UNCHANGED << ethereum, due, table, worker, mishaps >>

-----------------------------------------------------------------------------
(* A worker dies and is started again.  Its database transaction is rolled *)
(* back, and its lock, no longer renewed, expires.                         *)
Crash(w) ==
  /\ Mishap("crash")
  /\ worker' = [worker EXCEPT ![w] = Ready]
  /\ tx_lock' = IF tx_lock = w THEN Free ELSE tx_lock
  /\ sender' = IF w = Verifier THEN NewBeat ELSE sender
  /\ UNCHANGED << ethereum, due, table >>

QueueStep(w) ==
  ReadRemoteNonce(w) \/ AcquireAndNumber(w) \/ Insert(w) \/ InsertFails(w)

SendTransaction(n) ==
  \/ SkipConfirmed(n) \/ CheckMined(n) \/ MarkMined(n) \/ NoReceipt(n)
  \/ SignAttempt(n) \/ PublishAttempt(n) \/ PublishFails(n)
  \/ RecordAttempt(n)

VerifierStep ==
  \/ QueueStep(Verifier)
  \/ Synchronise \/ FinishQueueing \/ StartSending \/ FinishSending
  \/ \E n \in Nonces : SendTransaction(n)

AccountingStep == QueueStep(Accounting) \/ Commit

Next ==
  \/ NewBlock \/ MineTransaction \/ Forget \/ Outbid \/ Reorganise
  \/ \E t \in Tags : Request(t)
  \/ VerifierStep \/ AccountingStep
  \/ \E w \in Workers : Crash(w)

Spec == Init /\ [][Next]_vars

(* The workers run their heartbeats; between two of the verifier's the lock*)
(* is free for seconds, so the accounting worker gets it; not every fetch  *)
(* of blocks times out; blocks keep coming and one of them takes a         *)
(* transaction that pays enough.                                           *)
FairSpec ==
  /\ Spec
  /\ WF_vars(VerifierStep)
  /\ SF_vars(Synchronise /\ lag' < lag)
  /\ SF_vars(AccountingStep)
  /\ WF_vars(NewBlock)
  /\ SF_vars(MineTransaction)

-----------------------------------------------------------------------------
(* Properties.                                                             *)

EthereumTypeOK ==
  /\ chain \in Seq(0 .. Deep)
  /\ mempool \subseteq Nonces /\ underpaid \subseteq Nonces
  /\ lag \in 0 .. MaxLag

TableTypeOK ==
  /\ due \subseteq Tags
  /\ queued \in [DOMAIN queued -> due] /\ DOMAIN queued \subseteq Nonces
  /\ attempts \in [Nonces -> {"none", "sent", "mined", "confirmed"}]

WorkersTypeOK ==
  /\ tx_lock \in Workers \cup {Free}
  /\ worker \in [Workers -> [at : {"ready", "remote", "insert", "commit"},
                             tag : Tags \cup {Free}, remote : Nat, nonce : Nat]]
  /\ sender \in [at : {"sync", "queue", "send", "sending", "publish",
                       "record"},
                 todo : SUBSET Nonces]

TypeOK ==
  /\ EthereumTypeOK /\ TableTypeOK /\ WorkersTypeOK
  /\ mishaps \subseteq Mishaps

(* The nonces of the queue follow those the chain has used, without a gap  *)
(* that would hold up all transactions behind it, whichever worker commits *)
(* first, is rolled back or reads an old count of the chain.               *)
NoncesFollow == DOMAIN queued = 1 .. Cardinality(DOMAIN queued)

(* What a task asks for is queued once, however often the task runs, fails *)
(* or dies (the tags of confirm_withdrawals.py:34, slash_bad_withdrawals.py*)
(* :64).                                                                   *)
EachTagIsQueuedOnce ==
  \A m, n \in DOMAIN queued : queued[m] = queued[n] => m = n

(* The insertion that belongs to a checkpoint or a slashing never finds    *)
(* its nonce taken: that would roll back all the task has done.            *)
AccountingNeverCollides ==
  worker[Accounting].at \in {"insert", "commit"} =>
    worker[Accounting].nonce \notin DOMAIN queued

(* An attempt on record as confirmed has its block at least as deep in the *)
(* chain as HUB_LQD_CONTRACT_CONFIRMATIONS asks for.                       *)
ConfirmedIsDeep ==
  \A n \in Nonces :
    attempts[n] = "confirmed" => HasReceipt(n) /\ chain[n + 1] >= Confirmations

(* What a task asks for is queued in the end, though workers queue at the  *)
(* same time, insertions fail and workers die.                             *)
EveryRequestIsQueued == \A t \in Tags : t \in due ~> t \in Range(queued)

(* A transaction that no block takes any more: miners want a higher price, *)
(* or the nodes have forgotten it when its attempt was on record already.  *)
Stuck(n) ==
  /\ ~HasReceipt(n)
  /\ n \in underpaid \/ (attempts[n] # "none" /\ n \notin mempool)

(* What is queued gets into the chain and stays there ("write queued       *)
(* transactions to the blockchain", README.md:105), unless it gets stuck,  *)
(* or one queued before it does: also if the worker dies between           *)
(* publishing and recording (the attempt is then published again, and      *)
(* refused), if a block is undone, and although every pass ends at the     *)
(* first transaction without a receipt.                                    *)
MinedUnlessStuck ==
  \A n \in Nonces :
    n \in DOMAIN queued ~> ([]HasReceipt(n) \/ \E m \in 1 .. n : Stuck(m))

-----------------------------------------------------------------------------
(* The inductive invariant behind TypeOK, NoncesFollow,                    *)
(* EachTagIsQueuedOnce and AccountingNeverCollides.                        *)

Count == Cardinality(DOMAIN queued)

(* The chain has used no nonce but those of the queue, and the deployment, *)
(* too deep to be undone.                                                  *)
ChainFollows ==
  /\ Count \in Nat
  /\ Len(chain) \in 1 .. Count + 1
  /\ chain[1] = Deep
  /\ mempool \subseteq DOMAIN queued
  /\ sender.todo \subseteq DOMAIN queued

(* A worker that numbers a row holds the lock until it has inserted it, so *)
(* its number is the next one until somebody else's row appears.           *)
InTurn(w) ==
  /\ worker[w].at = "insert" => tx_lock = w
  /\ worker[w].at # "ready" =>
       /\ worker[w].tag \in (due \cap TagsOf(w)) \ Range(queued)
       /\ worker[w].remote \in 1 .. Count + 1
  /\ worker[w].at \in {"insert", "commit"} => worker[w].nonce \in 1 .. Count + 1

WorkersInTurn ==
  worker[Verifier].at # "commit" /\ \A w \in Workers : InTurn(w)

(* The verifier queues before it sends, and sends under the lock.          *)
SenderInTurn ==
  /\ worker[Verifier].at # "ready" => sender.at = "queue"
  /\ sender.at \in {"sending", "publish", "record"} => tx_lock = Verifier

(* Only what is queued was ever sent, and what is about to be sent has no  *)
(* attempt on record.                                                      *)
AttemptsInOrder ==
  \A n \in Nonces :
    /\ attempts[n] # "none" => n \in DOMAIN queued
    /\ sender.at \in {"publish", "record"} /\ Current(n) => attempts[n] = "none"

TxInv ==
  /\ TypeOK
  /\ NoncesFollow
  /\ EachTagIsQueuedOnce
  /\ AccountingNeverCollides
  /\ ChainFollows
  /\ WorkersInTurn
  /\ SenderInTurn
  /\ AttemptsInOrder
=============================================================================
