---------------------------- MODULE TxQueue_proofs ----------------------------
(***************************************************************************)
(* Proofs about TxQueue, for any tags, confirmations and bounds.  TxInv is *)
(* inductive: a lemma for each action says that the action keeps it        *)
(* (ActionKeeps), and Together puts its parts together.                    *)
(***************************************************************************)
EXTENDS TxQueue, SequenceTheorems, FiniteSetTheorems, TLAPS

(* The states of a worker that queues and of the sender, with several      *)
(* fields changed at once.                                                 *)
QueueState == [at : {"ready", "remote", "insert", "commit"},
               tag : Tags \cup {Free}, remote : Nat, nonce : Nat]
SendState == [at : {"sync", "queue", "send", "sending", "publish", "record"},
              todo : SUBSET Nonces]

LEMMA WorkerNumbers ==
  ASSUME NEW state \in QueueState, NEW number \in Nat
  PROVE  /\ [state EXCEPT !.at = "insert", !.nonce = number] \in QueueState
         /\ [state EXCEPT !.at = "insert", !.nonce = number].at = "insert"
         /\ [state EXCEPT !.at = "insert", !.nonce = number].tag = state.tag
         /\ [state EXCEPT !.at = "insert", !.nonce = number].remote = state.remote
         /\ [state EXCEPT !.at = "insert", !.nonce = number].nonce = number
  BY DEF QueueState

LEMMA SenderLeaves ==
  ASSUME NEW state \in SendState, NEW n
  PROVE  /\ [state EXCEPT !.at = "sending", !.todo = @ \ {n}] \in SendState
         /\ [state EXCEPT !.at = "sending", !.todo = @ \ {n}].at = "sending"
         /\ [state EXCEPT !.at = "sending", !.todo = @ \ {n}].todo
              \subseteq state.todo
  BY DEF SendState

LEMMA FunctionIsSeq ==
  ASSUME NEW S, NEW n \in Nat, NEW s \in [1 .. n -> S]
  PROVE  s \in Seq(S) /\ Len(s) = n
  OBVIOUS

LEMMA Bounds ==
  /\ Deep \in Nat /\ Confirmations <= Deep
  /\ Nonces \subseteq Nat /\ Cardinality(Tags) \in Nat
  /\ Nonces = 1 .. Cardinality(Tags)
  BY TxQueueAssumption, FS_CardinalityType DEF Deep, Nonces

LEMMA InitInv == Init => TxInv
<1> SUFFICES ASSUME Init PROVE TxInv
  OBVIOUS
<1> USE Bounds, TxQueueAssumption DEF Init
<1>1. chain \in Seq(0 .. Deep) /\ Len(chain) = 1
  OBVIOUS
<1>2. DOMAIN queued = {} /\ queued \in [DOMAIN queued -> due]
  <2>1. << >> \in Seq(due) /\ Len(<< >>) = 0
    BY EmptySeq
  <2>2. DOMAIN << >> = 1 .. 0
    BY <2>1, LenProperties
  <2>3. << >> \in [1 .. 0 -> due]
    BY <2>1, LenProperties
  <2> QED BY <2>2, <2>3, SMT
<1>3. TypeOK
  <2>1. EthereumTypeOK
    BY <1>1 DEF EthereumTypeOK
  <2>2. TableTypeOK
    BY <1>2 DEF TableTypeOK
  <2>3. WorkersTypeOK
    BY DEF WorkersTypeOK, Ready, NewBeat, Workers
  <2> QED BY <2>1, <2>2, <2>3 DEF TypeOK
<1>4. Count = 0
  BY <1>2, FS_EmptySet DEF Count
<1>5. NoncesFollow /\ EachTagIsQueuedOnce
  BY <1>2, <1>4 DEF NoncesFollow, EachTagIsQueuedOnce, Count
<1>6. AccountingNeverCollides
  BY DEF AccountingNeverCollides, Workers, Ready
<1>7. ChainFollows
  BY <1>1, <1>4 DEF ChainFollows, NewBeat
<1>8. WorkersInTurn
  BY DEF WorkersInTurn, InTurn, Workers, Ready
<1>9. SenderInTurn
  BY DEF SenderInTurn, Workers, Ready, NewBeat
<1>10. AttemptsInOrder
  BY DEF AttemptsInOrder, NewBeat
<1> QED BY <1>3, <1>5, <1>6, <1>7, <1>8, <1>9, <1>10 DEF TxInv
-----------------------------------------------------------------------------
(* The queue.                                                              *)

(* Its nonces are those up to the number of its rows.                      *)
LEMMA QueueFacts ==
  ASSUME TypeOK, NoncesFollow, ChainFollows
  PROVE  Count \in Nat /\ DOMAIN queued = 1 .. Count
  BY DEF NoncesFollow, ChainFollows, Count

(* The number a worker takes under the lock is the first one free.         *)
LEMMA NumberIsNext ==
  ASSUME TypeOK, NoncesFollow, ChainFollows, NEW remote \in 1 .. Count + 1
  PROVE  NextNonce(remote) = Count + 1
<1>1. Count \in Nat /\ DOMAIN queued = 1 .. Count
  BY QueueFacts
<1>2. CASE Count = 0
  BY <1>1, <1>2 DEF NextNonce, LocalNonce
<1>3. CASE Count # 0
  <2>1. Latest(DOMAIN queued) = Count
    <3>1. Count \in 1 .. Count /\ \A m \in 1 .. Count : m <= Count
      BY <1>1, <1>3
    <3>2. \A n \in 1 .. Count : (\A m \in 1 .. Count : m <= n) => n = Count
      BY <1>1, <3>1
    <3> QED BY <1>1, <3>1, <3>2 DEF Latest
  <2> QED BY <1>1, <1>3, <2>1 DEF NextNonce, LocalNonce
<1> QED BY <1>2, <1>3

(* A row with a new nonce and a new tag extends the queue by one.          *)
LEMMA RowInserted ==
  ASSUME TxInv, NEW w \in Workers, worker[w].at \in {"insert", "commit"},
         worker[w].nonce \notin DOMAIN queued, queued' = WithRow(w), due' = due
  PROVE  /\ worker[w].nonce = Count + 1
         /\ Count' = Count + 1
         /\ DOMAIN queued' = 1 .. Count + 1
         /\ Range(queued') = Range(queued) \cup {worker[w].tag}
         /\ queued' \in [DOMAIN queued' -> due'] /\ DOMAIN queued' \subseteq Nonces
         /\ NoncesFollow' /\ EachTagIsQueuedOnce'
<1> DEFINE t == worker[w].tag
           c == Count + 1
<1>1. Count \in Nat /\ DOMAIN queued = 1 .. Count
  BY QueueFacts DEF TxInv
<1>2. worker[w].nonce = c
  BY <1>1 DEF TxInv, WorkersInTurn, InTurn
<1>3. t \in due /\ t \notin Range(queued)
  BY DEF TxInv, WorkersInTurn, InTurn
<1>4. DOMAIN queued' = 1 .. c
  BY <1>1, <1>2 DEF WithRow
<1>5. /\ queued'[c] = t
      /\ \A n \in 1 .. Count : queued'[n] = queued[n] /\ n \in 1 .. c
  BY <1>1, <1>2 DEF WithRow
<1>6. Count' = c
  BY <1>1, <1>4, FS_Interval DEF Count
<1>7. queued' \in [1 .. c -> due]
  <2>1. \A n \in 1 .. Count : queued[n] \in due
    BY <1>1 DEF TxInv, TypeOK, TableTypeOK
  <2>2. \A n \in 1 .. c : queued'[n] \in due
    BY <1>1, <1>3, <1>5, <2>1
  <2> QED BY <1>4, <2>2, <1>1, <1>2 DEF WithRow
<1>8. \A m, n \in 1 .. c : queued'[m] = queued'[n] => m = n
  <2>1. \A n \in 1 .. Count : queued[n] # t
    BY <1>1, <1>3 DEF Range
  <2>2. \A m, n \in 1 .. Count : queued[m] = queued[n] => m = n
    BY <1>1 DEF TxInv, EachTagIsQueuedOnce
  <2>3. \A n \in 1 .. c : n = c \/ n \in 1 .. Count
    BY <1>1
  <2> QED BY <1>5, <2>1, <2>2, <2>3
<1>9. Range(queued') = Range(queued) \cup {t}
  <2>1. \A n \in 1 .. c : n = c \/ n \in 1 .. Count
    BY <1>1
  <2>2. c \in 1 .. c
    BY <1>1
  <2> QED BY <1>1, <1>4, <1>5, <2>1, <2>2 DEF Range
<1>10. c <= Cardinality(Tags)
  <2>1. queued' \in Injection(1 .. c, Tags)
    BY <1>7, <1>8 DEF Injection, IsInjective, TxInv, TypeOK, TableTypeOK
  <2>2. Cardinality(1 .. c) <= Cardinality(Tags)
    BY <2>1, FS_Injection, TxQueueAssumption
  <2> QED BY <2>2, <1>1, FS_Interval
<1>11. 1 .. c \subseteq Nonces
  BY <1>1, <1>10, Bounds
<1> QED
  BY <1>1, <1>2, <1>4, <1>6, <1>7, <1>8, <1>9, <1>11
  DEF NoncesFollow, EachTagIsQueuedOnce, Count
-----------------------------------------------------------------------------
LEMMA States ==
  ASSUME TxInv
  PROVE  worker \in [Workers -> QueueState] /\ sender \in SendState
  BY DEF TxInv, TypeOK, WorkersTypeOK, QueueState, SendState

(* What a step leaves alone keeps the parts of the invariant about it.     *)

LEMMA SameTypes ==
  ASSUME TxInv
  PROVE  /\ UNCHANGED << chain, mempool, underpaid, lag >> => EthereumTypeOK'
         /\ UNCHANGED << due, queued, attempts >> => TableTypeOK'
         /\ UNCHANGED << tx_lock, worker, sender >> => WorkersTypeOK'
  BY DEF TxInv, TypeOK, EthereumTypeOK, TableTypeOK, WorkersTypeOK

LEMMA SameQueue ==
  ASSUME TxInv, queued' = queued
  PROVE  NoncesFollow' /\ EachTagIsQueuedOnce' /\ Count' = Count
  BY DEF TxInv, NoncesFollow, EachTagIsQueuedOnce, Count

LEMMA SameChain ==
  ASSUME TxInv, UNCHANGED << chain, mempool, sender, queued >>
  PROVE  ChainFollows'
  BY DEF TxInv, ChainFollows, Count

LEMMA SameWorkers ==
  ASSUME TxInv, UNCHANGED << due, queued, tx_lock, worker >>
  PROVE  AccountingNeverCollides' /\ WorkersInTurn'
  BY DEF TxInv, AccountingNeverCollides, WorkersInTurn, InTurn, Count, TagsOf

LEMMA SameAttempts ==
  ASSUME TxInv, UNCHANGED << queued, attempts, sender >>
  PROVE  AttemptsInOrder'
  BY DEF TxInv, AttemptsInOrder, Current

LEMMA SameSender ==
  ASSUME TxInv, UNCHANGED << tx_lock, worker, sender >>
  PROVE  SenderInTurn'
  BY DEF TxInv, SenderInTurn

(* The parts together.                                                     *)
LEMMA Together ==
  ASSUME TxInv, [Next]_vars, EthereumTypeOK', TableTypeOK', WorkersTypeOK',
         NoncesFollow', EachTagIsQueuedOnce', AccountingNeverCollides',
         ChainFollows', WorkersInTurn', SenderInTurn', AttemptsInOrder'
  PROVE  TxInv'
<1>1. mishaps' \subseteq Mishaps
  <2> USE DEF TxInv, TypeOK, Mishap
  <2>1. CASE mishaps' = mishaps
    BY <2>1
  <2>2. CASE Forget \/ Outbid
    BY <2>2 DEF Forget, Outbid
  <2>3. CASE Reorganise
    BY <2>3 DEF Reorganise
  <2>4. ASSUME NEW w \in Workers, Crash(w)
        PROVE  mishaps' \subseteq Mishaps
    BY <2>4 DEF Crash
  <2>5. mishaps' = mishaps \/ Forget \/ Outbid \/ Reorganise
        \/ \E w \in Workers : Crash(w)
    <3>1. CASE NewBlock \/ MineTransaction \/ \E t \in Tags : Request(t)
      BY <3>1 DEF NewBlock, MineTransaction, Request
    <3>2. CASE \E w \in Workers : QueueStep(w)
      BY <3>2 DEF QueueStep, ReadRemoteNonce, AcquireAndNumber, Insert, InsertFails
    <3>3. CASE Commit \/ Synchronise \/ FinishQueueing \/ StartSending
               \/ FinishSending
      BY <3>3 DEF Commit, Synchronise, FinishQueueing, StartSending, FinishSending
    <3>4. CASE \E n \in Nonces : SendTransaction(n)
      BY <3>4 DEF SendTransaction, SkipConfirmed, CheckMined, MarkMined,
                  NoReceipt, SignAttempt, PublishAttempt, PublishFails, RecordAttempt
    <3>5. CASE UNCHANGED vars
      BY <3>5 DEF vars
    <3> QED BY <3>1, <3>2, <3>3, <3>4, <3>5
            DEF Next, VerifierStep, AccountingStep, Workers
  <2> QED BY <2>1, <2>2, <2>3, <2>4, <2>5
<1> QED BY <1>1 DEF TxInv, TypeOK
-----------------------------------------------------------------------------
(* The Ethereum network.                                                   *)

(* A block more buries the others and undoes nothing.                      *)
LEMMA BuriedChain ==
  ASSUME TxInv
  PROVE  /\ Buried \in Seq(0 .. Deep)
         /\ Len(Buried) = Len(chain)
         /\ Buried[1] = Deep
<1>1. /\ chain \in Seq(0 .. Deep) /\ Len(chain) \in Nat
      /\ DOMAIN chain = 1 .. Len(chain)
      /\ \A i \in 1 .. Len(chain) : chain[i] \in 0 .. Deep
      /\ 1 \in 1 .. Len(chain) /\ chain[1] = Deep
  <2>1. chain \in Seq(0 .. Deep)
    BY DEF TxInv, TypeOK, EthereumTypeOK
  <2>2. Len(chain) >= 1 /\ chain[1] = Deep
    BY DEF TxInv, ChainFollows
  <2>3. Len(chain) \in Nat /\ DOMAIN chain = 1 .. Len(chain)
    BY <2>1, LenProperties
  <2>4. \A i \in 1 .. Len(chain) : chain[i] \in 0 .. Deep
    BY <2>1, ElementOfSeq
  <2> QED BY <2>1, <2>2, <2>3, <2>4
<1>2. \A i \in 1 .. Len(chain) : AtMost(chain[i] + 1, Deep) \in 0 .. Deep
  BY <1>1, Bounds DEF AtMost
<1>3. Buried \in [1 .. Len(chain) -> 0 .. Deep]
  BY <1>1, <1>2 DEF Buried
<1>4. Buried[1] = Deep
  BY <1>1, Bounds DEF Buried, AtMost
<1> QED BY <1>1, <1>3, <1>4, FunctionIsSeq

LEMMA NewBlockKeeps ==
  ASSUME TxInv, NewBlock
  PROVE  TxInv'
<1>1. EthereumTypeOK'
  <2>1. lag' \in 0 .. MaxLag
    BY TxQueueAssumption DEF NewBlock, NextBlock, TxInv, TypeOK, EthereumTypeOK
  <2> QED BY <2>1, BuriedChain DEF NewBlock, TxInv, TypeOK, EthereumTypeOK
<1>2. ChainFollows'
  BY BuriedChain, SameQueue DEF NewBlock, table, TxInv, ChainFollows
<1> QED
  BY <1>1, <1>2, SameTypes, SameQueue, SameWorkers, SameAttempts,
     SameSender, Together
  DEF NewBlock, table, Next

LEMMA MineTransactionKeeps ==
  ASSUME TxInv, MineTransaction
  PROVE  TxInv'
<1>1. /\ NextBlock
      /\ Len(chain) \in mempool
      /\ chain' = Append(Buried, 0)
      /\ mempool' = mempool \ {Len(chain)}
      /\ UNCHANGED << underpaid, due, queued, attempts, sender >>
  BY DEF MineTransaction, table
<1>2. 0 \in 0 .. Deep
  BY Bounds
<1>3. Len(chain) \in 1 .. Count /\ Count \in Nat
  BY <1>1, QueueFacts DEF TxInv, ChainFollows
<1>4. /\ chain' \in Seq(0 .. Deep) /\ Len(chain') = Len(chain) + 1
      /\ \A i \in 1 .. Len(chain) : chain'[i] = Buried[i]
  BY <1>1, <1>2, BuriedChain, AppendProperties
<1>5. EthereumTypeOK'
  BY <1>1, <1>4, TxQueueAssumption DEF NextBlock, TxInv, TypeOK, EthereumTypeOK
<1>6. ChainFollows'
  <2>1. Count' = Count
    BY <1>1, SameQueue
  <2>2. chain'[1] = Deep
    BY <1>3, <1>4, BuriedChain
  <2>3. Len(chain') \in 1 .. Count + 1
    BY <1>3, <1>4
  <2>4. mempool' \subseteq DOMAIN queued' /\ sender'.todo \subseteq DOMAIN queued'
    BY <1>1 DEF TxInv, ChainFollows
  <2> QED BY <1>3, <2>1, <2>2, <2>3, <2>4 DEF ChainFollows
<1> QED
  BY <1>5, <1>6, SameTypes, SameQueue, SameWorkers, SameAttempts,
     SameSender, Together
  DEF MineTransaction, table, Next

LEMMA ForgetKeeps ==
  ASSUME TxInv, Forget
  PROVE  TxInv'
<1>1. EthereumTypeOK'
  BY DEF Forget, TxInv, TypeOK, EthereumTypeOK
<1>2. ChainFollows'
  BY SameQueue DEF Forget, table, TxInv, ChainFollows
<1> QED
  BY <1>1, <1>2, SameTypes, SameQueue, SameWorkers, SameAttempts,
     SameSender, Together
  DEF Forget, table, Next

LEMMA OutbidKeeps ==
  ASSUME TxInv, Outbid
  PROVE  TxInv'
<1>1. EthereumTypeOK'
  BY DEF Outbid, TxInv, TypeOK, EthereumTypeOK
<1> QED
  BY <1>1, SameTypes, SameQueue, SameChain, SameWorkers, SameAttempts,
     SameSender, Together
  DEF Outbid, table, Next

LEMMA ReorganiseKeeps ==
  ASSUME TxInv, Reorganise
  PROVE  TxInv'
<1> DEFINE last == Len(chain)
<1>1. /\ chain[last] < Confirmations
      /\ chain' = SubSeq(chain, 1, last - 1)
      /\ mempool' = mempool \cup {last - 1}
  BY DEF Reorganise
<1>2. /\ last \in 1 .. Count + 1 /\ Count \in Nat /\ chain[1] = Deep
      /\ DOMAIN queued = 1 .. Count
  BY QueueFacts DEF TxInv, ChainFollows
<1>3. chain \in Seq(0 .. Deep) /\ \A i \in 1 .. last : chain[i] \in 0 .. Deep
  BY ElementOfSeq DEF TxInv, TypeOK, EthereumTypeOK
<1>4. last \in 2 .. Count + 1
  BY <1>1, <1>2, <1>3, Bounds, TxQueueAssumption
<1>5. /\ chain' \in Seq(0 .. Deep) /\ Len(chain') = last - 1
      /\ \A i \in 1 .. last - 1 : chain'[i] = chain[i]
  <2>1. \A i \in 1 .. last - 1 : chain[i] \in 0 .. Deep
    BY <1>3, <1>4
  <2>2. /\ SubSeq(chain, 1, last - 1) \in Seq(0 .. Deep)
        /\ Len(SubSeq(chain, 1, last - 1)) =
             IF 1 <= last - 1 THEN last - 1 - 1 + 1 ELSE 0
        /\ \A i \in 1 .. last - 1 - 1 + 1 :
             SubSeq(chain, 1, last - 1)[i] = chain[1 + i - 1]
    BY <1>4, <2>1, SubSeqProperties
  <2>3. last - 1 - 1 + 1 = last - 1 /\ \A i \in 1 .. last - 1 : 1 + i - 1 = i
    BY <1>4
  <2> QED BY <1>1, <1>4, <2>2, <2>3
<1>6. last - 1 \in DOMAIN queued /\ last - 1 \in Nonces
  <2>1. last - 1 \in 1 .. Count
    BY <1>2, <1>4
  <2> QED BY <2>1, <1>2 DEF TxInv, TypeOK, TableTypeOK
<1>7. EthereumTypeOK'
  BY <1>1, <1>5, <1>6 DEF Reorganise, TxInv, TypeOK, EthereumTypeOK
<1>8. ChainFollows'
  <2>1. Count' = Count /\ queued' = queued /\ sender' = sender
    BY SameQueue DEF Reorganise, table
  <2>2. Len(chain') \in 1 .. Count + 1 /\ chain'[1] = Deep
    BY <1>2, <1>4, <1>5
  <2>3. mempool' \subseteq DOMAIN queued
    BY <1>1, <1>6 DEF TxInv, ChainFollows
  <2> QED BY <1>2, <2>1, <2>2, <2>3 DEF TxInv, ChainFollows
<1> QED
  BY <1>7, <1>8, SameTypes, SameQueue, SameWorkers, SameAttempts,
     SameSender, Together
  DEF Reorganise, table, Next

LEMMA RequestKeeps ==
  ASSUME TxInv, NEW t \in Tags, Request(t)
  PROVE  TxInv'
<1> USE DEF Request, table, ethereum
<1>1. TableTypeOK'
  BY DEF TxInv, TypeOK, TableTypeOK
<1>2. AccountingNeverCollides' /\ WorkersInTurn'
  BY SameQueue DEF TxInv, AccountingNeverCollides, WorkersInTurn, InTurn, TagsOf
<1> QED
  BY <1>1, <1>2, SameTypes, SameQueue, SameChain, SameAttempts,
     SameSender, Together
  DEF Next
-----------------------------------------------------------------------------
(* The workers.                                                            *)

(* A step of one worker that leaves the queue alone does not disturb the   *)
(* others, if it takes the lock from none of them.                         *)
LEMMA OneWorkerMoves ==
  ASSUME TxInv, NEW w \in Workers, UNCHANGED << due, queued >>,
         \A v \in Workers \ {w} : worker'[v] = worker[v],
         \A v \in Workers \ {w} : worker[v].at = "insert" => tx_lock' = v,
         InTurn(w)',
         worker'[w].at = "commit" => w = Accounting,
         w = Accounting /\ worker'[w].at \in {"insert", "commit"} =>
           worker'[w].nonce \notin DOMAIN queued
  PROVE  AccountingNeverCollides' /\ WorkersInTurn'
<1>1. Count' = Count
  BY SameQueue
<1>2. ASSUME NEW v \in Workers \ {w} PROVE InTurn(v)'
  BY <1>1, <1>2 DEF TxInv, WorkersInTurn, InTurn, TagsOf
<1>3. worker'[Verifier].at # "commit"
  BY TxQueueAssumption DEF TxInv, WorkersInTurn, Workers
<1>4. AccountingNeverCollides'
  BY DEF TxInv, AccountingNeverCollides, Workers
<1> QED BY <1>2, <1>3, <1>4 DEF WorkersInTurn

(* The row that one of them inserts is not what another one is inserting,  *)
(* and a number that was good is the next one or is taken.                 *)
LEMMA OneRowAppears ==
  ASSUME TxInv, NEW w \in Workers, worker[w].at \in {"insert", "commit"},
         worker[w].nonce \notin DOMAIN queued, queued' = WithRow(w), due' = due,
         worker' = [worker EXCEPT ![w] = Ready],
         \A v \in Workers \ {w} : worker[v].at = "insert" => tx_lock' = v,
         w = Verifier /\ worker[Accounting].at \in {"insert", "commit"} =>
           worker[Accounting].nonce # worker[w].nonce
  PROVE  AccountingNeverCollides' /\ WorkersInTurn'
<1>1. /\ Count' = Count + 1 /\ Count \in Nat /\ DOMAIN queued = 1 .. Count
      /\ worker[w].nonce = Count + 1 /\ DOMAIN queued' = 1 .. Count + 1
      /\ Range(queued') = Range(queued) \cup {worker[w].tag}
  BY RowInserted, QueueFacts DEF TxInv
<1>2. /\ worker'[w] = Ready /\ Ready.at = "ready"
      /\ \A v \in Workers \ {w} : worker'[v] = worker[v]
  BY DEF TxInv, TypeOK, WorkersTypeOK, Ready
<1>3. worker[w].tag \in TagsOf(w)
  BY DEF TxInv, WorkersInTurn, InTurn
<1>4. ASSUME NEW v \in Workers \ {w} PROVE InTurn(v)'
  <2>1. TagsOf(v) \cap TagsOf(w) = {} /\ TagsOf(v)' = TagsOf(v)
    BY TxQueueAssumption DEF TagsOf, Workers
  <2>2. InTurn(v)
    BY DEF TxInv, WorkersInTurn
  <2>3. worker[v].at = "insert" => tx_lock' = v
    OBVIOUS
  <2>4. worker[v].at # "ready" =>
          /\ worker[v].tag \in (due \cap TagsOf(v)) \ Range(queued')
          /\ worker[v].remote \in 1 .. Count' + 1
    BY <1>1, <1>3, <2>1, <2>2 DEF InTurn
  <2>5. worker[v].at \in {"insert", "commit"} =>
          worker[v].nonce \in 1 .. Count' + 1
    BY <1>1, <2>2 DEF InTurn
  <2> QED BY <1>2, <2>1, <2>3, <2>4, <2>5 DEF InTurn
<1>5. InTurn(w)'
  BY <1>2 DEF InTurn
<1>6. worker'[Verifier].at # "commit"
  BY <1>2 DEF TxInv, WorkersInTurn, Workers
<1>7. AccountingNeverCollides'
  <2>1. CASE w = Accounting
    BY <2>1, <1>2 DEF AccountingNeverCollides
  <2>2. CASE w = Verifier
    <3>1. /\ worker'[Accounting] = worker[Accounting]
          /\ worker[Accounting].at \in {"insert", "commit"} =>
               /\ worker[Accounting].nonce \in 1 .. Count + 1
               /\ worker[Accounting].nonce \notin 1 .. Count
      BY <2>2, <1>1, <1>2, TxQueueAssumption
      DEF TxInv, WorkersInTurn, InTurn, AccountingNeverCollides, Workers
    <3>2. worker[Accounting].at \in {"insert", "commit"} =>
            worker[Accounting].nonce = Count + 1
      BY <3>1, <1>1
    <3> QED BY <3>1, <3>2, <2>2, <1>1 DEF AccountingNeverCollides
  <2> QED BY <2>1, <2>2 DEF Workers
<1> QED BY <1>4, <1>5, <1>6, <1>7 DEF WorkersInTurn

(* The queue that grew still covers the chain, the nodes and the sender.   *)
LEMMA QueueGrows ==
  ASSUME TxInv, NEW w \in Workers, worker[w].at \in {"insert", "commit"},
         worker[w].nonce \notin DOMAIN queued, queued' = WithRow(w),
         UNCHANGED << chain, mempool, due, attempts, sender >>
  PROVE  /\ NoncesFollow' /\ EachTagIsQueuedOnce' /\ TableTypeOK'
         /\ ChainFollows' /\ AttemptsInOrder'
<1>1. /\ Count' = Count + 1 /\ Count \in Nat /\ DOMAIN queued = 1 .. Count
      /\ DOMAIN queued' = 1 .. Count + 1
      /\ queued' \in [DOMAIN queued' -> due'] /\ DOMAIN queued' \subseteq Nonces
      /\ NoncesFollow' /\ EachTagIsQueuedOnce'
  BY RowInserted, QueueFacts DEF TxInv
<1>2. TableTypeOK'
  BY <1>1 DEF TxInv, TypeOK, TableTypeOK
<1>3. ChainFollows'
  <2>1. 1 .. Count \subseteq 1 .. Count + 1
    BY <1>1
  <2>2. Len(chain) \in 1 .. Count + 2
    BY <1>1 DEF TxInv, ChainFollows
  <2> QED BY <1>1, <2>1, <2>2 DEF TxInv, ChainFollows
<1>4. AttemptsInOrder'
  <2>1. 1 .. Count \subseteq 1 .. Count + 1
    BY <1>1
  <2> QED BY <1>1, <2>1 DEF TxInv, AttemptsInOrder, Current
<1> QED BY <1>1, <1>2, <1>3, <1>4

(* A sender that is given no other work, and no attempt under way.         *)
LEMMA SenderRests ==
  ASSUME TxInv, UNCHANGED << chain, mempool, queued, attempts >>,
         sender'.todo \subseteq DOMAIN queued,
         sender'.at \notin {"publish", "record"}
  PROVE  ChainFollows' /\ AttemptsInOrder'
<1>1. ChainFollows'
  BY DEF TxInv, ChainFollows, Count
<1>2. AttemptsInOrder'
  BY DEF TxInv, AttemptsInOrder
<1> QED BY <1>1, <1>2
-----------------------------------------------------------------------------
(* queue_transaction_by_owner.                                             *)

LEMMA ReadRemoteNonceKeeps ==
  ASSUME TxInv, NEW w \in Workers, ReadRemoteNonce(w)
  PROVE  TxInv'
<1>1. PICK t \in ToQueue(w) :
        /\ worker[w].at = "ready"
        /\ worker' = [worker EXCEPT ![w] =
                        [Ready EXCEPT !.at = "remote", !.tag = t,
                                      !.remote = Len(chain)]]
  BY DEF ReadRemoteNonce
<1>2. /\ worker'[w] = [at |-> "remote", tag |-> t, remote |-> Len(chain),
                       nonce |-> 0]
      /\ \A v \in Workers \ {w} : worker'[v] = worker[v]
  BY <1>1 DEF TxInv, TypeOK, WorkersTypeOK, Ready
<1>3. UNCHANGED << chain, mempool, underpaid, lag, due, queued, attempts,
                   tx_lock, sender >>
  BY DEF ReadRemoteNonce, ethereum, table
<1>4. t \in (due \cap TagsOf(w)) \ Range(queued) /\ t \in Tags
  BY DEF ToQueue, TxInv, TypeOK, TableTypeOK
<1>5. Len(chain) \in 1 .. Count + 1 /\ Len(chain) \in Nat /\ Count' = Count
  BY <1>3, SameQueue DEF TxInv, ChainFollows
<1>6. WorkersTypeOK'
  BY <1>1, <1>2, <1>3, <1>4, <1>5
  DEF TxInv, TypeOK, WorkersTypeOK, Ready
<1>7. InTurn(w)'
  BY <1>2, <1>3, <1>4, <1>5 DEF InTurn, TagsOf
<1>8. \A v \in Workers \ {w} : worker[v].at = "insert" => tx_lock' = v
  BY <1>3 DEF TxInv, WorkersInTurn, InTurn
<1>9. AccountingNeverCollides' /\ WorkersInTurn'
  BY <1>2, <1>3, <1>7, <1>8, OneWorkerMoves
<1>10. SenderInTurn'
  BY <1>2, <1>3, TxQueueAssumption
  DEF ReadRemoteNonce, TxInv, SenderInTurn, Workers
<1>11. [Next]_vars
  BY DEF Next, VerifierStep, AccountingStep, QueueStep, Workers
<1> QED
  BY <1>3, <1>6, <1>9, <1>10, <1>11, SameTypes, SameQueue, SameChain, SameAttempts,
     Together

LEMMA AcquireAndNumberKeeps ==
  ASSUME TxInv, NEW w \in Workers, AcquireAndNumber(w)
  PROVE  TxInv'
<1>1. /\ worker[w].at = "remote" /\ tx_lock = Free /\ tx_lock' = w
      /\ worker' = [worker EXCEPT ![w].at = "insert",
                                  ![w].nonce = NextNonce(worker[w].remote)]
  BY DEF AcquireAndNumber
<1>2. UNCHANGED << chain, mempool, underpaid, lag, due, queued, attempts,
                   sender >>
  BY DEF AcquireAndNumber, ethereum, table
<1>3. Count \in Nat /\ DOMAIN queued = 1 .. Count /\ Count' = Count
  BY <1>2, QueueFacts, SameQueue DEF TxInv
<1>4. InTurn(w)
  BY DEF TxInv, WorkersInTurn
<1>5. NextNonce(worker[w].remote) = Count + 1
  BY <1>1, <1>4, NumberIsNext DEF InTurn, TxInv
<1>6. /\ worker'[w].at = "insert" /\ worker'[w].tag = worker[w].tag
      /\ worker'[w].remote = worker[w].remote
      /\ worker'[w].nonce = Count + 1
      /\ \A v \in Workers \ {w} : worker'[v] = worker[v]
      /\ worker' \in [Workers -> QueueState]
  <2>1. worker \in [Workers -> QueueState] /\ worker[w] \in QueueState
    BY States
  <2>2. worker' = [worker EXCEPT ![w] =
                     [worker[w] EXCEPT !.at = "insert", !.nonce = Count + 1]]
    BY <1>1, <1>5, <2>1
  <2>3. Count + 1 \in Nat
    BY <1>3
  <2> QED BY <2>1, <2>2, <2>3, WorkerNumbers
<1>7. WorkersTypeOK'
  BY <1>1, <1>2, <1>6 DEF TxInv, TypeOK, WorkersTypeOK, QueueState
<1>8. InTurn(w)'
  BY <1>1, <1>2, <1>3, <1>4, <1>6 DEF InTurn, TagsOf
<1>9. \A v \in Workers \ {w} : worker[v].at = "insert" => tx_lock' = v
  BY <1>1, TxQueueAssumption DEF TxInv, WorkersInTurn, InTurn
<1>10. worker'[w].nonce \notin DOMAIN queued
  BY <1>3, <1>6
<1>11. AccountingNeverCollides' /\ WorkersInTurn'
  BY <1>2, <1>6, <1>8, <1>9, <1>10, OneWorkerMoves
<1>12. SenderInTurn'
  BY <1>1, <1>2, <1>6, TxQueueAssumption DEF TxInv, SenderInTurn, Workers
<1>13. [Next]_vars
  BY DEF Next, VerifierStep, AccountingStep, QueueStep, Workers
<1> QED
  BY <1>2, <1>7, <1>11, <1>12, <1>13, SameTypes, SameQueue, SameChain, SameAttempts,
     Together

LEMMA InsertKeeps ==
  ASSUME TxInv, NEW w \in Workers, Insert(w)
  PROVE  TxInv'
<1>1. /\ worker[w].at = "insert" /\ worker[w].nonce \notin DOMAIN queued
      /\ \A v \in Workers :
           worker[v].at = "commit" => worker[v].nonce # worker[w].nonce
      /\ tx_lock' = Free
  BY DEF Insert, InsertDecided
<1>2. UNCHANGED << chain, mempool, underpaid, lag, due, attempts, sender >>
  BY DEF Insert, ethereum
<1>3. \A v \in Workers \ {w} : worker[v].at # "insert"
  BY <1>1 DEF TxInv, WorkersInTurn, InTurn
<1>4. [Next]_vars
  BY DEF Next, VerifierStep, AccountingStep, QueueStep, Workers
<1>5. CASE w = Verifier
  <2>1. queued' = WithRow(w) /\ worker' = [worker EXCEPT ![w] = Ready]
    BY <1>5 DEF Insert
  <2>2. WorkersTypeOK'
    BY <1>1, <1>2, <2>1 DEF TxInv, TypeOK, WorkersTypeOK, Ready
  <2>3. worker[Accounting].at \in {"insert", "commit"} =>
          worker[Accounting].nonce # worker[w].nonce
    BY <1>1, <1>3, <1>5, TxQueueAssumption DEF Workers
  <2>4. AccountingNeverCollides' /\ WorkersInTurn'
    BY <1>1, <1>2, <1>3, <2>1, <2>3, OneRowAppears
  <2>5. /\ NoncesFollow' /\ EachTagIsQueuedOnce' /\ TableTypeOK'
        /\ ChainFollows' /\ AttemptsInOrder'
    BY <1>1, <1>2, <2>1, QueueGrows
  <2>6. SenderInTurn'
    BY <1>1, <1>2, <1>5, <2>1 DEF TxInv, SenderInTurn, TypeOK, WorkersTypeOK, Ready
  <2> QED
    BY <1>2, <1>4, <2>2, <2>4, <2>5, <2>6, SameTypes, Together
<1>6. CASE w = Accounting
  <2>1. worker' = [worker EXCEPT ![w].at = "commit"] /\ queued' = queued
    BY <1>6, TxQueueAssumption DEF Insert
  <2>2. /\ worker'[w] = [worker[w] EXCEPT !.at = "commit"]
        /\ \A v \in Workers \ {w} : worker'[v] = worker[v]
    BY <2>1 DEF TxInv, TypeOK, WorkersTypeOK
  <2>3. /\ worker'[w].at = "commit" /\ worker'[w].tag = worker[w].tag
        /\ worker'[w].remote = worker[w].remote
        /\ worker'[w].nonce = worker[w].nonce
    BY <2>2 DEF TxInv, TypeOK, WorkersTypeOK
  <2>4. WorkersTypeOK'
    BY <1>1, <1>2, <2>1 DEF TxInv, TypeOK, WorkersTypeOK
  <2>5. InTurn(w)'
    <3>1. InTurn(w) /\ Count' = Count
      BY <2>1, SameQueue DEF TxInv, WorkersInTurn
    <3> QED BY <1>1, <1>2, <2>1, <2>3, <3>1 DEF InTurn, TagsOf
  <2>6. AccountingNeverCollides' /\ WorkersInTurn'
    BY <1>1, <1>2, <1>3, <1>6, <2>1, <2>2, <2>3, <2>5, OneWorkerMoves
  <2>7. SenderInTurn'
    BY <1>1, <1>2, <1>6, <2>2, TxQueueAssumption
    DEF TxInv, SenderInTurn, WorkersInTurn, InTurn, Workers
  <2> QED
    BY <1>2, <1>4, <2>1, <2>4, <2>6, <2>7, SameTypes, SameQueue, SameChain,
       SameAttempts, Together
<1> QED BY <1>5, <1>6 DEF Workers

LEMMA CommitKeeps ==
  ASSUME TxInv, Commit
  PROVE  TxInv'
<1> DEFINE w == Accounting
<1>1. /\ worker[w].at = "commit" /\ queued' = WithRow(w) /\ w \in Workers
      /\ worker' = [worker EXCEPT ![w] = Ready]
  BY DEF Commit, Workers
<1>2. UNCHANGED << chain, mempool, underpaid, lag, due, attempts, tx_lock,
                   sender >>
  BY DEF Commit, ethereum
<1>3. worker[w].nonce \notin DOMAIN queued
  BY <1>1 DEF TxInv, AccountingNeverCollides
<1>4. WorkersTypeOK'
  BY <1>1, <1>2 DEF TxInv, TypeOK, WorkersTypeOK, Ready
<1>5. \A v \in Workers \ {w} : worker[v].at = "insert" => tx_lock' = v
  BY <1>2 DEF TxInv, WorkersInTurn, InTurn
<1>6. AccountingNeverCollides' /\ WorkersInTurn'
  BY <1>1, <1>2, <1>3, <1>5, OneRowAppears, TxQueueAssumption
<1>7. /\ NoncesFollow' /\ EachTagIsQueuedOnce' /\ TableTypeOK'
      /\ ChainFollows' /\ AttemptsInOrder'
  BY <1>1, <1>2, <1>3, QueueGrows
<1>8. SenderInTurn'
  BY <1>1, <1>2, TxQueueAssumption
  DEF TxInv, SenderInTurn, TypeOK, WorkersTypeOK, Workers
<1>9. [Next]_vars
  BY DEF Next, AccountingStep
<1> QED
  BY <1>2, <1>4, <1>6, <1>7, <1>8, <1>9, SameTypes, Together

(* A worker that is made ready again, whatever it was at.                  *)
LEMMA WorkerReady ==
  ASSUME TxInv, NEW w \in Workers, UNCHANGED << due, queued >>,
         worker' = [worker EXCEPT ![w] = Ready],
         \A v \in Workers \ {w} : worker[v].at = "insert" => tx_lock' = v
  PROVE  AccountingNeverCollides' /\ WorkersInTurn'
<1>1. /\ worker'[w] = Ready /\ Ready.at = "ready"
      /\ \A v \in Workers \ {w} : worker'[v] = worker[v]
  BY DEF TxInv, TypeOK, WorkersTypeOK, Ready
<1>2. InTurn(w)'
  BY <1>1 DEF InTurn
<1> QED BY <1>1, <1>2, OneWorkerMoves

LEMMA InsertFailsKeeps ==
  ASSUME TxInv, NEW w \in Workers, InsertFails(w)
  PROVE  TxInv'
<1>1. /\ worker[w].at = "insert" /\ tx_lock' = Free
      /\ worker' = [worker EXCEPT ![w] = Ready]
      /\ sender' = IF w = Verifier THEN [sender EXCEPT !.at = "send"] ELSE sender
  BY DEF InsertFails, InsertDecided
<1>2. UNCHANGED << chain, mempool, underpaid, lag, due, queued, attempts >>
  BY DEF InsertFails, ethereum, table
<1>3. \A v \in Workers \ {w} : worker[v].at = "insert" => tx_lock' = v
  BY <1>1 DEF TxInv, WorkersInTurn, InTurn
<1>4. AccountingNeverCollides' /\ WorkersInTurn'
  BY <1>1, <1>2, <1>3, WorkerReady
<1>5. WorkersTypeOK'
  BY <1>1 DEF TxInv, TypeOK, WorkersTypeOK, Ready
<1>6. ChainFollows' /\ AttemptsInOrder'
  <2>1. CASE w = Verifier
    <3>1. sender'.todo = sender.todo /\ sender'.at = "send"
      BY <1>1, <2>1 DEF TxInv, TypeOK, WorkersTypeOK
    <3> QED BY <3>1, <1>2, SenderRests DEF TxInv, ChainFollows
  <2>2. CASE w # Verifier
    BY <1>1, <1>2, <2>2, SameChain, SameAttempts
  <2> QED BY <2>1, <2>2
<1>7. SenderInTurn'
  <2>1. CASE w = Verifier
    BY <1>1, <2>1 DEF TxInv, SenderInTurn, TypeOK, WorkersTypeOK, Ready
  <2>2. CASE w = Accounting
    BY <1>1, <2>2, TxQueueAssumption
    DEF TxInv, SenderInTurn, WorkersInTurn, InTurn, TypeOK, WorkersTypeOK, Workers
  <2> QED BY <2>1, <2>2 DEF Workers
<1>8. [Next]_vars
  BY DEF Next, VerifierStep, AccountingStep, QueueStep, Workers
<1> QED BY <1>2, <1>4, <1>5, <1>6, <1>7, <1>8, SameTypes, SameQueue, Together

LEMMA CrashKeeps ==
  ASSUME TxInv, NEW w \in Workers, Crash(w)
  PROVE  TxInv'
<1>1. /\ tx_lock' = IF tx_lock = w THEN Free ELSE tx_lock
      /\ worker' = [worker EXCEPT ![w] = Ready]
      /\ sender' = IF w = Verifier THEN NewBeat ELSE sender
  BY DEF Crash
<1>2. UNCHANGED << chain, mempool, underpaid, lag, due, queued, attempts >>
  BY DEF Crash, ethereum, table
<1>3. \A v \in Workers \ {w} : worker[v].at = "insert" => tx_lock' = v
  BY <1>1 DEF TxInv, WorkersInTurn, InTurn
<1>4. AccountingNeverCollides' /\ WorkersInTurn'
  BY <1>1, <1>2, <1>3, WorkerReady
<1>5. WorkersTypeOK'
  BY <1>1, Bounds, TxQueueAssumption
  DEF TxInv, TypeOK, WorkersTypeOK, Ready, NewBeat
<1>6. ChainFollows' /\ AttemptsInOrder'
  <2>1. CASE w = Verifier
    BY <1>1, <1>2, <2>1, SenderRests DEF NewBeat
  <2>2. CASE w # Verifier
    BY <1>1, <1>2, <2>2, SameChain, SameAttempts
  <2> QED BY <2>1, <2>2
<1>7. SenderInTurn'
  <2>1. CASE w = Verifier
    BY <1>1, <2>1
    DEF TxInv, SenderInTurn, TypeOK, WorkersTypeOK, Ready, NewBeat
  <2>2. CASE w = Accounting
    BY <1>1, <2>2, TxQueueAssumption
    DEF TxInv, SenderInTurn, TypeOK, WorkersTypeOK, Workers
  <2> QED BY <2>1, <2>2 DEF Workers
<1>8. [Next]_vars
  BY DEF Next
<1> QED BY <1>2, <1>4, <1>5, <1>6, <1>7, <1>8, SameTypes, SameQueue, Together
-----------------------------------------------------------------------------
(* heartbeat_verifier and send_queued_transactions.                        *)

LEMMA SynchroniseKeeps ==
  ASSUME TxInv, Synchronise
  PROVE  TxInv'
<1>1. /\ UNCHANGED << chain, mempool, underpaid, due, queued, attempts, tx_lock,
                      worker >>
      /\ lag' \in 0 .. lag
      /\ sender' = [sender EXCEPT !.at = "queue"]
  BY DEF Synchronise, table
<1>2. sender'.at = "queue" /\ sender'.todo = sender.todo /\ WorkersTypeOK'
  BY <1>1 DEF TxInv, TypeOK, WorkersTypeOK
<1>3. EthereumTypeOK'
  BY <1>1, TxQueueAssumption DEF TxInv, TypeOK, EthereumTypeOK
<1>4. ChainFollows' /\ AttemptsInOrder'
  BY <1>1, <1>2, SenderRests DEF TxInv, ChainFollows
<1>5. SenderInTurn'
  BY <1>1, <1>2 DEF TxInv, SenderInTurn
<1>6. [Next]_vars
  BY DEF Next, VerifierStep
<1> QED
  BY <1>1, <1>2, <1>3, <1>4, <1>5, <1>6, SameTypes, SameQueue, SameWorkers, Together

LEMMA FinishQueueingKeeps ==
  ASSUME TxInv, FinishQueueing
  PROVE  TxInv'
<1> USE DEF FinishQueueing, ethereum, table
<1>1. sender'.at = "send" /\ sender'.todo = sender.todo /\ WorkersTypeOK'
  BY DEF TxInv, TypeOK, WorkersTypeOK
<1>2. ChainFollows' /\ AttemptsInOrder'
  BY <1>1, SenderRests DEF TxInv, ChainFollows
<1>3. SenderInTurn'
  BY <1>1 DEF TxInv, SenderInTurn
<1>4. [Next]_vars
  BY DEF Next, VerifierStep
<1> QED BY <1>1, <1>2, <1>3, <1>4, SameTypes, SameQueue, SameWorkers, Together

(* The sender takes the lock when it is free, and gives back its own: no   *)
(* worker is about to insert a row.                                        *)
LEMMA LockedBySender ==
  ASSUME TxInv, UNCHANGED << due, queued, worker >>,
         \A w \in Workers : worker[w].at # "insert"
  PROVE  AccountingNeverCollides' /\ WorkersInTurn'
<1>1. Count' = Count
  BY SameQueue
<1> QED
  BY <1>1 DEF TxInv, AccountingNeverCollides, WorkersInTurn, InTurn, TagsOf

LEMMA StartSendingKeeps ==
  ASSUME TxInv, StartSending
  PROVE  TxInv'
<1>1. /\ tx_lock = Free /\ tx_lock' = Verifier
      /\ sender' = [sender EXCEPT !.at = "sending", !.todo = DOMAIN queued]
      /\ UNCHANGED << chain, mempool, underpaid, lag, due, queued, attempts,
                      worker >>
  BY DEF StartSending, ethereum, table
<1>2. sender'.at = "sending" /\ sender'.todo = DOMAIN queued
  BY <1>1 DEF TxInv, TypeOK, WorkersTypeOK
<1>3. WorkersTypeOK'
  BY <1>1 DEF TxInv, TypeOK, WorkersTypeOK, TableTypeOK, Workers
<1>4. \A w \in Workers : worker[w].at # "insert"
  BY <1>1, TxQueueAssumption DEF TxInv, WorkersInTurn, InTurn
<1>5. AccountingNeverCollides' /\ WorkersInTurn'
  BY <1>1, <1>4, LockedBySender
<1>6. ChainFollows' /\ AttemptsInOrder'
  BY <1>1, <1>2, SenderRests
<1>7. SenderInTurn'
  BY <1>1, <1>2 DEF StartSending, TxInv, SenderInTurn
<1>8. [Next]_vars
  BY DEF Next, VerifierStep
<1> QED BY <1>1, <1>3, <1>5, <1>6, <1>7, <1>8, SameTypes, SameQueue, Together

(* A pass over the queue ends, with all sent or at a missing receipt.      *)
LEMMA FinishSendingKeeps ==
  ASSUME TxInv, FinishSending \/ \E n \in Nonces : NoReceipt(n)
  PROVE  TxInv'
<1>1. /\ sender.at = "sending" /\ tx_lock' = Free /\ sender' = NewBeat
      /\ UNCHANGED << chain, mempool, underpaid, lag, due, queued, attempts,
                      worker >>
  BY DEF FinishSending, NoReceipt, Taken, ethereum, table
<1>2. WorkersTypeOK'
  BY <1>1, Bounds, TxQueueAssumption DEF TxInv, TypeOK, WorkersTypeOK, NewBeat
<1>3. worker[Verifier].at = "ready" /\ tx_lock = Verifier
  BY <1>1 DEF TxInv, SenderInTurn
<1>4. \A w \in Workers : worker[w].at # "insert"
  BY <1>3, TxQueueAssumption DEF TxInv, WorkersInTurn, InTurn, Workers
<1>5. AccountingNeverCollides' /\ WorkersInTurn'
  BY <1>1, <1>4, LockedBySender
<1>6. ChainFollows' /\ AttemptsInOrder'
  BY <1>1, SenderRests DEF NewBeat
<1>7. SenderInTurn'
  BY <1>1, <1>3 DEF SenderInTurn, NewBeat
<1>8. [Next]_vars
  BY DEF Next, VerifierStep, SendTransaction
<1> QED BY <1>1, <1>2, <1>5, <1>6, <1>7, <1>8, SameTypes, SameQueue, Together

(* A step of send_queued_transactions changes the sender, the attempts and *)
(* what the nodes hold.                                                    *)
LEMMA SenderWorks ==
  ASSUME TxInv, UNCHANGED << chain, underpaid, lag, due, queued, tx_lock,
                             worker >>,
         sender.at \in {"sending", "publish", "record"},
         sender' \in SendState,
         sender'.todo \subseteq sender.todo
  PROVE  /\ WorkersTypeOK' /\ NoncesFollow' /\ EachTagIsQueuedOnce'
         /\ AccountingNeverCollides' /\ WorkersInTurn' /\ SenderInTurn'
         /\ mempool' = mempool => EthereumTypeOK' /\ ChainFollows'
         /\ attempts' = attempts => TableTypeOK'
<1>1. WorkersTypeOK'
  BY DEF TxInv, TypeOK, WorkersTypeOK, SendState
<1>2. SenderInTurn'
  BY DEF TxInv, SenderInTurn
<1>3. mempool' = mempool => ChainFollows'
  BY DEF TxInv, ChainFollows, Count
<1> QED BY <1>1, <1>2, <1>3, SameTypes, SameQueue, SameWorkers

(* What is saved of a queued transaction keeps the attempts in order when  *)
(* no attempt is about to be published.                                    *)
LEMMA SaveKeeps ==
  ASSUME TxInv, NEW n \in Nonces, n \in DOMAIN queued,
         NEW mark \in {"sent", "mined", "confirmed"}, Save(n, mark),
         UNCHANGED << due, queued >>, sender'.at \notin {"publish", "record"}
  PROVE  TableTypeOK' /\ AttemptsInOrder'
<1>1. /\ attempts \in [Nonces -> {"none", "sent", "mined", "confirmed"}]
      /\ attempts' = [attempts EXCEPT ![n] = mark]
  BY DEF TxInv, TypeOK, TableTypeOK, Save
<1>2. TableTypeOK'
  BY <1>1 DEF TxInv, TypeOK, TableTypeOK
<1>3. AttemptsInOrder'
  BY <1>1 DEF TxInv, AttemptsInOrder
<1> QED BY <1>2, <1>3

LEMMA SkipConfirmedKeeps ==
  ASSUME TxInv, NEW n \in Nonces, SkipConfirmed(n)
  PROVE  TxInv'
<1>1. /\ sender.at = "sending" /\ sender' = [sender EXCEPT !.todo = @ \ {n}]
      /\ UNCHANGED << chain, mempool, underpaid, lag, due, queued, attempts,
                      tx_lock,
                      worker >>
  BY DEF SkipConfirmed, Taken, NextTransaction, ethereum, table
<1>2. /\ sender' \in SendState
      /\ sender'.todo \subseteq sender.todo /\ sender'.at = "sending"
  BY <1>1, States DEF SendState
<1>3. AttemptsInOrder'
  BY <1>1, <1>2, SenderRests DEF TxInv, ChainFollows
<1>4. [Next]_vars
  BY DEF Next, VerifierStep, SendTransaction
<1> QED BY <1>1, <1>2, <1>3, <1>4, SenderWorks, Together

LEMMA PublishFailsKeeps ==
  ASSUME TxInv, NEW n \in Nonces, PublishFails(n)
  PROVE  TxInv'
<1>1. /\ sender.at = "publish"
      /\ sender' = [sender EXCEPT !.at = "sending", !.todo = @ \ {n}]
      /\ UNCHANGED << chain, mempool, underpaid, lag, due, queued, attempts,
                      tx_lock, worker >>
  BY DEF PublishFails, Refused, ethereum, table
<1>2. /\ sender' \in SendState
      /\ sender'.todo \subseteq sender.todo /\ sender'.at = "sending"
  BY <1>1, States, SenderLeaves
<1>3. AttemptsInOrder'
  BY <1>1, <1>2, SenderRests DEF TxInv, ChainFollows
<1>4. [Next]_vars
  BY DEF Next, VerifierStep, SendTransaction
<1> QED BY <1>1, <1>2, <1>3, <1>4, SenderWorks, Together

LEMMA SignAttemptKeeps ==
  ASSUME TxInv, NEW n \in Nonces, SignAttempt(n)
  PROVE  TxInv'
<1>1. /\ sender.at = "sending" /\ Current(n) /\ attempts[n] = "none"
      /\ sender' = [sender EXCEPT !.at = "publish"]
      /\ UNCHANGED << chain, mempool, underpaid, lag, due, queued, attempts,
                      tx_lock,
                      worker >>
  BY DEF SignAttempt, Taken, ethereum, table
<1>2. /\ sender' \in SendState
      /\ sender'.todo = sender.todo /\ sender'.at = "publish"
  BY <1>1, States DEF SendState
<1>3. AttemptsInOrder'
  <2>1. ASSUME NEW m \in Nonces, Current(m)'
        PROVE  attempts'[m] = "none"
    <3>1. m <= n /\ n <= m
      BY <2>1, <1>1, <1>2 DEF Current
    <3>2. m \in Nat /\ n \in Nat
      BY Bounds
    <3>3. m = n
      BY <3>1, <3>2
    <3> QED BY <3>3, <1>1
  <2>2. \A m \in Nonces : attempts'[m] # "none" => m \in DOMAIN queued'
    BY <1>1 DEF TxInv, AttemptsInOrder
  <2> QED BY <2>1, <2>2 DEF AttemptsInOrder
<1>4. [Next]_vars
  BY DEF Next, VerifierStep, SendTransaction
<1> QED BY <1>1, <1>2, <1>3, <1>4, SenderWorks, Together

LEMMA PublishAttemptKeeps ==
  ASSUME TxInv, NEW n \in Nonces, PublishAttempt(n)
  PROVE  TxInv'
<1>1. /\ sender.at = "publish" /\ Current(n)
      /\ mempool' = mempool \cup {n}
      /\ sender' = [sender EXCEPT !.at = "record"]
      /\ UNCHANGED << chain, underpaid, lag, due, queued, attempts, tx_lock,
                      worker >>
  BY DEF PublishAttempt, table
<1>2. /\ sender' \in SendState
      /\ sender'.todo = sender.todo /\ sender'.at = "record"
  BY <1>1, States DEF SendState
<1>3. n \in DOMAIN queued
  BY <1>1 DEF TxInv, ChainFollows, Current
<1>4. EthereumTypeOK'
  BY <1>1 DEF TxInv, TypeOK, EthereumTypeOK
<1>5. ChainFollows'
  BY <1>1, <1>2, <1>3, SameQueue DEF TxInv, ChainFollows
<1>6. AttemptsInOrder'
  BY <1>1, <1>2 DEF TxInv, AttemptsInOrder, Current
<1>7. [Next]_vars
  BY DEF Next, VerifierStep, SendTransaction
<1> QED BY <1>1, <1>2, <1>4, <1>5, <1>6, <1>7, SenderWorks, Together

LEMMA RecordAttemptKeeps ==
  ASSUME TxInv, NEW n \in Nonces, RecordAttempt(n)
  PROVE  TxInv'
<1>1. /\ sender.at = "record" /\ Current(n) /\ Save(n, "sent")
      /\ sender' = [sender EXCEPT !.at = "sending"]
      /\ UNCHANGED << chain, mempool, underpaid, lag, due, queued, tx_lock,
                      worker >>
  BY DEF RecordAttempt, ethereum
<1>2. /\ sender' \in SendState /\ sender'.todo \subseteq sender.todo
      /\ sender'.at = "sending"
  BY <1>1, States DEF SendState
<1>3. n \in DOMAIN queued
  BY <1>1 DEF TxInv, ChainFollows, Current
<1>4. TableTypeOK' /\ AttemptsInOrder'
  BY <1>1, <1>2, <1>3, SaveKeeps
<1>5. [Next]_vars
  BY DEF Next, VerifierStep, SendTransaction
<1> QED BY <1>1, <1>2, <1>4, <1>5, SenderWorks, Together

(* The receipt of an attempt is looked at, and its mark is saved.          *)
LEMMA ReceiptKeeps ==
  ASSUME TxInv, NEW n \in Nonces, CheckMined(n) \/ MarkMined(n)
  PROVE  TxInv'
<1>1. /\ sender.at = "sending" /\ Current(n)
      /\ sender' = [sender EXCEPT !.todo = @ \ {n}]
      /\ UNCHANGED << chain, mempool, underpaid, lag, due, queued, tx_lock,
                      worker >>
  BY DEF CheckMined, MarkMined, Taken, NextTransaction, ethereum
<1>2. \E mark \in {"sent", "mined", "confirmed"} : Save(n, mark)
  BY DEF CheckMined, MarkMined
<1>3. /\ sender' \in SendState /\ sender'.todo \subseteq sender.todo
      /\ sender'.at = "sending"
  BY <1>1, States DEF SendState
<1>4. n \in DOMAIN queued
  BY <1>1 DEF TxInv, ChainFollows, Current
<1>5. TableTypeOK' /\ AttemptsInOrder'
  BY <1>1, <1>2, <1>3, <1>4, SaveKeeps
<1>6. [Next]_vars
  BY DEF Next, VerifierStep, SendTransaction
<1> QED BY <1>1, <1>3, <1>5, <1>6, SenderWorks, Together
-----------------------------------------------------------------------------
(* The specification.                                                      *)

LEMMA NextKeeps == TxInv /\ [Next]_vars => TxInv'
<1> SUFFICES ASSUME TxInv, [Next]_vars PROVE TxInv'
  OBVIOUS
<1>1. CASE NewBlock \/ MineTransaction \/ Forget \/ Outbid \/ Reorganise
  BY <1>1, NewBlockKeeps, MineTransactionKeeps, ForgetKeeps, OutbidKeeps,
     ReorganiseKeeps
<1>2. CASE \E t \in Tags : Request(t)
  BY <1>2, RequestKeeps
<1>3. CASE \E w \in Workers : QueueStep(w)
  BY <1>3, ReadRemoteNonceKeeps, AcquireAndNumberKeeps, InsertKeeps,
     InsertFailsKeeps
  DEF QueueStep
<1>4. CASE Commit \/ Synchronise \/ FinishQueueing \/ StartSending \/ FinishSending
  BY <1>4, CommitKeeps, SynchroniseKeeps, FinishQueueingKeeps, StartSendingKeeps,
     FinishSendingKeeps
<1>5. CASE \E n \in Nonces : SendTransaction(n)
  BY <1>5, SkipConfirmedKeeps, ReceiptKeeps, FinishSendingKeeps, SignAttemptKeeps,
     PublishAttemptKeeps, PublishFailsKeeps, RecordAttemptKeeps
  DEF SendTransaction
<1>6. CASE \E w \in Workers : Crash(w)
  BY <1>6, CrashKeeps
<1>7. CASE UNCHANGED vars
  <2>1. UNCHANGED << chain, mempool, underpaid, lag, due, queued, attempts,
                     tx_lock, worker,
                     sender >>
    BY <1>7 DEF vars, ethereum, table
  <2> QED
    BY <2>1, SameTypes, SameQueue, SameChain, SameWorkers, SameAttempts,
       SameSender, Together
<1> QED
  BY <1>1, <1>2, <1>3, <1>4, <1>5, <1>6, <1>7
  DEF Next, VerifierStep, AccountingStep, Workers

(* Every reachable state satisfies the invariant, whatever the tags, the   *)
(* confirmations, the bounds and the order in which the workers, the nodes *)
(* and the chain take their steps.                                         *)
THEOREM TxInvariant == Spec => []TxInv
  BY InitInv, NextKeeps, PTL DEF Spec

(* Every value is of its type.                                             *)
THEOREM TypeCorrect == Spec => []TypeOK
<1>1. TxInv => TypeOK
  BY DEF TxInv
<1> QED BY <1>1, TxInvariant, PTL

(* queue_transaction_by_owner leaves no gap between the nonces.            *)
THEOREM NoncesFollowAlways == Spec => []NoncesFollow
<1>1. TxInv => NoncesFollow
  BY DEF TxInv
<1> QED BY <1>1, TxInvariant, PTL

(* The tasks that look for their tag first queue it once.                  *)
THEOREM TagsQueuedOnce == Spec => []EachTagIsQueuedOnce
<1>1. TxInv => EachTagIsQueuedOnce
  BY DEF TxInv
<1> QED BY <1>1, TxInvariant, PTL

(* A checkpoint's or a slashing's row never collides with the verifier's.  *)
THEOREM AccountingNeverFails == Spec => []AccountingNeverCollides
<1>1. TxInv => AccountingNeverCollides
  BY DEF TxInv
<1> QED BY <1>1, TxInvariant, PTL
=============================================================================
