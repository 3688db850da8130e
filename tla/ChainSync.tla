------------------------------ MODULE ChainSync ------------------------------
(***************************************************************************)
(* The hub's copy of the parent chain                                      *)
(* (contractor/tasks/synchronize_contract_state.py) and the task that      *)
(* needs it most, the checkpoint (ledger/tasks/create_checkpoint.py).      *)
(*                                                                         *)
(* A pass of the synchroniser asks workers for a window of blocks, which   *)
(* read the chain in any order, and takes their answers in ascending       *)
(* order.  A block that may still change is stored as it is seen (the      *)
(* running view); once it is Confirmations deep it is read again, its      *)
(* events are interpreted and the stored rows are overwritten, in one      *)
(* transaction (the confirmed view).  A hub that lags behind stores and    *)
(* confirms a block at once.  Passes time out, fail and crash; the chain   *)
(* is reorganised; tokens are registered at any moment.                    *)
(*                                                                         *)
(* What a block contains is the number of the reorganisation that brought  *)
(* it: two blocks of one height differ exactly if these numbers do.  The   *)
(* block 0 is the genesis block of the contract, stored by                 *)
(* populate_contract_parameters before the first pass and never confirmed. *)
(*                                                                         *)
(* OneBlockEarly, RunningFirst, LastFirst, RefuseEqual, KeepStored,        *)
(* SkipMissing and TrustLatest are faulty variants of the definitions they *)
(* precede: put in their place, they break the properties that guard       *)
(* against them.                                                           *)
(***************************************************************************)
EXTENDS Integers, Sequences, FiniteSets

CONSTANTS
  Tokens,             \* tokens that may be registered
  None,               \* nothing read, stored or registered
  Unread,             \* the zeros that stand for a failed read of a token
  Confirmations,      \* HUB_LQD_CONTRACT_CONFIRMATIONS
  Window,             \* the blocks of a pass, 11 in the code
  BlocksPerEon,
  BlocksForCreation,  \* the sub-block from which a checkpoint is due
  MaxReorgDepth,      \* how many blocks a reorganisation replaces at most
  QuietRegistration,  \* are tokens registered between passes only?
  MaxBlock,           \* bound: the height of the chain
  MaxReorgs,          \* bound: the number of reorganisations
  MaxFaults           \* bound: time-outs, crashes and failed reads

Blocks == 0 .. MaxBlock
Versions == 0 .. MaxReorgs

ASSUME ChainSyncAssumption ==
  /\ IsFiniteSet(Tokens)
  /\ Confirmations \in Nat
  /\ Window \in Nat \ {0}
  /\ BlocksPerEon \in Nat \ {0}
  /\ BlocksForCreation \in Nat
  /\ MaxReorgDepth \in 0 .. Confirmations
  /\ QuietRegistration \in BOOLEAN
  /\ MaxBlock \in Nat
  /\ MaxReorgs \in Nat
  /\ MaxFaults \in Nat
  /\ {None, Unread} \cap Versions = {}
  /\ None # Unread

VARIABLES
  chain,        \* the versions of the blocks after the genesis block
  reorgs,       \* the number of reorganisations so far
  stored,       \* the blocks with a ContractState
  confirmed,    \* those of them with confirmed = True
  basis,        \* [b]: the version its ContractState was read at
  ledger,       \* [b][t]: the version its ContractLedgerState was read at
  applied,      \* the blocks whose events were interpreted, with versions
  token_block,  \* [t]: Token.block, or None while it is not registered
  pc,           \* of the pass: none under way, taking results, or storing
                \* the ledger states of a running block
  pass,         \* the bounds the pass computed when it began
  next,         \* the first block of the window it has still to process
  fetched,      \* [b]: what the workers have read for the pass
  task,         \* the eon of the checkpoint being created, or None
  commitments,  \* [eon]: what the checkpoint took from the chain, or None
  faults        \* the number of faults so far, for the bound

chain_vars == << chain, reorgs >>
view_vars == << stored, confirmed, basis, ledger, applied >>
pass_vars == << pc, pass, next, fetched >>
checkpoint_vars == << task, commitments >>
vars == << chain_vars, view_vars, token_block, pass_vars, checkpoint_vars,
           faults >>

Smallest(S) == CHOOSE x \in S : \A y \in S : x <= y
Largest(S) == CHOOSE x \in S : \A y \in S : y <= x
Lesser(x, y) == IF x <= y THEN x ELSE y

Nothing == [t \in Tokens |-> None]
NotFetched == [logs |-> None, state |-> None, ledgers |-> Nothing]
Idle == [running_from |-> 0, running_until |-> 0, confirm_from |-> 0,
         update_until |-> 0]

-----------------------------------------------------------------------------
(* LocalViewInterface                                                      *)

latest_block == Largest(stored)

(* While nothing is confirmed, confirmed() falls back to genesis().        *)
confirmed_block == IF confirmed = {} THEN 0 ELSE Largest(confirmed)

eon_number(b) == b \div BlocksPerEon + 1
sub_block(b) == b % BlocksPerEon
Eons == 1 .. eon_number(MaxBlock)
LastBlock(e) == e * BlocksPerEon - 1

ConfirmedIn(e) == {b \in confirmed : eon_number(b) = e}

-----------------------------------------------------------------------------
(* The chain and its operator                                              *)

Mine ==
  /\ Len(chain) < MaxBlock
  /\ chain' = Append(chain, reorgs)
  /\ UNCHANGED << reorgs, view_vars, token_block, pass_vars,
                  checkpoint_vars, faults >>

(* The last blocks are replaced; a chain that takes over is not shorter.   *)
Reorganise ==
  /\ reorgs < MaxReorgs
  /\ reorgs' = reorgs + 1
  /\ \E depth \in 1 .. MaxReorgDepth :
       /\ depth <= Len(chain)
       /\ chain' = [b \in 1 .. Len(chain) |->
            IF b > Len(chain) - depth THEN reorgs + 1 ELSE chain[b]]
  /\ UNCHANGED << view_vars, token_block, pass_vars, checkpoint_vars,
                  faults >>

(* register_token gives a token the latest block known.                    *)
RegisterToken(t) ==
  /\ token_block[t] = None
  /\ QuietRegistration => pc = "idle"
  /\ token_block' = [token_block EXCEPT ![t] = latest_block]
  /\ UNCHANGED << chain_vars, view_vars, pass_vars, checkpoint_vars,
                  faults >>

-----------------------------------------------------------------------------
(* A pass of the synchroniser                                              *)

OneBlockEarly(b) ==
  /\ pass.confirm_from <= b
  /\ b <= pass.running_until - Confirmations + 1

ToConfirm(b) ==
  /\ pass.confirm_from <= b
  /\ b <= pass.running_until - Confirmations

ToStore(b) == pass.running_from <= b /\ b <= pass.running_until

(* The blocks of the window that the pass has not processed yet; a block   *)
(* that is stored but not deep enough to be confirmed is left out.         *)
Remaining == {b \in next .. pass.update_until - 1 : ToConfirm(b) \/ ToStore(b)}

RunningFirst(running_from, confirm_from) == running_from

UpdateFrom(running_from, confirm_from) == Lesser(running_from, confirm_from)

LastFirst == Largest(Remaining)

Current == Smallest(Remaining)

(* A pass begins when the chain shows a block beyond the latest.           *)
BeginPass ==
  /\ pc = "idle"
  /\ latest_block < Len(chain)
  /\ LET running_from == latest_block + 1
         confirm_from == confirmed_block + 1
         update_from == UpdateFrom(running_from, confirm_from)
     IN /\ pass' = [running_from |-> running_from,
                    running_until |-> Len(chain),
                    confirm_from |-> confirm_from,
                    update_until |-> Lesser(update_from + Window,
                                            Len(chain) + 1)]
        /\ next' = update_from
  /\ pc' = "take"
  /\ fetched' = [b \in Blocks |-> NotFetched]
  /\ UNCHANGED << chain_vars, view_vars, token_block, checkpoint_vars,
                  faults >>

(* fetch_confirmed_block reads the logs of a block first.                  *)
FetchLogs(b) ==
  /\ pc # "idle"
  /\ b \in Remaining
  /\ ToConfirm(b)
  /\ fetched[b].logs = None
  /\ fetched' = [fetched EXCEPT ![b].logs = chain[b]]
  /\ UNCHANGED << chain_vars, view_vars, token_block, pc, pass, next,
                  checkpoint_vars, faults >>

(* The tokens a block is asked for: those registered at an earlier block.  *)
TokensOf(b) == {t \in Tokens : token_block[t] # None /\ token_block[t] < b}

(* fetch_contract_state_at_block: where the variables of a token cannot be *)
(* read, zeros are recorded.                                               *)
FetchState(b) ==
  /\ pc # "idle"
  /\ b \in Remaining
  /\ ToConfirm(b) => fetched[b].logs # None
  /\ fetched[b].state = None
  /\ \E failing \in SUBSET TokensOf(b) :
       /\ Cardinality(failing) <= MaxFaults - faults
       /\ faults' = faults + Cardinality(failing)
       /\ fetched' = [fetched EXCEPT
            ![b].state = chain[b],
            ![b].ledgers = [t \in Tokens |->
               CASE t \in failing -> Unread
                 [] t \in TokensOf(b) \ failing -> chain[b]
                 [] t \notin TokensOf(b) -> None]]
  /\ UNCHANGED << chain_vars, view_vars, token_block, pc, pass, next,
                  checkpoint_vars >>

RefuseEqual(b, result, rows) ==
  /\ b \notin confirmed
  /\ Cardinality({t \in Tokens : rows[t] # None})
       < Cardinality({t \in Tokens : result.ledgers[t] # None})

(* ContractState.confirm refuses a block that is confirmed and one with    *)
(* fewer ledger states than are stored of it.                              *)
CanConfirm(b, result, rows) ==
  /\ b \notin confirmed
  /\ Cardinality({t \in Tokens : rows[t] # None})
       <= Cardinality({t \in Tokens : result.ledgers[t] # None})

KeepStored(rows, result) ==
  [t \in Tokens |-> IF rows[t] # None THEN rows[t] ELSE result.ledgers[t]]

SkipMissing(rows, result) ==
  [t \in Tokens |-> IF rows[t] # None THEN result.ledgers[t] ELSE None]

(* The ledger states of the confirmed block replace those that are stored. *)
Overwritten(rows, result) ==
  [t \in Tokens |->
     IF result.ledgers[t] # None THEN result.ledgers[t] ELSE rows[t]]

(* One transaction: the block is stored if it is new, its events are       *)
(* interpreted and it is confirmed.  If it cannot be confirmed, the        *)
(* exception undoes all of it and ends the pass.                           *)
TakeConfirmed ==
  /\ pc = "take"
  /\ Remaining # {}
  /\ LET b == Current
         result == fetched[b]
         rows == IF ToStore(b) THEN result.ledgers ELSE ledger[b]
     IN /\ ToConfirm(b)
        /\ result.state # None
        /\ IF CanConfirm(b, result, rows)
           THEN /\ stored' = stored \cup {b}
                /\ confirmed' = confirmed \cup {b}
                /\ basis' = [basis EXCEPT ![b] = result.state]
                /\ ledger' = [ledger EXCEPT ![b] = Overwritten(rows, result)]
                /\ applied' = Append(applied, << b, result.logs >>)
                /\ next' = b + 1
                /\ UNCHANGED << pc, pass, fetched >>
           ELSE /\ pc' = "idle"
                /\ pass' = Idle
                /\ next' = 0
                /\ fetched' = [x \in Blocks |-> NotFetched]
                /\ UNCHANGED view_vars
  /\ UNCHANGED << chain_vars, token_block, checkpoint_vars, faults >>

(* A block that may still change: its ContractState is saved first.        *)
TakeRunning ==
  /\ pc = "take"
  /\ Remaining # {}
  /\ LET b == Current
         result == fetched[b]
     IN /\ ~ ToConfirm(b)
        /\ result.state # None
        /\ stored' = stored \cup {b}
        /\ basis' = [basis EXCEPT ![b] = result.state]
  /\ pc' = "store"
  /\ UNCHANGED << chain_vars, confirmed, ledger, applied, token_block, pass,
                  next, fetched, checkpoint_vars, faults >>

(* Then its ledger states, each in a transaction of its own.               *)
Unsaved == {t \in Tokens : /\ fetched[Current].ledgers[t] # None
                           /\ ledger[Current][t] = None}

SaveLedgerState(t) ==
  /\ pc = "store"
  /\ t \in Unsaved
  /\ ledger' = [ledger EXCEPT ![Current][t] = fetched[Current].ledgers[t]]
  /\ UNCHANGED << chain_vars, stored, confirmed, basis, applied, token_block,
                  pass_vars, checkpoint_vars, faults >>

RunningStored ==
  /\ pc = "store"
  /\ Unsaved = {}
  /\ pc' = "take"
  /\ next' = Current + 1
  /\ UNCHANGED << chain_vars, view_vars, token_block, pass, fetched,
                  checkpoint_vars, faults >>

(* The results that were not taken are forgotten.                          *)
LeavePass ==
  /\ pc' = "idle"
  /\ pass' = Idle
  /\ next' = 0
  /\ fetched' = [b \in Blocks |-> NotFetched]
  /\ UNCHANGED << chain_vars, view_vars, token_block, checkpoint_vars >>

EndPass ==
  /\ pc = "take"
  /\ Remaining = {}
  /\ LeavePass
  /\ UNCHANGED faults

(* The answer for the next block does not come in time, is an error, or    *)
(* the worker dies: what it has committed stays.                           *)
AbandonPass ==
  /\ pc # "idle"
  /\ faults < MaxFaults
  /\ faults' = faults + 1
  /\ LeavePass

-----------------------------------------------------------------------------
(* The checkpoint                                                          *)

TrustLatest == eon_number(latest_block)

(* The eon of the confirmed block has to catch up with the latest.         *)
SettledEon == eon_number(confirmed_block)

BeginCheckpoint ==
  /\ task = None
  /\ LET e == eon_number(latest_block)
     IN /\ SettledEon >= e
        /\ sub_block(latest_block) >= BlocksForCreation
        /\ commitments[e] = None
        /\ task' = e
  /\ UNCHANGED << chain_vars, view_vars, token_block, pass_vars, commitments,
                  faults >>

(* Of the eon before, the last block has to be confirmed, with a ledger    *)
(* state of every token: where one is missing, the query raises.           *)
LastEonIsUsable(e) ==
  /\ ConfirmedIn(e - 1) # {}
  /\ LET last_eon == Largest(ConfirmedIn(e - 1))
     IN /\ sub_block(last_eon) = BlocksPerEon - 1
        /\ \A t \in Tokens : token_block[t] # None => ledger[last_eon][t] # None

CreateCheckpoint ==
  /\ task # None
  /\ task > 1 => LastEonIsUsable(task)
  /\ commitments' = [commitments EXCEPT ![task] =
       IF task > 1
       THEN LET last_eon == Largest(ConfirmedIn(task - 1))
            IN [basis |-> basis[last_eon], funds |-> ledger[last_eon]]
       ELSE [basis |-> 0, funds |-> Nothing]]
  /\ task' = None
  /\ UNCHANGED << chain_vars, view_vars, token_block, pass_vars, faults >>

RefuseCheckpoint ==
  /\ task # None
  /\ task > 1
  /\ ~ LastEonIsUsable(task)
  /\ task' = None
  /\ UNCHANGED << chain_vars, view_vars, token_block, pass_vars, commitments,
                  faults >>

-----------------------------------------------------------------------------
Init ==
  /\ chain = << >>
  /\ reorgs = 0
  /\ stored = {0}
  /\ confirmed = {}
  /\ basis = [b \in Blocks |-> IF b = 0 THEN 0 ELSE None]
  /\ ledger = [b \in Blocks |-> Nothing]
  /\ applied = << >>
  /\ token_block = Nothing
  /\ pc = "idle"
  /\ pass = Idle
  /\ next = 0
  /\ fetched = [b \in Blocks |-> NotFetched]
  /\ task = None
  /\ commitments = [e \in Eons |-> None]
  /\ faults = 0

Workers == \E b \in Blocks : FetchLogs(b) \/ FetchState(b)

Synchroniser ==
  \/ BeginPass
  \/ TakeConfirmed
  \/ TakeRunning
  \/ \E t \in Tokens : SaveLedgerState(t)
  \/ RunningStored
  \/ EndPass

Checkpoint == BeginCheckpoint \/ CreateCheckpoint \/ RefuseCheckpoint

Next ==
  \/ Mine
  \/ Reorganise
  \/ \E t \in Tokens : RegisterToken(t)
  \/ Workers
  \/ Synchroniser
  \/ AbandonPass
  \/ Checkpoint

Spec == Init /\ [][Next]_vars

(* heartbeat_verifier starts a pass again and again, and a worker that     *)
(* does not fail gets on with it.                                          *)
FairSpec ==
  /\ Spec
  /\ WF_vars(Synchroniser)
  /\ WF_vars(Workers)

-----------------------------------------------------------------------------
(* Properties                                                              *)

Rows == [Tokens -> Versions \cup {None, Unread}]

(* The type of the state.                                                  *)
TypeOK ==
  /\ chain \in Seq(Versions) /\ Len(chain) <= MaxBlock
  /\ reorgs \in Versions
  /\ stored \subseteq Blocks /\ confirmed \subseteq Blocks
  /\ basis \in [Blocks -> Versions \cup {None}]
  /\ ledger \in [Blocks -> Rows]
  /\ applied \in Seq(Blocks \X Versions)
  /\ token_block \in [Tokens -> Blocks \cup {None}]
  /\ pc \in {"idle", "take", "store"}
  /\ pass \in [running_from : Nat, running_until : Nat, confirm_from : Nat,
               update_until : Nat]
  /\ next \in Nat
  /\ fetched \in [Blocks -> [logs : Versions \cup {None},
                            state : Versions \cup {None}, ledgers : Rows]]
  /\ task \in Eons \cup {None}
  /\ commitments \in
       [Eons -> [basis : Versions \cup {None}, funds : Rows] \cup {None}]
  /\ faults \in 0 .. MaxFaults

(* Neither view has a gap, whatever failed and whatever order the workers  *)
(* answered in: a pass only ever looks after the latest and the confirmed  *)
(* block, so a block that is missed once is missed for good.               *)
NoGaps ==
  /\ stored = 0 .. latest_block
  /\ confirmed = 1 .. confirmed_block
  /\ confirmed_block <= latest_block

(* The events of every confirmed block, and of no other, were interpreted, *)
(* once and in the order of the chain: a deposit is neither lost nor       *)
(* credited twice when a pass dies between two blocks.                     *)
EventsExactlyOnce ==
  /\ confirmed = 1 .. Len(applied)
  /\ \A i \in 1 .. Len(applied) : applied[i] = << i, chain[i] >>

(* The rows of a confirmed block are those of the block that stays on the  *)
(* chain, although other rows may have been stored before a                *)
(* reorganisation; only a failed read leaves zeros.                        *)
ConfirmedMatchesChain ==
  \A b \in confirmed :
    /\ basis[b] = chain[b]
    /\ \A t \in Tokens : ledger[b][t] \in {None, Unread, chain[b]}

(* The confirmed view is never further behind the latest block than the    *)
(* confirmations ask for.  Otherwise no pass would confirm the rest: a     *)
(* pass ends at once while the chain shows no block beyond the latest.     *)
ConfirmationKeepsUp == latest_block - Confirmations <= confirmed_block

(* No block is ever refused by ContractState.confirm: it would be refused  *)
(* by every later pass too, and nothing after it would be confirmed.       *)
ConfirmNeverRefuses ==
  (pc = "take" /\ Remaining # {}) =>
    LET b == Current
        rows == IF ToStore(b) THEN fetched[b].ledgers ELSE ledger[b]
    IN (ToConfirm(b) /\ fetched[b].state # None) => CanConfirm(b, fetched[b], rows)

(* A confirmed block has a ledger state of every token registered at an    *)
(* earlier block, also if a pass died while it was stored.  It takes       *)
(* registrations between passes: one that comes between the fetch of a     *)
(* block and its confirmation in the same pass is missed for good.         *)
LedgerStatesComplete ==
  \A b \in confirmed, t \in Tokens :
    (token_block[t] # None /\ token_block[t] < b) => ledger[b][t] # None

(* A checkpoint is computed from the last block of the eon before, as it   *)
(* stays on the chain.                                                     *)
CheckpointUsesFinalBlock ==
  \A e \in Eons \ {1} : commitments[e] # None =>
    LET b == LastBlock(e - 1)
    IN /\ b \in DOMAIN chain
       /\ commitments[e].basis = chain[b]
       /\ \A t \in Tokens : commitments[e].funds[t] \in {None, Unread, chain[b]}

(* When the checkpoint of an eon is due it is created, unless a token was  *)
(* registered after the last block of the eon before: that alone, and      *)
(* until the next eon, makes create_checkpoint fail.                       *)
RefusedOnlyForLateToken ==
  [][(task # None /\ task' = None /\ commitments' = commitments) =>
       \E t \in Tokens : token_block[t] # None
                        /\ token_block[t] >= LastBlock(task - 1)]_vars

(* The synchroniser implements ChainView: the blocks that are Confirmations *)
(* deep are final, and what it applies are their events.                    *)
View == INSTANCE ChainView WITH
  Version <- Versions,
  final <- SubSeq(chain, 1, Len(chain) - Confirmations),
  applied <- [i \in 1 .. Len(applied) |-> applied[i][2]]

(* Reorganisations, failing passes and the batches of the synchroniser are *)
(* invisible to who reads the confirmed view (confirmed blocks and the     *)
(* rows of their events).                                                  *)
ImplementsView == View!Spec

(* Every block that is deep enough is confirmed in the end, its events     *)
(* interpreted.                                                            *)
EveryFinalBlockIsApplied ==
  \A n \in 1 .. MaxBlock :
    (Len(chain) - Confirmations >= n) ~> (Len(applied) >= n)

(* The running view catches up with the chain, provided that the window is *)
(* no smaller than the number of confirmations.                            *)
RunningViewCatchesUp ==
  \A n \in 1 .. MaxBlock : (Len(chain) >= n) ~> (n \in stored)
=============================================================================
