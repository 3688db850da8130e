\* a worker dies, a node forgets a transaction, miners want a higher price or a
\* block is undone
CONSTANTS
  Accounting = Accounting
  Verifier = Verifier
  Free = Free
  AccountingTags = {checkpoint}
  VerifierTags = {confirm}
  Confirmations = 1
  Mishaps = {"drop", "market", "reorg", "crash"}
  MaxMishaps = 3
  MaxLag = 2
SPECIFICATION FairSpec
INVARIANTS TxInv EachTagIsQueuedOnce
PROPERTIES EveryRequestIsQueued MinedUnlessStuck
