CONSTANTS
  NumWallets = 2
  Handlers = {h1, h2}
  Free = Free
  Amounts = {1, 2}
  MaxEon = 3
  MaxRequests = 2
  MaxDeposit = 1
SPECIFICATION FairSpec
INVARIANTS LedgerInv SpendingsAddUp CheckpointConservesFunds OnlyTheGapLeaks OverspentByRaceOnly
PROPERTIES TouchedEonIsClosed EveryEonIsCheckpointed RequestsAreAnswered
