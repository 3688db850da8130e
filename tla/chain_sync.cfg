CONSTANTS
  Tokens = {t1}
  None = None
  Unread = Unread
  Confirmations = 2
  Window = 3
  BlocksPerEon = 2
  BlocksForCreation = 0
  MaxReorgDepth = 2
  QuietRegistration = TRUE
  MaxBlock = 4
  MaxReorgs = 1
  MaxFaults = 1
SPECIFICATION FairSpec
CHECK_DEADLOCK FALSE
INVARIANTS NoGaps ConfirmationKeepsUp LedgerStatesComplete CheckpointUsesFinalBlock
PROPERTIES RefusedOnlyForLateToken ImplementsView EveryFinalBlockIsApplied RunningViewCatchesUp
