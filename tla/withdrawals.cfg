CONSTANTS
  Balance = 3
  Amounts = {1, 2}
  MaxEon = 4
  MaxRequests = 2
SPECIFICATION FairSpec
CHECK_DEADLOCK FALSE
INVARIANTS WithdrawalsInv OnlySlashedIsPaidTwice OverdrawnIsSlashable ConfirmationsAddUp
PROPERTIES RequestsAreSettled
CONSTRAINT OneDisorder
