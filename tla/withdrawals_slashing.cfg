CONSTANTS
  Balance = 3
  Amounts = {1, 2}
  MaxEon = 4
  MaxRequests = 4
SPECIFICATION Spec
CHECK_DEADLOCK FALSE
INVARIANTS NothingIsPaidTwice
CONSTRAINT OnlySlashingIsDisturbed
