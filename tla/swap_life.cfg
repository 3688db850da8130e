CONSTANTS
  Orders = {o1}
  Size = 2
  ValidEons = 3
  StaleEons = {TRUE, FALSE}
  MaxEon = 2
SPECIFICATION Spec
CHECK_DEADLOCK FALSE
INVARIANTS LifeInv NothingComesAfter
PROPERTIES OutcomeIsFinal FrozenIsNotMatched
