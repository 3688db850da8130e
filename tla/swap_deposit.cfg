\* a deposit into the wallet of an order, which confirm_swaps asserts there is not
CONSTANTS
  Orders = {o1, o2}
  Size = 1
  ValidEons = 2
  StaleEons = {FALSE}
  MaxEon = 1
SPECIFICATION Spec
SYMMETRY OrderSymmetry
CHECK_DEADLOCK FALSE
INVARIANTS StartingBalanceAsserted
