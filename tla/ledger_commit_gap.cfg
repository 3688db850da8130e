CONSTANTS
  NumWallets = 2
  Handlers = {h1, h2}
  Free = Free
  Amounts = {1}
  MaxEon = 2
  MaxRequests = 2
  MaxDeposit = 1
SPECIFICATION Spec
SYMMETRY HandlerSymmetry
INVARIANTS Fence
