CONSTANTS
  Accounting = Accounting
  Verifier = Verifier
  Free = Free
  AccountingTags = {checkpoint}
  VerifierTags = {confirm}
  Confirmations = 1
  Mishaps = {"reorg"}
  MaxMishaps = 1
  MaxLag = 3
SPECIFICATION Spec
INVARIANTS ConfirmedIsDeep
