\* three orders in any order, four in the order of their stamps over any runs,
\* four or five that one run takes (Bounds), some of them of one millisecond;
\* the slack lies among the amounts
CONSTANTS
  t1 = t1
  t2 = t2
  nobook = nobook
  Tokens = {t1, t2}
  NoBook = nobook
  NumSwaps = 5
  Millisecond <- Stamps
  Amounts = {1, 2, 5}
  Slack = 3
SYMMETRY TokenSymmetry
CONSTRAINT Bounds
SPECIFICATION Spec
INVARIANTS SwapInv WithinLimits BooksAgree MatchAssertion NoCrossedBook
