SPECIFICATION Spec
CONSTANTS
  Thread = {t1, t2}
  MaxDepth = 2
  MaxValue = 2
INVARIANTS BorrowIsExact CallsAreAtomic
