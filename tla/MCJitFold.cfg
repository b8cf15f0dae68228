\* A self call added to a self call, tested with <=: the kernel folds the
\* two base cases into the wrong answers.
CONSTANTS
  FixMax = 31
  WordMax = 2047
  ImmMax = 7
  InlineSlots = 4
  MaxConsts = 8
  MaxPatches = 3
  MaxDepth = 8
  TailAware <- TailAwareNames
  Reserved <- ReservedNames
  Programs <- FibonacciAtMost
SPECIFICATION TiersSpec
INVARIANT JitAgrees
CHECK_DEADLOCK FALSE
