\* Every small program of the grammar, and those written for one hazard;
\* fixnums of six bits, four slots to a frame.
CONSTANTS
  FixMax = 31
  WordMax = 2047
  ImmMax = 7
  InlineSlots = 4
  MaxConsts = 8
  MaxPatches = 3
  MaxDepth = 8
  TailAware <- TailAwareNames
  Reserved <- ReservedNames
  Programs <- AllPrograms
SPECIFICATION TiersSpec
CHECK_DEADLOCK FALSE
INVARIANTS TiersAgree JitAgrees WellStacked CacheFresh
