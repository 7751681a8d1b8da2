SPECIFICATION SplitSpec
CONSTANTS
  Configs <- AllConfigs
  MaxCalls = 0
INVARIANT NoSpuriousFailure
CHECK_DEADLOCK FALSE
