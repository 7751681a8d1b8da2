SPECIFICATION Spec
CONSTANTS
  Which = {"tls", "dtls", "http", "udp", "resolve", "tickets"}
  Configs <- AllConfigs
  MaxCalls = 3
  DtlsPlans <- AllDtlsPlans
  RTX_TRIES = 3
  DEFER_MAX = 8
  REASM_SLOTS = 8
  ACK_MAX = 16
  SPAN = 8
  WINDOW = 6
  KEYS_MAX = 2
  STRIKE_MAX = 2
  HelloIds = {1, 2, 3}
  Lifetimes = {1, 2}
  MaxTime = 2
  MaxKeys = 3
  MaxStruck = 4
  HttpPlans <- AllHttpPlans
INVARIANTS Agreement Authenticated NoSpuriousFailure InOrderOnce Completes OwnResponse PoolSound Served ReplayRefused
CHECK_DEADLOCK FALSE
