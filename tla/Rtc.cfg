CONSTANTS
  CHECK_MAX_SENDS = 3
  TCP_MAX_CONNS = 1
  TCP_RX_MAX = 12
  SHIFT = 100
  IcePlans <- AllIcePlans
  Bases = {"h1"}
  Peers <- TwoPeers
  TURN_MAX_SENDS = 2
  REFRESH_CAP = 2
  PERM_LIFE = 3
  CHAN_LIFE = 5
  LIFETIME = 4
  CHAN_MIN = 1
  CHAN_MAX = 2
  MaxTime = 3
  MaxFaults = 1
  MaxSends = 2
  SEQ = 16
  WINDOW = 3
  EKT_BURST = 1
  EKT_USES = 9
  R_SRTP_FILTER_ANY = {1, 2}
  StopOn <- NoStops
  MediaPlans <- AllMediaPlans
  COPIES = 2
SPECIFICATION Spec
INVARIANTS Established Delivered NoDangling Relayed ExactlyOnce Routed
CHECK_DEADLOCK FALSE
