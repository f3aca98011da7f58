\* Every action that the state table has a column for, on any call.
CONSTANTS
  Peer = {p1}
  DaemonId = {d1, d2}
  Offered <- Tabulated
  Feature = {"edit", "attended", "transfer", "no account", "place fails"}
  Start = {"dialing", "incoming", "existing"}
  HasProfile = TRUE
  RingAccount = TRUE
  MaxQueue = 3
SPECIFICATION Spec
INVARIANT
  TypeOK
  ClockIsKept
  EndedCallIsLogged
  NothingLingers
\* A call that is over may stay as it is.
CHECK_DEADLOCK FALSE
