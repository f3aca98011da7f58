\* What the user interface offers, the keyboard and the transfers.
CONSTANTS
  Peer = {p1, p2}
  DaemonId = {d1}
  Offered <- OfferedByUI
  Feature = {"edit", "attended", "transfer", "no account", "place fails"}
  Start = {"dialing", "incoming"}
  HasProfile = TRUE
  RingAccount = TRUE
  MaxQueue = 3
SPECIFICATION Spec
INVARIANT
  Registered
  AudioFollowsProgress
  TransitionIsExpected
PROPERTY
  ImplementsLifeCycle
\* A call that is over may stay as it is.
CHECK_DEADLOCK FALSE
