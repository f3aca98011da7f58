\* What the user interface offers, on a call that was dialed or received.
\* Everything is checked under the fairness of the event loop and of the daemon.
CONSTANTS
  Peer = {p1}
  DaemonId = {d1, d2}
  Offered <- OfferedByUI
  Feature = {"no account", "place fails"}
  Start = {"dialing", "incoming"}
  HasProfile = TRUE
  RingAccount = TRUE
  MaxQueue = 3
SPECIFICATION LiveSpec
PROPERTY
  CatchesUp
INVARIANT
  NoForgottenDaemonCall
  PlacedOnce
  HoldAgrees
\* A call that is over may stay as it is.
CHECK_DEADLOCK FALSE
