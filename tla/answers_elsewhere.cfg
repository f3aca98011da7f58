CONSTANTS
  x = x
  bob = bob
  h = h
  o = o
  A = A
  B = B
  None = None
  User <- MCUser
  Host <- MCHost
  Length <- MCLength
  Account = {A, B}
  HostOf <- MCHostOf
  NameOf <- MCNameOf
  RingAccount = {}
  Request <- SipRequest
  MaxNumbers = 6
SPECIFICATION Spec
INVARIANT
  SameDestination
\* The model ends where deleted data is used.
CHECK_DEADLOCK FALSE
