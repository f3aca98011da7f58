CONSTANTS
  i1 = i1
  i2 = i2
  m1 = m1
  m2 = m2
  m3 = m3
  c1 = c1
  c2 = c2
  c3 = c3
  Individual <- MCIndividual
  ContactMethod <- MCContactMethod
  IndividualOf <- MCIndividualOf
  Call <- MCCall
  PeerOf <- MCPeerOf
  AutoAnswered <- MCAutoAnswered
  None = None
SPECIFICATION Spec
INVARIANT
  TypeOK
  OwnContactMethod
PROPERTY
  
  TimelineFollows
CHECK_DEADLOCK FALSE
