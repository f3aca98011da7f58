CONSTANTS
  ContactMethod = {c1, c2}
  Message = {m1, m2}
  NoMessage = NoMessage
  MaxSignals = 2
SPECIFICATION Spec
INVARIANT
  TypeOK
  CountersAgree
  SavedAgrees
  SendingIsTracked
  VerdictIsTrue
PROPERTY
  VerdictArrives
