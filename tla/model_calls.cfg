CONSTANTS
  CallId = {c1, c2}
  ConfId = {}
  Running = {}
  Source = {"dialed", "received", "foreign"}
  Endings = {"HUNGUP", "FAILURE"}
  AutoAnswers = {"MANUAL", "DO_NOT_DISTURB"}
  EarlySignals = FALSE
  MaxCalls = 2
  MaxQueue = 2
SPECIFICATION Spec
INVARIANT
  EstablishedIsListed
  OneObject
  EndedCallLeaves
  MissedCallStays
\* The daemon may have nothing left to report.
CHECK_DEADLOCK FALSE
