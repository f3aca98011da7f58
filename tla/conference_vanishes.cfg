CONSTANTS
  CallId = {c1, c2}
  ConfId = {f1}
  Running = {c1, c2}
  Source = {}
  Endings = {"HUNGUP"}
  AutoAnswers = {"MANUAL"}
  EarlySignals = FALSE
  MaxCalls = 2
  MaxQueue = 3
SPECIFICATION Spec
INVARIANT
  ConferenceIsNotNull
\* The daemon may have nothing left to report.
CHECK_DEADLOCK FALSE
