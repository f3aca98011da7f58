CONSTANTS
  AccountId = {a1, a2}
  Detail = {"plain", "bad"}
  Incomplete = {"bad"}
  Template = "plain"
  Rewritten = "plain"
  Operations <- Edits
  MaxAccounts = 2
  MaxQueue = 2
SPECIFICATION Spec
INVARIANT
  TypeOK
  Synchronized
  ListMatchesDaemon
  OneRow
PROPERTY
  EditsSurvive
