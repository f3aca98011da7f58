------------------------------- MODULE MCCall -------------------------------
(***************************************************************************)
(* Instances of Call for TLC.                                              *)
(***************************************************************************)
EXTENDS CallProperties, UserActionModel

\* performAction() is public: every action in every state, but the two for which
\* actionPerformedStateMap has no column.
Tabulated == [s \in State |-> Action \ {"RECORD_VIDEO", "RECORD_TEXT"}]

\* What the theorems on a call assume of the actions offered is true of those of
\* the interface.
ASSUME InterfaceAssumption ==
  /\ \A s \in State : OfferedByUI[s] \cap {"RECORD_VIDEO", "RECORD_TEXT"} = {}
  /\ "ACCEPT" \notin OfferedByUI["INITIALIZATION"]
  /\ "TRANSFER" \notin OfferedByUI["TRANSFERRED"] \cup OfferedByUI["TRANSF_HOLD"]
  /\ \A s \in State : \A a \in OfferedByUI[s] :
       metaStateMap[actionPerformedStateMap[s][a]] = "FINISHED" =>
         \/ metaStateMap[s] \in {"CREATION", "FINISHED"}
         \/ actionPerformedFunctionMap[s][a] = "cancel"
=============================================================================
