----------------------------- MODULE CallStates -----------------------------
(***************************************************************************)
(* The transition tables of a call, src/src/call.cpp:87-236.               *)
(*                                                                         *)
(* CallPrivate keeps four matrices indexed by the current state: for a     *)
(* user action and for a daemon state, the state the call goes to and the  *)
(* member function that is run afterwards.  Each table is given here as a  *)
(* function; the entries that all the rows of a group share are factored   *)
(* out, so that the exceptions are what is read.                           *)
(***************************************************************************)


\* Call::State.
State == {"NEW", "INCOMING", "RINGING", "CURRENT", "DIALING", "HOLD",
          "FAILURE", "BUSY", "TRANSFERRED", "TRANSF_HOLD", "OVER", "ERROR",
          "CONFERENCE", "CONFERENCE_HOLD", "INITIALIZATION", "ABORTED",
          "CONNECTED"}

\* Call::Action.
Action == {"ACCEPT", "REFUSE", "TRANSFER", "HOLD", "RECORD_AUDIO",
           "RECORD_VIDEO", "RECORD_TEXT"}

\* CallPrivate::DaemonState.
DaemonState == {"RINGING", "CONNECTING", "CURRENT", "BUSY", "HOLD",
                "HUNG_UP", "FAILURE", "OVER", "INACTIVE"}

\* Call::LifeCycleState.
LifeCycleState == {"CREATION", "INITIALIZATION", "PROGRESS", "FINISHED"}

\* The names of the member functions the two function tables point to.
Function == {"nothing", "error", "failure", "accept", "refuse",
             "acceptTransf", "acceptHold", "hangUp", "remove", "abort",
             "cancel", "hold", "call", "transfer", "unhold",
             "toggleAudioRecord", "toggleVideoRecord", "start", "startStop",
             "stop", "startWeird", "warning"}

\* The life cycle ("meta") state of each state.
metaStateMap ==
  [s \in State |->
     CASE s \in {"NEW", "DIALING"} -> "CREATION"
       [] s \in {"INCOMING", "RINGING", "INITIALIZATION", "CONNECTED"}
            -> "INITIALIZATION"
       [] s \in {"CURRENT", "HOLD", "TRANSFERRED", "TRANSF_HOLD",
                 "CONFERENCE", "CONFERENCE_HOLD"} -> "PROGRESS"
       [] s \in {"FAILURE", "BUSY", "OVER", "ERROR", "ABORTED"}
            -> "FINISHED"]

-----------------------------------------------------------------------------
(* What the user does.                                                     *)

\* A row of actionPerformedStateMap with five explicit cells.  The matrix has
\* seven columns: the last two are left out of every initializer, so they are
\* zero-initialized, and State 0 is NEW.
ActionRow(accept, refuse, transfer, hold, record) ==
  [a \in Action |->
     CASE a = "ACCEPT"       -> accept
       [] a = "REFUSE"       -> refuse
       [] a = "TRANSFER"     -> transfer
       [] a = "HOLD"         -> hold
       [] a = "RECORD_AUDIO" -> record
       [] a \in {"RECORD_VIDEO", "RECORD_TEXT"} -> "NEW"]

\* actionPerformedStateMap: the state an action leads to.
actionPerformedStateMap ==
  [s \in State |->
    CASE s = "NEW"
           -> ActionRow("DIALING", "ABORTED", "ERROR", "ERROR", "ERROR")
      [] s = "INCOMING"  -> ActionRow(s, s, "ERROR", s, s)
      [] s = "RINGING"   -> ActionRow("ERROR", s, "ERROR", "ERROR", s)
      [] s = "CURRENT"   -> ActionRow("ERROR", s, "TRANSFERRED", s, s)
      [] s = "DIALING"
           -> ActionRow("INITIALIZATION", "ABORTED", "ERROR", "ERROR", "ERROR")
      [] s = "HOLD"      -> ActionRow("ERROR", s, "TRANSF_HOLD", s, s)
      [] s \in {"FAILURE", "CONNECTED"}
           -> ActionRow("ERROR", "OVER", "ERROR", "ERROR", "ERROR")
      [] s = "BUSY"      -> ActionRow("ERROR", s, "ERROR", "ERROR", "ERROR")
      [] s = "TRANSFERRED" -> ActionRow(s, s, "CURRENT", s, s)
      [] s = "TRANSF_HOLD" -> ActionRow(s, s, "HOLD", s, s)
      [] s \in {"OVER", "ERROR", "ABORTED"}
           -> ActionRow("ERROR", "ERROR", "ERROR", "ERROR", "ERROR")
      [] s = "CONFERENCE"
           -> ActionRow("ERROR", "CURRENT", "TRANSFERRED", "CURRENT", "CURRENT")
      [] s = "CONFERENCE_HOLD"
           -> ActionRow("ERROR", "HOLD", "TRANSF_HOLD", "HOLD", "HOLD")
      [] s = "INITIALIZATION"
           -> ActionRow(s, "OVER", "ERROR", "ERROR", "ERROR")]

\* The states from which a recording can be toggled.
Recordable == {"INCOMING", "RINGING", "CURRENT", "HOLD", "TRANSFERRED",
               "TRANSF_HOLD", "CONFERENCE", "CONFERENCE_HOLD"}

\* actionPerformedFunctionMap, one operator per column.
OnAccept(s) ==
  CASE s = "INCOMING"                           -> "accept"
    [] s \in {"DIALING", "INITIALIZATION"}      -> "call"
    [] s \in {"TRANSFERRED", "TRANSF_HOLD"}     -> "transfer"
    [] OTHER                                    -> "nothing"

OnRefuse(s) ==
  CASE s \in {"NEW", "DIALING"}                 -> "abort"
    [] s = "INCOMING"                           -> "refuse"
    [] s \in {"FAILURE", "ERROR"}               -> "remove"
    [] s = "OVER"                               -> "nothing"
    [] s \in {"INITIALIZATION", "ABORTED", "CONNECTED"} -> "cancel"
    [] OTHER                                    -> "hangUp"

OnTransfer(s) ==
  CASE s = "INCOMING"                           -> "acceptTransf"
    [] s \in {"TRANSFERRED", "TRANSF_HOLD"}     -> "transfer"
    [] OTHER                                    -> "nothing"

OnHold(s) ==
  CASE s = "INCOMING"                           -> "acceptHold"
    [] s \in {"CURRENT", "TRANSFERRED", "CONFERENCE"}        -> "hold"
    [] s \in {"HOLD", "TRANSF_HOLD", "CONFERENCE_HOLD"}      -> "unhold"
    [] OTHER                                    -> "nothing"

\* The function an action runs once the state has been changed.
actionPerformedFunctionMap ==
  [s \in State |-> [a \in Action |->
    CASE a = "ACCEPT"   -> OnAccept(s)
      [] a = "REFUSE"   -> OnRefuse(s)
      [] a = "TRANSFER" -> OnTransfer(s)
      [] a = "HOLD"     -> OnHold(s)
      [] a = "RECORD_AUDIO" /\ s \in Recordable -> "toggleAudioRecord"
      [] a = "RECORD_VIDEO" /\ s \in Recordable -> "toggleVideoRecord"
      [] OTHER          -> "nothing"]]

-----------------------------------------------------------------------------
(* What the daemon reports.                                                *)

\* The cells shared by all the states in which a call can still evolve.
DaemonRow ==
  [d \in DaemonState |->
    CASE d \in {"CURRENT", "BUSY", "HOLD", "FAILURE", "RINGING"} -> d
      [] d \in {"HUNG_UP", "OVER"}                    -> "OVER"
      [] d \in {"CONNECTING", "INACTIVE"}             -> "ERROR"]

\* stateChangedStateMap: the state a daemon event leads to.
stateChangedStateMap ==
  [s \in State |->
    CASE s = "NEW" -> [[d \in DaemonState |-> "ERROR"]
                         EXCEPT !["INACTIVE"] = "INITIALIZATION"]
      [] s = "INCOMING" -> [DaemonRow EXCEPT !["RINGING"]  = s,
                                             !["INACTIVE"] = s]
      [] s = "RINGING"  -> [DaemonRow EXCEPT !["CONNECTING"] = "CONNECTED",
                                             !["INACTIVE"]   = s]
      [] s = "DIALING"  -> DaemonRow
      [] s \in {"CURRENT", "HOLD"} -> [DaemonRow EXCEPT !["RINGING"] = s]
      [] s = "FAILURE"  -> [DaemonRow EXCEPT !["RINGING"] = s, !["HOLD"] = s,
                                             !["CURRENT"] = s, !["OVER"] = s]
      [] s = "BUSY"     -> [DaemonRow EXCEPT !["RINGING"] = s, !["HOLD"] = s]
      [] s \in {"TRANSFERRED", "TRANSF_HOLD"}
                        -> [DaemonRow EXCEPT !["RINGING"] = s,
                                             !["CURRENT"] = "TRANSFERRED",
                                             !["HOLD"]    = "TRANSF_HOLD"]
      [] s = "OVER"     -> [[d \in DaemonState |-> "OVER"]
                              EXCEPT !["INACTIVE"] = "ERROR"]
      [] s \in {"ERROR", "ABORTED"} -> [d \in DaemonState |-> "ERROR"]
      [] s = "CONFERENCE"      -> [DaemonRow EXCEPT !["RINGING"] = "CURRENT"]
      [] s = "CONFERENCE_HOLD" -> [DaemonRow EXCEPT !["RINGING"] = "HOLD"]
      [] s \in {"INITIALIZATION", "CONNECTED"}
                        -> [DaemonRow EXCEPT !["CONNECTING"] = s,
                                             !["INACTIVE"]   = s]]

\* stateChangedFunctionMap, one operator per column.  No function is run for
\* RINGING, CONNECTING and INACTIVE, but for a call that was given up.
GivenUp == {"ERROR", "ABORTED"}
Placing == {"DIALING", "INITIALIZATION", "CONNECTED"}

OnRinging(s) == IF s \in GivenUp THEN "error" ELSE "nothing"

OnCurrent(s) ==
  CASE s \in {"INCOMING", "RINGING"}                  -> "start"
    [] s \in Placing \cup {"FAILURE", "OVER"}         -> "warning"
    [] s \in GivenUp                                  -> "error"
    [] OTHER                                          -> "nothing"

OnBusy(s) ==
  CASE s = "INCOMING"                                 -> "startWeird"
    [] s = "RINGING"                                  -> "failure"
    [] s \in {"NEW", "BUSY"}                          -> "nothing"
    [] s \in GivenUp                                  -> "error"
    [] OTHER                                          -> "warning"

OnHeld(s) ==
  CASE s = "INCOMING"                                 -> "startWeird"
    [] s = "RINGING"                                  -> "start"
    [] s \in Placing \cup {"FAILURE", "BUSY", "OVER"} -> "warning"
    [] s \in GivenUp                                  -> "error"
    [] OTHER                                          -> "nothing"

OnHungUp(s) ==
  CASE s \in {"INCOMING", "RINGING"}                  -> "startStop"
    [] s = "NEW"                                      -> "nothing"
    [] s = "ABORTED"                                  -> "error"
    [] OTHER                                          -> "stop"

OnFailure(s) ==
  CASE s \in {"INCOMING", "RINGING"}                  -> "failure"
    [] s \in Placing \cup {"OVER"}                    -> "warning"
    [] s \in GivenUp                                  -> "error"
    [] OTHER                                          -> "nothing"

OnOver(s) ==
  CASE s \in {"INCOMING", "RINGING"}                  -> "failure"
    [] s \in {"NEW", "FAILURE", "OVER"}               -> "nothing"
    [] s \in GivenUp                                  -> "error"
    [] OTHER                                          -> "stop"

\* The function a daemon event runs, indexed by the state the call was in
\* before the event.
stateChangedFunctionMap ==
  [s \in State |-> [d \in DaemonState |->
    CASE d \in {"RINGING", "CONNECTING"} -> OnRinging(s)
      [] d = "CURRENT"  -> OnCurrent(s)
      [] d = "BUSY"     -> OnBusy(s)
      [] d = "HOLD"     -> OnHeld(s)
      [] d = "HUNG_UP"  -> OnHungUp(s)
      [] d = "FAILURE"  -> OnFailure(s)
      [] d = "OVER"     -> OnOver(s)
      [] d = "INACTIVE" -> "nothing"]]

\* metaStateTransitionValidationMap, read the way stateChanged() reads it: may a
\* daemon event take a call of life cycle state l to the state s?
metaStateTransitionValidationMap ==
  [s \in State |->
    CASE s \in {"NEW", "RINGING", "DIALING", "INITIALIZATION", "CONNECTED"}
           -> {"CREATION", "INITIALIZATION"}
      [] s \in {"INCOMING", "CONFERENCE", "CONFERENCE_HOLD"}
           -> {"INITIALIZATION"}
      [] s \in {"CURRENT", "HOLD"}    -> {"INITIALIZATION", "PROGRESS"}
      [] s \in {"FAILURE", "OVER"}
           -> {"INITIALIZATION", "PROGRESS", "FINISHED"}
      [] s = "BUSY"                   -> {"INITIALIZATION", "FINISHED"}
      [] s \in {"TRANSFERRED", "TRANSF_HOLD"} -> {"PROGRESS"}
      [] s = "ERROR"                  -> LifeCycleState
      [] s = "ABORTED" -> {"CREATION", "INITIALIZATION", "FINISHED"}]
=============================================================================
