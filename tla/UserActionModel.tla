-------------------------- MODULE UserActionModel --------------------------
(***************************************************************************)
(* Which actions the user interface offers on a call: the rows of          *)
(* UserActionModel that end in Call::performAction, and what execute()     *)
(* performs for each of them.                                              *)
(***************************************************************************)
EXTENDS CallStates

\* The UserActionModel actions that drive the state machine of a call.
CallAction == {"ACCEPT", "HOLD", "SERVER_TRANSFER", "RECORD", "HANGUP"}

\* Account::RegistrationState.
RegistrationState == {"READY", "UNREGISTERED", "INITIALIZING", "TRYING",
                      "ERROR"}

\* availableActionMap: the states of the call in which an action is available.
availableActionMap ==
  [u \in CallAction |->
     CASE u = "ACCEPT"          -> {"INCOMING", "DIALING"}
       [] u = "HOLD"            -> {"CURRENT", "HOLD", "CONFERENCE"}
       [] u = "SERVER_TRANSFER" -> {"CURRENT", "HOLD"}
       [] u = "RECORD"          -> Recordable \ {"INCOMING"}
       [] u = "HANGUP"          -> State \ {"OVER", "ABORTED"}]

\* availableAccountActionMap: the states of the account in which it is.
availableAccountActionMap ==
  [u \in CallAction |->
     IF u \in {"RECORD", "HANGUP"} THEN RegistrationState \ {"INITIALIZING"}
                                   ELSE {"READY"}]

\* execute(), through UserActions: the Call::Action each of them performs.
execute == [ACCEPT |-> "ACCEPT", HOLD |-> "HOLD", RECORD |-> "RECORD_AUDIO",
            SERVER_TRANSFER |-> "TRANSFER", HANGUP |-> "REFUSE"]

\* The Call::Actions offered on a call in state s when its account is in
\* registration state r.
OfferedWith(s, r) ==
  {execute[u] : u \in {v \in CallAction : /\ s \in availableActionMap[v]
                                          /\ r \in availableAccountActionMap[v]}}

\* The most permissive case, a registered account.
OfferedByUI == [s \in State |-> OfferedWith(s, "READY")]
=============================================================================
