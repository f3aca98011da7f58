--------------------------- MODULE MessageStates ---------------------------
(***************************************************************************)
(* The life of a text message, src/src/media/mimemessage.cpp:70-120: where *)
(* an action takes an outgoing and an incoming message, and which action a *)
(* status of the daemon stands for.                                        *)
(***************************************************************************)

\* MimeMessage::State.
Status == {"UNKNOWN", "SENDING", "SENT", "READ", "FAILURE", "UNREAD",
           "DISCARDED", "ERROR"}

\* MimeMessage::Actions.
MessageAction == {"SEND", "CONFIRM", "ERROR", "READ", "UNREAD", "DISCARD", "NOTHING"}

\* DRing::Account::MessageStates, the first five of Status.
DaemonStatus == {"UNKNOWN", "SENDING", "SENT", "READ", "FAILURE"}

\* m_mStateMapOut: what is not expected of an outgoing message is an ERROR.
stateMapOut ==
  [s \in Status |-> [a \in MessageAction |->
     CASE a = "DISCARD" -> "DISCARDED"
       [] a = "NOTHING" -> s
       [] s = "DISCARDED" /\ a \in {"CONFIRM", "ERROR", "READ"} -> "DISCARDED"
       [] s = "UNKNOWN" /\ a = "SEND" -> "SENDING"
       [] s = "UNKNOWN" /\ a = "CONFIRM" -> "UNREAD"
       [] s = "SENDING" /\ a = "CONFIRM" -> "SENT"
       [] s = "SENDING" /\ a = "ERROR" -> "FAILURE"
       [] s \in {"UNKNOWN", "SENT", "READ", "FAILURE", "UNREAD"} /\ a = "READ" -> "READ"
       [] OTHER -> "ERROR"]]

\* m_mStateMapIn: an incoming message is only read, unread and discarded.
stateMapIn ==
  [s \in Status |-> [a \in MessageAction |->
     CASE a = "DISCARD" -> "DISCARDED"
       [] a = "NOTHING" -> s
       [] s = "DISCARDED" /\ a \in {"CONFIRM", "ERROR", "READ"} -> "DISCARDED"
       [] s \in {"UNKNOWN", "SENT", "READ", "FAILURE", "UNREAD"} /\ a = "READ" -> "READ"
       [] s \in {"UNKNOWN", "SENDING", "SENT", "READ", "UNREAD"} /\ a = "UNREAD" -> "UNREAD"
       [] OTHER -> "ERROR"]]

\* m_mDaemonStateMap: a status of the daemon, as an action on the message.
daemonStateMap ==
  [s \in Status |-> [d \in DaemonStatus |->
     CASE d = s -> "NOTHING"
       [] s \in {"UNKNOWN", "FAILURE", "DISCARDED"} /\ d = "SENDING" -> "SEND"
       [] s = "SENDING" /\ d = "SENT" -> "CONFIRM"
       [] s \in {"SENDING", "SENT"} /\ d = "READ" -> "READ"
       [] s = "DISCARDED" /\ d \in {"SENT", "READ"} -> "NOTHING"
       [] OTHER -> "ERROR"]]
=============================================================================
