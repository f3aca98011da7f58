--------------------------- MODULE CallLifeCycle ---------------------------
(***************************************************************************)
(* What a call promises to the rest of the library, whatever the order in  *)
(* which the user, the peer and the daemon act.  "The meta state is a      *)
(* flat, forward only progression from creating to archiving of a call"    *)
(* (src/src/private/call_p.h), audio media exist while the peers are in    *)
(* communication, and only a call that is over enters the history.         *)
(***************************************************************************)

VARIABLES
  stage,    \* the life cycle state
  audio,    \* are there audio media?
  history   \* is the call in the history?

vars == <<stage, audio, history>>

Init == /\ stage \in {"CREATION", "INITIALIZATION"}
        /\ audio = FALSE
        /\ history = FALSE

\* The call is placed with the daemon.
Place ==
  /\ stage = "CREATION"
  /\ stage' = "INITIALIZATION"
  /\ UNCHANGED <<audio, history>>

\* The peers start to communicate.
Establish ==
  /\ stage \in {"CREATION", "INITIALIZATION"}
  /\ stage' = "PROGRESS"
  /\ audio' = TRUE
  /\ UNCHANGED history

\* The call ends, and may be archived at once.
Finish ==
  /\ stage # "FINISHED"
  /\ stage' = "FINISHED"
  /\ audio' = FALSE
  /\ history' \in {history, TRUE}

\* The call is archived, once.
Archive ==
  /\ stage = "FINISHED"
  /\ history' = TRUE
  /\ UNCHANGED <<stage, audio>>

Next == Place \/ Establish \/ Finish \/ Archive

Spec == Init /\ [][Next]_vars
=============================================================================
