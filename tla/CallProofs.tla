----------------------------- MODULE CallProofs -----------------------------
(***************************************************************************)
(* Theorems about Call, for every set of peers and identifiers, every      *)
(* choice of offered actions and every bound on the queue: its types and   *)
(* where it is listed, that it implements CallLifeCycle and is placed      *)
(* once, and that it agrees with the daemon once nothing is in flight.     *)
(***************************************************************************)
EXTENDS CallProperties, FiniteSetTheorems, TLAPS

-----------------------------------------------------------------------------
(* The tables are total: every cell holds a state.                         *)

\* Each state has a life cycle state.
LEMMA MetaStateTotal == \A s \in State : metaStateMap[s] \in LifeCycleState
BY DEF metaStateMap, State, LifeCycleState

\* An action leads to a state.
LEMMA ActionTotal ==
  \A s \in State, a \in Action : actionPerformedStateMap[s][a] \in State
BY DEF actionPerformedStateMap, ActionRow, State, Action

\* A daemon state leads to a state.
LEMMA EventTotal ==
  \A s \in State, d \in DaemonState : stateChangedStateMap[s][d] \in State
BY DEF stateChangedStateMap, DaemonRow, State, DaemonState

-----------------------------------------------------------------------------
(* The operators on the object return an object.                           *)

\* The contact method that a call is registered on can hold it.
LEMMA TargetType ==
  ASSUME NEW c \in CallRecord
  PROVE  Target(c) \in Peer \cup {"temporary", "blank"}
BY DEF Target, CallRecord, Number

LEMMA LifeCycleCallbackType ==
  ASSUME NEW c \in CallRecord
  PROVE  LifeCycleCallback(c) \in CallRecord
<1>1. LifeCycle(c) \in LifeCycleState
  BY MetaStateTotal DEF LifeCycle, CallRecord
<1>t. Target(c) \in Peer \cup {"temporary", "blank"}
  BY TargetType
<1>2. initMedia(c) \in CallRecord
  <2>1. OneMore(c.audio) \in 0..2
    BY DEF OneMore
  <2> QED
    BY <1>t, <2>1, ZenonT(40) DEF initMedia, CallRecord
<1>3. notifyInit(c) \in CallRecord
  BY <1>t DEF notifyInit, CallRecord
<1>4. terminateMedia(c) \in CallRecord
  <2>1. /\ c.init \ {Target(c)} \in SUBSET (Peer \cup {"temporary", "blank"})
        /\ c.active \ {Target(c)} \in SUBSET (Peer \cup {"temporary", "blank"})
        /\ 0 \in 0..2
    BY DEF CallRecord
  <2> QED
    BY <2>1 DEF terminateMedia, CallRecord
<1> QED
  BY <1>1, <1>2, <1>3, <1>4 DEF LifeCycleCallback, LifeCycleState

LEMMA initTimerType ==
  ASSUME NEW c \in CallRecord
  PROVE  initTimer(c) \in CallRecord
BY DEF initTimer, CallRecord

LEMMA changeCurrentStateType ==
  ASSUME NEW c \in CallRecord, NEW s \in State
  PROVE  changeCurrentState(c, s) \in CallRecord
<1> DEFINE moved == [c EXCEPT !.state = s]
<1>1. moved \in CallRecord
  BY DEF CallRecord
<1>2. LifeCycleCallback(moved) \in CallRecord
  BY <1>1, LifeCycleCallbackType
<1>3. /\ initTimer(moved) \in CallRecord
      /\ initTimer(LifeCycleCallback(moved)) \in CallRecord
  BY <1>1, <1>2, initTimerType
<1> HIDE DEF moved
<1>4. changeCurrentState(c, s) =
        CASE c.state = s -> c
          [] c.state # s /\ LifeCycle(moved) = LifeCycle(c) -> initTimer(moved)
          [] c.state # s /\ LifeCycle(moved) # LifeCycle(c)
               -> initTimer(LifeCycleCallback(moved))
  BY DEF changeCurrentState, moved
<1> QED
  BY <1>3, <1>4

LEMMA DropDialNumberType ==
  ASSUME NEW c \in CallRecord
  PROVE  DropDialNumber(c) \in CallRecord
BY DEF DropDialNumber, CallRecord

LEMMA ReplaceDialNumberType ==
  ASSUME NEW c \in CallRecord
  PROVE  ReplaceDialNumber(c) \in CallRecord
<1> DEFINE p == IF c.peer = "none" THEN WithNumber(c.dial) ELSE c.peer
<1>1. CASE c.dial = "null"
  BY <1>1 DEF ReplaceDialNumber
<1>2. CASE c.dial # "null"
  <2>1. p \in Peer \cup {"none", "blank"}
    BY DEF CallRecord, WithNumber
  <2> HIDE DEF p
  <2>2. [c EXCEPT !.peer = p] \in CallRecord
    BY <2>1 DEF CallRecord
  <2>3. ReplaceDialNumber(c) = DropDialNumber([c EXCEPT !.peer = p])
    BY <1>2 DEF ReplaceDialNumber, p
  <2> QED
    BY <2>2, <2>3, DropDialNumberType
<1> QED
  BY <1>1, <1>2

LEMMA sendProfileType ==
  ASSUME NEW c \in CallRecord
  PROVE  sendProfile(c) \in CallRecord
<1>1. OneMore(c.text) \in 0..2
  BY DEF OneMore
<1> QED
  BY <1>1 DEF sendProfile, CallRecord

LEMMA startType ==
  ASSUME NEW c \in CallRecord
  PROVE  start(c) \in CallRecord
<1>1. \A x \in CallRecord : [x EXCEPT !.start = TRUE] \in CallRecord
  BY ZenonT(40) DEF CallRecord
<1> QED
  BY <1>1, ReplaceDialNumberType, initTimerType, sendProfileType DEF start

LEMMA DaemonCallbackType ==
  ASSUME NEW c \in CallRecord, NEW f
  PROVE  DaemonCallback(f, c) \in CallRecord
<1>1. start(c) \in CallRecord
  BY startType
<1>2. startWeird(c) \in CallRecord
  <2>1. [c EXCEPT !.start = TRUE] \in CallRecord
    BY DEF CallRecord
  <2> QED
    BY <2>1, sendProfileType DEF startWeird
<1>3. failure(c) \in CallRecord
  <2>1. [c EXCEPT !.missed = TRUE] \in CallRecord
    BY DEF CallRecord
  <2> QED
    BY <2>1, startType DEF failure
<1>4. stop(c) \in CallRecord
  BY DEF stop, CallRecord
<1>5. startStop(c) \in CallRecord
  BY ZenonT(40) DEF startStop, CallRecord
<1>6. warning(c) \in CallRecord
  BY <1>4 DEF warning
<1>7. changeCurrentState(c, "ERROR") \in CallRecord
  BY changeCurrentStateType DEF State
<1> QED
  BY <1>1, <1>2, <1>3, <1>4, <1>5, <1>6, <1>7 DEF DaemonCallback

LEMMA stateChangedType ==
  ASSUME NEW c \in CallRecord, NEW d \in DaemonState
  PROVE  stateChanged(c, d) \in CallRecord
<1> DEFINE moved == changeCurrentState(c, stateChangedStateMap[c.state][d])
           f     == stateChangedFunctionMap[c.state][d]
           done  == DaemonCallback(f, SyncHoldFlag(moved))
<1>1. moved \in CallRecord
  <2>1. stateChangedStateMap[c.state][d] \in State
    BY EventTotal DEF CallRecord
  <2> QED
    BY <2>1, changeCurrentStateType
<1> HIDE DEF moved
<1>2. SyncHoldFlag(moved) \in CallRecord
  BY <1>1 DEF SyncHoldFlag, CallRecord
<1> HIDE DEF f
<1>3. done \in CallRecord
  BY <1>2, DaemonCallbackType
<1> HIDE DEF done
<1>4. stateChanged(c, d) \in {done, ReplaceDialNumber(done)}
  BY DEF stateChanged, done, f, moved
<1> QED
  BY <1>3, <1>4, ReplaceDialNumberType

\* The object in which an action has only changed the state.
LEMMA EnteredType ==
  ASSUME call \in CallRecord, NEW a \in Action
  PROVE  Entered(a) \in CallRecord
<1>1. actionPerformedStateMap[call.state][a] \in State
  BY ActionTotal DEF CallRecord
<1> QED
  BY <1>1, changeCurrentStateType DEF Entered

LEMMA PlacedType ==
  ASSUME call \in CallRecord, NEW a \in Action
  PROVE  Placed(a) \in CallRecord
<1>1. ASSUME NEW c \in CallRecord PROVE [c EXCEPT !.account = TRUE] \in CallRecord
  BY <1>1 DEF CallRecord
<1>2. ASSUME NEW c \in CallRecord PROVE [c EXCEPT !.outgoing = TRUE] \in CallRecord
  BY <1>2 DEF CallRecord
<1>3. ASSUME NEW c \in CallRecord PROVE [c EXCEPT !.start = TRUE] \in CallRecord
  BY <1>3 DEF CallRecord
<1>4. ASSUME NEW c \in CallRecord
      PROVE  [c EXCEPT !.account = TRUE, !.outgoing = TRUE, !.start = TRUE]
               \in CallRecord
  <2>1. [c EXCEPT !.account = TRUE, !.outgoing = TRUE, !.start = TRUE] =
          [[[c EXCEPT !.account = TRUE] EXCEPT !.outgoing = TRUE]
             EXCEPT !.start = TRUE]
    OBVIOUS
  <2>2. [[c EXCEPT !.account = TRUE] EXCEPT !.outgoing = TRUE] \in CallRecord
    BY <1>1, <1>2, <1>4
  <2> QED
    BY <1>3, <2>1, <2>2
<1> QED
  BY <1>4, EnteredType, ReplaceDialNumberType DEF Placed

-----------------------------------------------------------------------------
(* The daemon.                                                             *)

LEMMA PostType ==
  ASSUME NEW d \in RingRecord, NEW i \in DaemonId, NEW s \in StateEvent,
         NEW code \in Code
  PROVE  Post(d, i, s, code) \in RingRecord
<1>1. [id |-> i, state |-> s, code |-> code] \in Event
  BY DEF Event
<1>2. Append(d.queue, [id |-> i, state |-> s, code |-> code]) \in Seq(Event)
  BY <1>1 DEF RingRecord
<1> QED
  BY <1>2 DEF Post, RingRecord

LEMMA RequestType ==
  ASSUME NEW d \in RingRecord, NEW i, NEW from, NEW to \in DaemonCall,
         NEW s \in StateEvent
  PROVE  Request(d, i, from, to, s) \in RingRecord
<1>1. CASE i \in DaemonId /\ d.calls[i] \in from
  <2>1. [d EXCEPT !.calls[i] = to] \in RingRecord
    BY <1>1 DEF RingRecord
  <2>2. "none" \in Code
    BY DEF Code
  <2> QED
    BY <1>1, <2>1, <2>2, PostType DEF Request
<1>2. CASE ~(i \in DaemonId /\ d.calls[i] \in from)
  BY <1>2 DEF Request
<1> QED
  BY <1>1, <1>2

\* Whatever is asked of the daemon, and of whatever call.
LEMMA RequestsType ==
  ASSUME NEW d \in RingRecord, NEW i
  PROVE  /\ Accepted(d, i) \in RingRecord
         /\ Refused(d, i) \in RingRecord
         /\ HungUp(d, i) \in RingRecord
         /\ Held(d, i) \in RingRecord
         /\ Unheld(d, i) \in RingRecord
         /\ AfterTransfer(d, i) \subseteq RingRecord
<1>1. /\ {"current", "ended", "held"} \subseteq DaemonCall
      /\ {"CURRENT", "HUNGUP", "HOLD", "UNHOLD"} \subseteq StateEvent
  BY DEF DaemonCall, Alive, Established, StateEvent
<1> QED
  BY <1>1, RequestType
     DEF Accepted, Refused, HungUp, Held, Unheld, AfterTransfer, Transferred

LEMMA RingType ==
  ASSUME ring \in RingRecord, NEW from, NEW to \in DaemonCall,
         NEW s \in StateEvent, NEW codes \in SUBSET Code,
         Ring(from, to, s, codes)
  PROVE  ring' \in RingRecord /\ UNCHANGED call
<1>1. PICK i \in DaemonId, c \in codes :
        ring' = Post([ring EXCEPT !.calls[i] = to], i, s, c)
  BY DEF Ring
<1>2. [ring EXCEPT !.calls[i] = to] \in RingRecord
  BY DEF RingRecord
<1> QED
  BY <1>1, <1>2, PostType DEF Ring

LEMMA RingMovesType ==
  ASSUME ring \in RingRecord, RingMoves
  PROVE  ring' \in RingRecord /\ UNCHANGED call
<1>1. /\ {"connecting", "ringing", "current", "ended", "gone"} \subseteq DaemonCall
      /\ {"CONNECTING", "RINGING", "CURRENT", "HUNGUP", "FAILURE", "BUSY",
          "OVER"} \subseteq StateEvent
      /\ {"none"} \in SUBSET Code
      /\ {"ECONNREFUSED", "ECONNABORTED"} \in SUBSET Code
  BY DEF DaemonCall, Alive, Established, Unanswered, StateEvent, Code
<1> QED
  BY <1>1, RingType DEF RingMoves, RingConnects, RingRings, RingAnswers,
       RingHangsUp, RingFails, RingIsBusy, RingIsOver

-----------------------------------------------------------------------------
(* Type correctness.                                                       *)

LEMMA InitType == Init => TypeOK
<1>1. \A s \in State, i \in DaemonId \cup {"none"}, p \in Peer \cup {"none"},
         outgoing \in BOOLEAN, recording \in SUBSET {"AUDIO", "VIDEO"} :
        Built(s, i, p, outgoing, recording) \in CallRecord
  <2> SUFFICES ASSUME NEW s \in State, NEW i \in DaemonId \cup {"none"},
                      NEW p \in Peer \cup {"none"}, NEW outgoing \in BOOLEAN,
                      NEW recording \in SUBSET {"AUDIO", "VIDEO"}
               PROVE  Built(s, i, p, outgoing, recording) \in CallRecord
    OBVIOUS
  <2> DEFINE b == [state |-> s, hold |-> {}, dial |-> "empty",
                   transferTo |-> "null", peer |-> p, account |-> i # "none",
                   id |-> i, outgoing |-> outgoing, timer |-> "none",
                   start |-> i # "none", stop |-> FALSE, missed |-> FALSE,
                   reason |-> "UNSPECIFIED", code |-> "none",
                   recording |-> recording, audio |-> 0, text |-> 0,
                   active |-> {}, init |-> {}, logged |-> FALSE,
                   crashed |-> FALSE]
  <2>1. b \in CallRecord
    <3>1. 0 \in 0..2 /\ "none" \in Code /\ "empty" \in Number
      BY DEF Code, Number
    <3>2. {} \in SUBSET {"IN", "OUT"}
          /\ {} \in SUBSET (Peer \cup {"temporary", "blank"})
      OBVIOUS
    <3>3. (i # "none") \in BOOLEAN
      OBVIOUS
    <3> QED
      BY <3>1, <3>2, <3>3 DEF CallRecord
  <2>2. Built(s, i, p, outgoing, recording) = initTimer(b)
    BY DEF Built
  <2> HIDE DEF b
  <2> QED
    BY <2>1, <2>2, initTimerType
<1>2. NoCall \in [DaemonId -> DaemonCall]
  BY DEF NoCall, DaemonCall
<1>3. ASSUME InitDialing PROVE TypeOK
  <2>1. "NEW" \in State
    BY DEF State
  <2>2. Built("NEW", "none", "none", TRUE, {}) \in CallRecord
    BY <1>1, <2>1
  <2>3. <<>> \in Seq(Event)
    OBVIOUS
  <2> QED
    BY <1>2, <1>3, <2>2, <2>3 DEF InitDialing, TypeOK, RingRecord
<1>4. ASSUME InitIncoming PROVE TypeOK
  <2>1. PICK i \in DaemonId, p \in Peer :
          /\ call = Built("INCOMING", i, p, FALSE, {})
          /\ ring = [calls |-> [NoCall EXCEPT ![i] = "incoming"],
                     queue |-> <<[id |-> i, state |-> "INCOMING",
                                  code |-> "none"]>>]
    BY <1>4 DEF InitIncoming
  <2>2. [id |-> i, state |-> "INCOMING", code |-> "none"] \in Event
    BY DEF Event, StateEvent, Code
  <2>3. [NoCall EXCEPT ![i] = "incoming"] \in [DaemonId -> DaemonCall]
    BY <1>2 DEF DaemonCall, Alive, Unanswered
  <2>4. ring \in RingRecord
    BY <2>1, <2>2, <2>3 DEF RingRecord
  <2> QED
    BY <1>1, <2>1, <2>4 DEF TypeOK, State
<1>5. ASSUME InitExisting PROVE TypeOK
  <2>1. PICK i \in DaemonId, p \in Peer, outgoing \in BOOLEAN,
             recording \in {{}, {"AUDIO", "VIDEO"}},
             d \in Alive \cup {"ended"} :
          /\ \E s \in startStateFromDaemonCallState(d) :
               call = Built(s, i, p, outgoing, recording)
          /\ ring = [calls |-> [NoCall EXCEPT ![i] = d], queue |-> <<>>]
    BY <1>5 DEF InitExisting
  <2>2. startStateFromDaemonCallState(d) \subseteq State
    BY DEF startStateFromDaemonCallState, Alive, Unanswered, Established, State
  <2>3. [NoCall EXCEPT ![i] = d] \in [DaemonId -> DaemonCall]
    BY <1>2 DEF DaemonCall
  <2> QED
    BY <1>1, <2>1, <2>2, <2>3 DEF TypeOK, RingRecord
<1> QED
  BY <1>3, <1>4, <1>5 DEF Init

LEMMA PerformType ==
  ASSUME TypeOK, NEW a \in Action, Perform(a)
  PROVE  TypeOK'
<1> DEFINE e == Entered(a)
<1>1. e \in CallRecord /\ call \in CallRecord /\ ring \in RingRecord
  BY EnteredType DEF TypeOK
<1>2. Placed(a) \in CallRecord
  BY <1>1, PlacedType
<1>3. /\ Accepted(ring, call.id) \in RingRecord
      /\ Refused(ring, call.id) \in RingRecord
      /\ HungUp(ring, call.id) \in RingRecord
      /\ Held(ring, call.id) \in RingRecord
      /\ Unheld(ring, call.id) \in RingRecord
      /\ AfterTransfer(ring, call.id) \subseteq RingRecord
  BY <1>1, RequestsType
<1>4. /\ AfterTransfer(Accepted(ring, call.id), call.id) \subseteq RingRecord
      /\ Held(Accepted(ring, call.id), call.id) \in RingRecord
  BY <1>3, RequestsType
<1>5. \A c \in CallRecord, s \in {"ERROR", "OVER", "ABORTED", "FAILURE"} :
        changeCurrentState(c, s) \in CallRecord
  BY changeCurrentStateType DEF State
<1>6. \A c \in CallRecord : stop(c) \in CallRecord
  BY ZenonT(40) DEF stop, CallRecord
<1> HIDE DEF e
<1>7. CASE PerformNothing(a)
  BY <1>1, <1>7 DEF PerformNothing, TypeOK, e
<1>8. CASE Accept(a)
  <2>1. [e EXCEPT !.start = TRUE, !.outgoing = FALSE] \in CallRecord
    BY <1>1 DEF CallRecord
  <2> QED
    BY <1>3, <1>8, <2>1 DEF Accept, TypeOK, e
<1>9. CASE Refuse(a)
  <2> DEFINE refused == [e EXCEPT !.start = TRUE, !.missed = TRUE,
                                  !.reason = "REFUSED"]
  <2>1. refused \in CallRecord
    BY <1>1, ZenonT(40) DEF CallRecord
  <2> HIDE DEF refused
  <2>2. call' \in {refused, changeCurrentState(refused, "ERROR")}
    BY <1>9 DEF Refuse, refused, e
  <2> QED
    BY <1>3, <1>5, <1>9, <2>1, <2>2 DEF Refuse, TypeOK
<1>10. CASE AcceptTransfer(a)
  BY <1>1, <1>4, <1>10 DEF AcceptTransfer, TypeOK, e
<1>11. CASE AcceptHold(a)
  <2>1. [e EXCEPT !.outgoing = FALSE] \in CallRecord
    BY <1>1 DEF CallRecord
  <2> QED
    BY <1>4, <1>11, <2>1 DEF AcceptHold, TypeOK, e
<1>12. CASE HangUp(a)
  <2> DEFINE ended == IF Known(ring, call.id) THEN stop(e)
                      ELSE changeCurrentState(stop(e), "OVER")
  <2>1. ended \in CallRecord
    BY <1>1, <1>5, <1>6
  <2>2. call' = [ended EXCEPT !.timer = IF @ = "none" THEN @ ELSE "stopped"]
    BY <1>12 DEF HangUp, e
  <2> HIDE DEF ended
  <2>3. call' \in CallRecord
    BY <2>1, <2>2 DEF CallRecord
  <2> QED
    BY <1>3, <1>12, <2>3 DEF HangUp, TypeOK
<1>13. CASE Remove(a)
  BY <1>1, <1>3, <1>5, <1>13 DEF Remove, TypeOK, e
<1>14. CASE Cancel(a)
  BY <1>1, <1>3, <1>5, <1>14 DEF Cancel, TypeOK, e
<1>15. CASE Hold(a)
  <2>1. [e EXCEPT !.hold = @ \cup {"OUT"}] \in CallRecord
    BY <1>1 DEF CallRecord
  <2> QED
    BY <1>3, <1>15, <2>1 DEF Hold, TypeOK, e
<1>16. CASE Unhold(a)
  <2>1. [e EXCEPT !.hold = @ \ {"OUT"}] \in CallRecord
    BY <1>1 DEF CallRecord
  <2> QED
    BY <1>3, <1>16, <2>1 DEF Unhold, TypeOK, e
<1>17. CASE Transfer(a)
  BY <1>1, <1>3, <1>6, <1>17 DEF Transfer, TypeOK, e
<1>18. CASE ToggleRecord(a)
  <2> DEFINE toggled(m, on) ==
               [e EXCEPT !.recording = IF on THEN @ \cup {m} ELSE @ \ {m}]
  <2>1. \A on \in BOOLEAN, m \in {"AUDIO", "VIDEO"} : toggled(m, on) \in CallRecord
    BY <1>1 DEF CallRecord
  <2>2. \E on \in BOOLEAN, m \in {"AUDIO", "VIDEO"} : call' = toggled(m, on)
    BY <1>18 DEF ToggleRecord, e
  <2> QED
    BY <1>1, <1>18, <2>1, <2>2 DEF ToggleRecord, TypeOK
<1>19. CASE CallNobody(a)
  BY <1>1, <1>5, <1>19, DropDialNumberType DEF CallNobody, TypeOK, e
<1>20. CASE CallWithoutAccount(a)
  BY <1>1, <1>5, <1>20 DEF CallWithoutAccount, TypeOK, e
<1>21. CASE PlaceCall(a)
  <2>1. PICK i \in DaemonId :
          /\ call' = [Placed(a) EXCEPT !.id = i]
          /\ ring' = Post([ring EXCEPT !.calls[i] = "connecting"], i,
                          "CONNECTING", "none")
    BY <1>21 DEF PlaceCall
  <2>2. call' \in CallRecord
    <3>1. \A c \in CallRecord : [c EXCEPT !.id = i] \in CallRecord
      BY DEF CallRecord
    <3> QED
      BY <1>2, <2>1, <3>1
  <2>3. [ring EXCEPT !.calls[i] = "connecting"] \in RingRecord
    BY <1>1 DEF RingRecord, DaemonCall, Alive, Unanswered
  <2>4. ring' \in RingRecord
    <3>1. "CONNECTING" \in StateEvent /\ "none" \in Code
      BY DEF StateEvent, Code
    <3> QED
      BY <2>1, <2>3, <3>1, PostType
  <2> QED
    BY <2>2, <2>4 DEF TypeOK
<1>22. CASE PlaceCallFails(a)
  <2>1. \A c \in CallRecord : [c EXCEPT !.id = "failed"] \in CallRecord
    BY DEF CallRecord
  <2> QED
    BY <1>1, <1>2, <1>5, <1>22, <2>1 DEF PlaceCallFails, TypeOK
<1> QED
  BY <1>7, <1>8, <1>9, <1>10, <1>11, <1>12, <1>13, <1>14, <1>15, <1>16, <1>17,
     <1>18, <1>19, <1>20, <1>21, <1>22 DEF Perform

LEMMA EditType ==
  ASSUME TypeOK,
         \/ \E n \in Number : SetDialNumber(n) \/ Backspace(n)
         \/ \E p \in Peer : SetPeerContactMethod(p) \/ AppendText(p)
         \/ \E known \in BOOLEAN : SetAccount(known)
         \/ \E n \in {"empty", "set"} : SetTransferNumber(n)
         \/ BackspaceNothing \/ BackspaceCrashes \/ Reset
  PROVE  TypeOK'
<1> SUFFICES call' \in CallRecord
  BY DEF TypeOK, SetDialNumber, Backspace, SetPeerContactMethod, AppendText,
         SetAccount, SetTransferNumber, BackspaceNothing, BackspaceCrashes, Reset
<1>1. call \in CallRecord
  BY DEF TypeOK
<1>2. \A c \in CallRecord, t \in {"NEW", "DIALING", "ABORTED"} :
        changeCurrentState(c, t) \in CallRecord
  BY changeCurrentStateType DEF State
<1>3. \A c \in CallRecord, n \in Number : [c EXCEPT !.dial = n] \in CallRecord
  BY DEF CallRecord
<1>4. \A c \in CallRecord, t \in {"null", "empty", "set"} :
        [c EXCEPT !.transferTo = t] \in CallRecord
  BY DEF CallRecord
<1>5. \A c \in CallRecord, n \in Number : WithDialNumber(c, n) \in CallRecord
  BY <1>2, <1>3 DEF WithDialNumber
<1>6. Crash => call' \in CallRecord
  <2>1. [call EXCEPT !.crashed = TRUE] \in CallRecord
    BY <1>1 DEF CallRecord
  <2> QED
    BY <2>1 DEF Crash
<1>7. "empty" \in Number /\ Peer \subseteq Number
  BY DEF Number
<1>8. call.transferTo \in {"null", "empty", "set"} /\ call.dial \in Number \cup {"null"}
  BY <1>1 DEF CallRecord
<1>9. ASSUME NEW n \in Number, SetDialNumber(n) PROVE call' \in CallRecord
  BY <1>1, <1>5, <1>6, <1>9 DEF SetDialNumber
<1>10. ASSUME NEW n \in Number, Backspace(n) PROVE call' \in CallRecord
  <2>1. CASE call' = [call EXCEPT !.transferTo = IF n = "empty" THEN n ELSE "set"]
    BY <1>1, <1>4, <2>1
  <2>2. CASE call' = [changeCurrentState(call, "DIALING") EXCEPT !.dial = n]
    BY <1>1, <1>2, <1>3, <2>2
  <2> QED
    BY <1>10, <2>1, <2>2 DEF Backspace
<1>11. ASSUME NEW p \in Peer, SetPeerContactMethod(p) PROVE call' \in CallRecord
  <2>1. [call EXCEPT !.peer = p] \in CallRecord
    BY <1>1 DEF CallRecord
  <2> QED
    BY <1>5, <1>6, <1>7, <1>11, <2>1 DEF SetPeerContactMethod
<1>12. ASSUME NEW p \in Peer, AppendText(p) PROVE call' \in CallRecord
  <2> DEFINE t == IF call.transferTo = "null" THEN "null" ELSE "set"
             n == IF call.dial = "null" THEN "null" ELSE p
  <2>1. CASE call' = [call EXCEPT !.transferTo = t]
    BY <1>1, <1>4, <2>1
  <2>2. CASE call' = changeCurrentState([call EXCEPT !.dial = n], "DIALING")
    <3>1. [call EXCEPT !.dial = n] \in CallRecord
      BY <1>1, <1>7 DEF CallRecord
    <3> QED
      BY <1>2, <2>2, <3>1
  <2> QED
    BY <1>1, <1>12, <2>1, <2>2 DEF AppendText
<1>13. ASSUME NEW known \in BOOLEAN, SetAccount(known) PROVE call' \in CallRecord
  BY <1>1, <1>13 DEF SetAccount, CallRecord
<1>14. ASSUME NEW n \in {"empty", "set"}, SetTransferNumber(n)
       PROVE  call' \in CallRecord
  BY <1>1, <1>4, <1>14 DEF SetTransferNumber
<1>15. ASSUME Reset PROVE call' \in CallRecord
  <2> DEFINE t == IF call.transferTo = "null" THEN "null" ELSE "empty"
             c == changeCurrentState(call, "NEW")
             n == IF c.dial = "null" THEN c.dial ELSE "empty"
  <2>1. CASE call' = [call EXCEPT !.transferTo = t]
    BY <1>1, <1>4, <2>1
  <2>2. CASE call' = [c EXCEPT !.dial = n]
    <3>1. c \in CallRecord
      BY <1>1, <1>2
    <3> HIDE DEF c
    <3> QED
      BY <1>7, <2>2, <3>1 DEF CallRecord
  <2> QED
    BY <1>15, <2>1, <2>2 DEF Reset
<1>16. ASSUME BackspaceNothing \/ BackspaceCrashes PROVE call' \in CallRecord
  BY <1>1, <1>2, <1>6, <1>16 DEF BackspaceNothing, BackspaceCrashes
<1> QED
  BY <1>9, <1>10, <1>11, <1>12, <1>13, <1>14, <1>15, <1>16

LEMMA TransferType ==
  ASSUME TypeOK, AttendedTransfer \/ UnattendedTransfer
  PROVE  TypeOK'
<1>1. call \in CallRecord /\ ring \in RingRecord
  BY DEF TypeOK
<1>2. \A c \in CallRecord, s \in State : changeCurrentState(c, s) \in CallRecord
  BY changeCurrentStateType
<1>3. {"OVER", "TRANSFERRED"} \subseteq State
  BY DEF State
<1>4. \A d \in RingRecord : /\ Accepted(d, call.id) \in RingRecord
                          /\ AfterTransfer(d, call.id) \subseteq RingRecord
  BY RequestsType
<1>5. CASE AttendedTransfer
  BY <1>1, <1>2, <1>3, <1>4, <1>5 DEF AttendedTransfer, TypeOK
<1>6. CASE UnattendedTransfer
  <2> DEFINE named == [call EXCEPT !.transferTo = "set"]
             to    == actionPerformedStateMap[call.state]["TRANSFER"]
             left  == changeCurrentState(named, to)
             after == IF OnTransfer(call.state) = "transfer" THEN stop(left)
                      ELSE left
             shown == changeCurrentState(after, "TRANSFERRED")
  <2>1. \A c \in CallRecord : stop(c) \in CallRecord
    BY ZenonT(40) DEF stop, CallRecord
  <2>2. named \in CallRecord /\ to \in State
    BY <1>1, ActionTotal DEF CallRecord, Action
  <2> HIDE DEF named, to
  <2>3. after \in CallRecord
    BY <1>2, <2>1, <2>2
  <2> HIDE DEF left, after
  <2>4. changeCurrentState(stop(shown), "OVER") \in CallRecord
    BY <1>2, <1>3, <2>1, <2>3
  <2>5. call' = changeCurrentState(stop(shown), "OVER")
    BY <1>6 DEF UnattendedTransfer, shown, after, left, to, named
  <2>6. ring' \in RingRecord
    BY <1>1, <1>4, <1>6 DEF UnattendedTransfer
  <2> QED
    BY <2>4, <2>5, <2>6 DEF TypeOK
<1> QED
  BY <1>5, <1>6

LEMMA DeliverType ==
  ASSUME TypeOK, Deliver
  PROVE  TypeOK'
<1> DEFINE e     == Head(ring.queue)
           coded == [call EXCEPT !.code = IF e.code = "none" THEN @ ELSE e.code]
           changed == stateChanged(coded, Reported(e))
<1>1. e \in Event /\ Tail(ring.queue) \in Seq(Event)
  BY DEF TypeOK, RingRecord, Deliver
<1>2. e.state \in StateEvent /\ e.code \in Code
  BY <1>1 DEF Event
<1> HIDE DEF e
<1>3. coded \in CallRecord
  BY <1>2 DEF TypeOK, CallRecord
<1>4. Reported(e) \in DaemonState
  BY <1>2 DEF Reported, toDaemonCallState, DaemonState, StateEvent
<1> HIDE DEF coded
<1>5. changed \in CallRecord
  BY <1>3, <1>4, stateChangedType
<1>6. call' = [changed EXCEPT !.logged = @ \/ Finished(changed)]
  BY DEF Deliver, changed, coded, e
<1> HIDE DEF changed
<1>7. call' \in CallRecord
  <2>1. (changed.logged \/ Finished(changed)) \in BOOLEAN
    OBVIOUS
  <2> QED
    BY <1>5, <1>6, <2>1 DEF CallRecord
<1>8. ring' \in RingRecord
  BY <1>1 DEF Deliver, TypeOK, RingRecord
<1> QED
  BY <1>7, <1>8 DEF TypeOK

LEMMA TypeStep ==
  ASSUME TypeOK, [Next]_vars
  PROVE  TypeOK'
<1>1. CASE \E a \in Action : Perform(a)
  BY <1>1, PerformType
<1>2. CASE User /\ ~\E a \in Action : Perform(a)
  BY <1>2, EditType, TransferType DEF User
<1>3. CASE Deliver
  BY <1>3, DeliverType
<1>4. CASE RingMoves
  BY <1>4, RingMovesType DEF TypeOK
<1>5. CASE PeerHold
  BY <1>5 DEF PeerHold, TypeOK, CallRecord
<1>6. CASE \E on \in BOOLEAN : RecordStateChanged(on)
  BY <1>6 DEF RecordStateChanged, TypeOK, CallRecord
<1>7. CASE UNCHANGED vars
  BY <1>7 DEF vars, TypeOK
<1> QED
  BY <1>1, <1>2, <1>3, <1>4, <1>5, <1>6, <1>7 DEF Next

\* Every field of the object and every event in flight keeps its type, whatever
\* the user, the peer and the daemon do: the tables are total and the handlers
\* only store what the fields can hold.
THEOREM TypeCorrect == Spec => []TypeOK
<1>1. TypeOK /\ [Next]_vars => TypeOK'
  BY TypeStep
<1> QED
  BY <1>1, InitType, PTL DEF Spec

-----------------------------------------------------------------------------
(***************************************************************************)
(* A call is listed by its contact method when it is active and by nobody  *)
(* when it is over, for every set of peers and identifiers.                *)
(*                                                                         *)
(* Registered is not inductive: a call whose contact method is not known   *)
(* when it starts is listed by the temporary one, and loses its place when *)
(* the temporary one is deleted.  The invariant below adds that a call in  *)
(* INITIALIZATION or PROGRESS has a contact method, and, because a daemon  *)
(* event could otherwise start a call that has none, that no event comes   *)
(* before the call is placed.                                              *)
(***************************************************************************)

\* A call that no daemon event can be about.
Unplaced(c) == LifeCycle(c) = "CREATION" \/ c.peer = "none"
Idle(d) == d.calls = NoCall /\ d.queue = <<>>

\* A call that has left CREATION has a contact method, until it is over.
Named(c) == LifeCycle(c) \in {"INITIALIZATION", "PROGRESS"} => c.peer # "none"

Listed(c) == c \in CallRecord /\ RegisteredOn(c)

RegistrationInv ==
  /\ TypeOK
  /\ Registered
  /\ Named(call)
  /\ Unplaced(call) => Idle(ring)

\* The assumptions of the theorem: the two actions that have no column in the
\* state table are not performed, and the call is this client's.
NoRecordColumn ==
  \A s \in State : Offered[s] \cap {"RECORD_VIDEO", "RECORD_TEXT"} = {}
OwnCall == "existing" \notin Start

-----------------------------------------------------------------------------
(* The tables.                                                             *)

\* The moves between life cycle states that keep a call registered: it does not
\* go back to CREATION, nor from PROGRESS to INITIALIZATION.
Legal(from, to) ==
  /\ to = "CREATION" => from = "CREATION"
  /\ to = "INITIALIZATION" => from # "PROGRESS"

LEMMA ActionIsLegal ==
  ASSUME NEW s \in State, NEW a \in Action \ {"RECORD_VIDEO", "RECORD_TEXT"}
  PROVE  LET to == metaStateMap[actionPerformedStateMap[s][a]] IN
         /\ Legal(metaStateMap[s], to)
         /\ to \in {"INITIALIZATION", "PROGRESS"} =>
              \/ metaStateMap[s] \in {"INITIALIZATION", "PROGRESS"}
              \/ actionPerformedFunctionMap[s][a] = "call"
<1>1. CASE s \in {"NEW", "DIALING"}
  BY <1>1, ZenonT(40) DEF metaStateMap, actionPerformedStateMap, ActionRow, State, Action,
              Legal, actionPerformedFunctionMap, OnAccept
<1>2. CASE s \in {"INCOMING", "RINGING", "INITIALIZATION", "CONNECTED"}
  BY <1>2, ZenonT(40) DEF metaStateMap, actionPerformedStateMap, ActionRow, State, Action,
              Legal
<1>3. CASE s \in {"CURRENT", "HOLD", "TRANSFERRED", "TRANSF_HOLD",
                 "CONFERENCE", "CONFERENCE_HOLD"}
  <2>1. actionPerformedStateMap[s][a] \in
          State \ {"NEW", "DIALING", "INCOMING", "RINGING", "INITIALIZATION",
                   "CONNECTED"}
    BY <1>3 DEF actionPerformedStateMap, ActionRow, State, Action
  <2>2. /\ metaStateMap[s] = "PROGRESS"
        /\ metaStateMap[actionPerformedStateMap[s][a]] \in {"PROGRESS", "FINISHED"}
    BY <1>3, <2>1 DEF metaStateMap, State
  <2> QED
    BY <2>2 DEF Legal
<1>4. CASE s \in {"FAILURE", "BUSY", "OVER", "ERROR", "ABORTED"}
  BY <1>4, ZenonT(40) DEF metaStateMap, actionPerformedStateMap, ActionRow, State, Action,
              Legal
<1> QED
  BY <1>1, <1>2, <1>3, <1>4 DEF State

LEMMA EventIsLegal ==
  ASSUME NEW s \in State, NEW d \in DaemonState
  PROVE  Legal(metaStateMap[s], metaStateMap[stateChangedStateMap[s][d]])
<1> DEFINE to == stateChangedStateMap[s][d]
<1>1. CASE s \in {"CURRENT", "HOLD", "TRANSFERRED", "TRANSF_HOLD",
                 "CONFERENCE", "CONFERENCE_HOLD"}
  <2>1. to \in State \ {"NEW", "DIALING", "INCOMING", "RINGING",
                       "INITIALIZATION", "CONNECTED"}
    BY <1>1 DEF stateChangedStateMap, DaemonRow, State, DaemonState
  <2> HIDE DEF to
  <2>2. metaStateMap[to] \in {"PROGRESS", "FINISHED"}
    BY <2>1 DEF metaStateMap, State
  <2> QED
    BY <2>2 DEF Legal, to
<1>2. CASE s \notin {"CURRENT", "HOLD", "TRANSFERRED", "TRANSF_HOLD",
                    "CONFERENCE", "CONFERENCE_HOLD"}
  <2>1. to \in State \ {"NEW", "DIALING"}
    BY DEF stateChangedStateMap, DaemonRow, State, DaemonState
  <2> HIDE DEF to
  <2>2. metaStateMap[to] # "CREATION" /\ metaStateMap[s] # "PROGRESS"
    BY <1>2, <2>1 DEF metaStateMap, State
  <2> QED
    BY <2>2 DEF Legal, to
<1> QED
  BY <1>1, <1>2

\* A call is only placed from a state in which it has not started.
LEMMA CallIsPlaced ==
  \A s \in State, a \in Action :
    actionPerformedFunctionMap[s][a] = "call" =>
      actionPerformedStateMap[s][a] = "INITIALIZATION"
BY DEF actionPerformedStateMap, ActionRow, State, Action, Recordable,
       actionPerformedFunctionMap, OnAccept, OnRefuse, OnTransfer, OnHold

-----------------------------------------------------------------------------
(* The operators on the object.                                            *)

\* The other fields do not matter.
LEMMA SameRegistered ==
  ASSUME NEW c, NEW d, RegisteredOn(c), d.state = c.state, d.peer = c.peer,
         d.dial = c.dial, d.active = c.active, d.init = c.init
  PROVE  RegisteredOn(d)
BY DEF RegisteredOn, LifeCycle, Target

LEMMA initTimerKeeps ==
  ASSUME NEW c \in CallRecord
  PROVE  /\ initTimer(c).state = c.state /\ initTimer(c).peer = c.peer
         /\ initTimer(c).dial = c.dial /\ initTimer(c).active = c.active
         /\ initTimer(c).init = c.init
BY DEF initTimer, CallRecord

LEMMA ChangeListed ==
  ASSUME NEW c, Listed(c), NEW s \in State, Legal(LifeCycle(c), metaStateMap[s])
  PROVE  LET d == changeCurrentState(c, s)
         IN  Listed(d) /\ d.state = s /\ d.peer = c.peer /\ d.dial = c.dial
<1> DEFINE d     == changeCurrentState(c, s)
           moved == [c EXCEPT !.state = s]
           after == LifeCycleCallback(moved)
<1>1. c \in CallRecord /\ RegisteredOn(c)
  BY DEF Listed
<1>2. /\ moved \in CallRecord /\ moved.state = s /\ moved.peer = c.peer
      /\ moved.dial = c.dial /\ moved.active = c.active /\ moved.init = c.init
  BY <1>1 DEF CallRecord
<1>3. d \in CallRecord
  BY <1>1, changeCurrentStateType
<1>4. CASE c.state = s
  BY <1>1, <1>4 DEF changeCurrentState, Listed
<1>5. CASE c.state # s /\ LifeCycle(moved) = LifeCycle(c)
  <2>1. d = initTimer(moved)
    BY <1>5 DEF changeCurrentState
  <2>2. RegisteredOn(moved)
    BY <1>1, <1>2, <1>5 DEF RegisteredOn, Target
  <2> HIDE DEF moved, d
  <2> QED
    BY <1>2, <1>3, <2>1, <2>2, initTimerKeeps, SameRegistered DEF Listed, d
<1>6. CASE c.state # s /\ LifeCycle(moved) # LifeCycle(c)
  <2>1. d = initTimer(after)
    BY <1>6 DEF changeCurrentState
  <2> HIDE DEF moved, d
  <2>2. after \in CallRecord
    BY <1>2, LifeCycleCallbackType
  <2>3. /\ LifeCycle(moved) \in LifeCycleState /\ LifeCycle(c) \in LifeCycleState
        /\ LifeCycle(moved) = metaStateMap[s]
    BY <1>1, <1>2, MetaStateTotal DEF LifeCycle, CallRecord
  <2>4. Target(moved) = Target(c)
    BY <1>2 DEF Target
  <2>5. /\ after.state = s /\ after.peer = c.peer /\ after.dial = c.dial
        /\ RegisteredOn(after)
    <3>1. CASE LifeCycle(moved) = "CREATION"
      BY <1>6, <2>3, <3>1 DEF Legal
    <3>2. CASE LifeCycle(moved) = "INITIALIZATION"
      <4>1. after = [moved EXCEPT !.init = @ \cup {Target(moved)}]
        BY <3>2 DEF LifeCycleCallback, notifyInit
      <4>2. /\ after.state = s /\ after.peer = c.peer /\ after.dial = c.dial
            /\ after.active = c.active /\ after.init = c.init \cup {Target(c)}
        BY <1>2, <2>4, <4>1 DEF CallRecord
      <4>3. c.active = {} /\ c.init = {}
        BY <1>1, <1>6, <2>3, <3>2 DEF RegisteredOn, Legal, LifeCycleState
      <4>4. LifeCycle(after) = "INITIALIZATION" /\ Target(after) = Target(c)
        BY <1>2, <3>2, <4>2 DEF LifeCycle, Target
      <4> HIDE DEF after
      <4> QED
        BY <4>2, <4>3, <4>4 DEF RegisteredOn
    <3>3. CASE LifeCycle(moved) = "PROGRESS"
      <4>1. after = [moved EXCEPT !.audio  = OneMore(@),
                                  !.active = @ \cup {Target(moved)},
                                  !.init   = @ \ {Target(moved)}]
        BY <3>3 DEF LifeCycleCallback, initMedia
      <4>2. /\ after.state = s /\ after.peer = c.peer /\ after.dial = c.dial
            /\ after.active = c.active \cup {Target(c)}
            /\ after.init = c.init \ {Target(c)}
        BY <1>2, <2>4, <4>1 DEF CallRecord
      <4>3. c.active = {} /\ c.init \subseteq {Target(c)}
        BY <1>1, <1>6, <2>3, <3>3 DEF RegisteredOn, LifeCycleState
      <4>4. LifeCycle(after) = "PROGRESS" /\ Target(after) = Target(c)
        BY <1>2, <3>3, <4>2 DEF LifeCycle, Target
      <4> HIDE DEF after
      <4> QED
        BY <4>2, <4>3, <4>4 DEF RegisteredOn
    <3>4. CASE LifeCycle(moved) = "FINISHED"
      <4>1. after = [moved EXCEPT !.audio = 0, !.text = 0,
                                  !.init   = @ \ {Target(moved)},
                                  !.active = @ \ {Target(moved)}]
        BY <3>4 DEF LifeCycleCallback, terminateMedia
      <4>2. /\ after.state = s /\ after.peer = c.peer /\ after.dial = c.dial
            /\ after.active = c.active \ {Target(c)}
            /\ after.init = c.init \ {Target(c)}
        BY <1>2, <2>4, <4>1 DEF CallRecord
      <4>3. c.active \subseteq {Target(c)} /\ c.init \subseteq {Target(c)}
        BY <1>1, <2>3 DEF RegisteredOn, LifeCycleState
      <4>4. LifeCycle(after) = "FINISHED"
        BY <1>2, <3>4, <4>2 DEF LifeCycle
      <4> HIDE DEF after
      <4> QED
        BY <4>2, <4>3, <4>4 DEF RegisteredOn
    <3> QED
      BY <2>3, <3>1, <3>2, <3>3, <3>4 DEF LifeCycleState
  <2> HIDE DEF after
  <2> QED
    BY <1>3, <2>1, <2>2, <2>5, initTimerKeeps, SameRegistered DEF Listed, d
<1> QED
  BY <1>4, <1>5, <1>6

\* The temporary contact method goes, the call stays where it is listed.
LEMMA ReplaceListed ==
  ASSUME NEW c, Listed(c), LifeCycle(c) = "PROGRESS" => c.peer # "none"
  PROVE  LET d == ReplaceDialNumber(c)
         IN  /\ Listed(d) /\ d.state = c.state
             /\ c.peer # "none" => d.peer = c.peer
             /\ c.dial # "null" => d.peer # "none"
<1> DEFINE p == IF c.peer = "none" THEN WithNumber(c.dial) ELSE c.peer
           d == ReplaceDialNumber(c)
<1>1. c \in CallRecord /\ RegisteredOn(c) /\ LifeCycle(c) \in LifeCycleState
  BY MetaStateTotal DEF Listed, LifeCycle, CallRecord
<1>2. CASE c.dial = "null"
  BY <1>2 DEF ReplaceDialNumber
<1>3. CASE c.dial # "null"
  <2>1. p \in Peer \cup {"blank"} /\ p # "none" /\ p # "temporary"
    BY <1>1, PeerAssumption DEF CallRecord, WithNumber
  <2>2. d = [[c EXCEPT !.peer = p] EXCEPT
               !.dial = "null", !.active = @ \ {"temporary"},
               !.init = @ \ {"temporary"}]
    BY <1>3 DEF ReplaceDialNumber, DropDialNumber
  <2> HIDE DEF p
  <2>3. /\ d.state = c.state /\ d.peer = p /\ d.active = c.active \ {"temporary"}
        /\ d.init = c.init \ {"temporary"}
    BY <1>1, <2>2 DEF CallRecord
  <2>4. Target(d) = p /\ LifeCycle(d) = LifeCycle(c)
    BY <2>1, <2>3 DEF Target, LifeCycle
  <2>5. c.peer # "none" => p = c.peer /\ Target(c) = p
    BY DEF p, Target
  <2>6. c.peer = "none" => Target(c) = "temporary"
    BY <1>3 DEF Target
  <2>7. d \in CallRecord
    BY <1>1, ReplaceDialNumberType
  <2> HIDE DEF d
  <2>8. RegisteredOn(d)
    BY <1>1, <2>1, <2>3, <2>4, <2>5, <2>6 DEF RegisteredOn, LifeCycleState
  <2> QED
    BY <1>3, <2>1, <2>3, <2>5, <2>7, <2>8 DEF Listed, d
<1> QED
  BY <1>2, <1>3

-----------------------------------------------------------------------------
(* What keeps the invariant.                                               *)

\* The invariant, of an object that an action is about to store.
Kept(c) == Listed(c) /\ Named(c) /\ (Unplaced(c) => Idle(ring))

LEMMA InvIsKept == RegistrationInv <=> TypeOK /\ Kept(call)
BY DEF RegistrationInv, Kept, Listed, Registered, TypeOK

\* The daemon has no call to apply a request to.
LEMMA IdleRequests ==
  ASSUME NEW d, Idle(d), NEW i
  PROVE  /\ Accepted(d, i) = d /\ Refused(d, i) = d /\ HungUp(d, i) = d
         /\ Held(d, i) = d /\ Unheld(d, i) = d /\ AfterTransfer(d, i) = {d}
         /\ ~Known(d, i)
<1>1. \A j \in DaemonId : d.calls[j] = "free"
  BY DEF Idle, NoCall
<1>2. "free" \notin Alive \cup {"ended"}
  BY DEF Alive, Unanswered, Established
<1>3. /\ {"incoming"} \subseteq Alive /\ {"current"} \subseteq Alive
      /\ {"held"} \subseteq Alive /\ Established \subseteq Alive
  BY DEF Alive, Unanswered, Established
<1>4. ASSUME NEW from \in SUBSET Alive, NEW to, NEW s
      PROVE  Request(d, i, from, to, s) = d
  BY <1>1, <1>2 DEF Request
<1> QED
  BY <1>1, <1>2, <1>3, <1>4 DEF Accepted, Refused, HungUp, Held, Unheld,
       AfterTransfer, Transferred, Known

LEMMA SameKept ==
  ASSUME NEW c, Kept(c), NEW d \in CallRecord, d.state = c.state,
         d.peer = c.peer, d.dial = c.dial, d.active = c.active, d.init = c.init
  PROVE  Kept(d)
BY SameRegistered DEF Kept, Listed, Named, Unplaced, LifeCycle

\* A call may end at any time.
LEMMA EndKept ==
  ASSUME NEW c, Listed(c), c.peer = "none" => Idle(ring),
         NEW s \in {"ERROR", "OVER", "ABORTED", "FAILURE"}
  PROVE  /\ Kept(changeCurrentState(c, s))
         /\ changeCurrentState(c, s).peer = c.peer
         /\ Finished(changeCurrentState(c, s))
<1>1. s \in State /\ metaStateMap[s] = "FINISHED"
  BY DEF State, metaStateMap
<1>2. Legal(LifeCycle(c), metaStateMap[s])
  BY <1>1 DEF Legal
<1> QED
  BY <1>1, <1>2, ChangeListed DEF Kept, Named, Unplaced, LifeCycle, Finished

\* A call being dialed is listed nowhere.
Dialed(c) ==
  /\ c \in CallRecord /\ LifeCycle(c) = "CREATION"
  /\ c.active = {} /\ c.init = {}

LEMMA DialedKept ==
  ASSUME NEW c, Dialed(c), Idle(ring)
  PROVE  Kept(c)
BY DEF Dialed, Kept, Listed, RegisteredOn, Named

LEMMA DialedChanges ==
  ASSUME NEW c, Dialed(c), NEW s \in {"NEW", "DIALING"}
  PROVE  Dialed(changeCurrentState(c, s))
<1> DEFINE moved == [c EXCEPT !.state = s]
           d     == changeCurrentState(c, s)
<1>1. /\ moved \in CallRecord /\ moved.state = s
      /\ moved.active = {} /\ moved.init = {}
  BY DEF Dialed, CallRecord, State
<1>2. LifeCycle(moved) = "CREATION"
  BY <1>1 DEF LifeCycle, metaStateMap, State
<1>3. d \in CallRecord
  BY changeCurrentStateType DEF Dialed, State
<1>4. d = c \/ d = initTimer(moved)
  BY <1>2 DEF changeCurrentState, Dialed
<1> HIDE DEF moved, d
<1> QED
  BY <1>1, <1>2, <1>3, <1>4, initTimerKeeps DEF Dialed, LifeCycle, d

LEMMA DialedNumber ==
  ASSUME NEW c, Dialed(c), NEW n \in Number \cup {"null"}
  PROVE  Dialed([c EXCEPT !.dial = n])
BY DEF Dialed, CallRecord, LifeCycle

-----------------------------------------------------------------------------
(* The actions.                                                            *)

LEMMA InitKept == OwnCall /\ Init => RegistrationInv
<1> SUFFICES ASSUME OwnCall, Init PROVE Kept(call)
  BY InitType, InvIsKept
<1>0. call \in CallRecord
  BY InitType DEF TypeOK
<1>1. ASSUME NEW s \in State, NEW i, NEW p, call = Built(s, i, p, TRUE, {})
                                         \/ call = Built(s, i, p, FALSE, {})
      PROVE  call.state = s /\ call.peer = p /\ call.active = {} /\ call.init = {}
  BY <1>1 DEF Built, initTimer
<1>2. CASE InitDialing
  <2>1. call.state = "NEW" /\ call.active = {} /\ call.init = {}
    BY <1>1, <1>2 DEF InitDialing, State
  <2>2. LifeCycle(call) = "CREATION"
    BY <2>1 DEF LifeCycle, metaStateMap, State
  <2> QED
    BY <1>0, <1>2, <2>1, <2>2, DialedKept DEF InitDialing, Idle, Dialed
<1>3. CASE InitIncoming
  <2>1. PICK i \in DaemonId, p \in Peer : call = Built("INCOMING", i, p, FALSE, {})
    BY <1>3 DEF InitIncoming
  <2>2. /\ call.state = "INCOMING" /\ call.peer = p
        /\ call.active = {} /\ call.init = {}
    BY <1>1, <2>1 DEF State
  <2>3. LifeCycle(call) = "INITIALIZATION" /\ p # "none"
    BY <2>2, PeerAssumption DEF LifeCycle, metaStateMap, State
  <2> QED
    BY <1>0, <2>2, <2>3 DEF Kept, Listed, RegisteredOn, Named, Unplaced
<1> QED
  BY <1>2, <1>3 DEF Init, OwnCall, InitExisting

\* The object after the table, if the action does not place the call.
LEMMA EnteredKept ==
  ASSUME RegistrationInv, NoRecordColumn, NEW a \in Action, NEW fs,
         Performs(a, fs)
  PROVE  /\ Listed(Entered(a))
         /\ Entered(a).peer = call.peer /\ Entered(a).dial = call.dial
         /\ Entered(a).state = actionPerformedStateMap[call.state][a]
         /\ "call" \notin fs => Kept(Entered(a))
<1> DEFINE to == actionPerformedStateMap[call.state][a]
           e  == Entered(a)
<1>1. /\ Kept(call) /\ call.state \in State
      /\ a \in Action \ {"RECORD_VIDEO", "RECORD_TEXT"}
  BY InvIsKept DEF RegistrationInv, TypeOK, CallRecord, Performs, NoRecordColumn
<1>2. to \in State
  BY <1>1, ActionTotal
<1>3. /\ Legal(LifeCycle(call), metaStateMap[to])
      /\ metaStateMap[to] \in {"INITIALIZATION", "PROGRESS"} =>
           \/ LifeCycle(call) \in {"INITIALIZATION", "PROGRESS"}
           \/ actionPerformedFunctionMap[call.state][a] = "call"
  BY <1>1, ActionIsLegal DEF LifeCycle
<1> HIDE DEF to
<1>4. /\ Listed(e) /\ e.peer = call.peer /\ e.dial = call.dial /\ e.state = to
  BY <1>1, <1>2, <1>3, ChangeListed DEF Kept, Entered, to
<1>5. ASSUME "call" \notin fs PROVE Kept(e)
  <2>1. actionPerformedFunctionMap[call.state][a] # "call"
    BY <1>5 DEF Performs
  <2>2. LifeCycle(e) = metaStateMap[to] /\ metaStateMap[to] \in LifeCycleState
    BY <1>2, <1>4, MetaStateTotal DEF LifeCycle
  <2>3. Named(e) /\ (Unplaced(e) => Unplaced(call))
    BY <1>1, <1>3, <1>4, <2>1, <2>2 DEF Kept, Named, Unplaced, Legal
  <2> QED
    BY <1>1, <1>4, <2>3 DEF Kept
<1> QED
  BY <1>4, <1>5 DEF to

\* What an action must do.
LEMMA KeepingIsEnough ==
  ASSUME TypeOK', NEW c, call' = c, Kept(c), Idle(ring) => ring' = ring
  PROVE  RegistrationInv'
<1>1. Unplaced(c) => Idle(ring)'
  BY DEF Kept, Idle
<1> QED
  BY <1>1 DEF Kept, Listed, RegistrationInv, Registered

LEMMA PerformKept ==
  ASSUME RegistrationInv, NoRecordColumn, NEW a \in Action, Perform(a)
  PROVE  RegistrationInv'
<1> DEFINE e == Entered(a)
<1>1. TypeOK' /\ call' \in CallRecord /\ e \in CallRecord /\ Kept(call)
  BY PerformType, EnteredType, InvIsKept DEF RegistrationInv, TypeOK
<1>2. ASSUME NEW c \in CallRecord, c.state = e.state, c.peer = e.peer,
             c.dial = e.dial, c.active = e.active, c.init = e.init, Kept(e)
      PROVE  /\ Kept(c)
             /\ Kept(changeCurrentState(c, "OVER"))
             /\ Kept(changeCurrentState(c, "ERROR"))
  <2>1. Kept(c)
    BY <1>2, SameKept
  <2>2. c.peer = "none" => Idle(ring)
    BY <2>1 DEF Kept, Unplaced
  <2> QED
    BY <2>1, <2>2, EndKept DEF Kept
<1>3. Idle(ring) =>
        /\ Accepted(ring, call.id) = ring /\ Refused(ring, call.id) = ring
        /\ HungUp(ring, call.id) = ring /\ Held(ring, call.id) = ring
        /\ Unheld(ring, call.id) = ring
        /\ AfterTransfer(ring, call.id) = {ring}
  BY IdleRequests
<1>4. /\ stop(e) \in CallRecord /\ stop(e).state = e.state
      /\ stop(e).peer = e.peer /\ stop(e).dial = e.dial
      /\ stop(e).active = e.active /\ stop(e).init = e.init
  BY <1>1, ZenonT(40) DEF stop, CallRecord
<1>5. ASSUME NEW fs, Performs(a, fs), "call" \notin fs PROVE Kept(e)
  BY <1>5, EnteredKept
<1> HIDE DEF e
<1>6. CASE PerformNothing(a)
  BY <1>1, <1>5, <1>6, KeepingIsEnough DEF PerformNothing, e
<1>7. CASE Accept(a)
  <2>1. call' = [e EXCEPT !.start = TRUE, !.outgoing = FALSE] /\ Kept(e)
    BY <1>5, <1>7 DEF Accept, e
  <2>2. /\ call'.state = e.state /\ call'.peer = e.peer /\ call'.dial = e.dial
        /\ call'.active = e.active /\ call'.init = e.init
    BY <1>1, <2>1 DEF CallRecord
  <2>3. Kept(call')
    BY <1>1, <1>2, <2>1, <2>2
  <2> QED
    BY <1>1, <1>3, <1>7, <2>3, KeepingIsEnough DEF Accept
<1>8. CASE Refuse(a)
  <2> DEFINE c == [e EXCEPT !.start = TRUE, !.missed = TRUE, !.reason = "REFUSED"]
  <2>1. call' \in {c, changeCurrentState(c, "ERROR")} /\ Kept(e)
    BY <1>5, <1>8 DEF Refuse, e
  <2>2. /\ c.state = e.state /\ c.peer = e.peer /\ c.dial = e.dial
        /\ c.active = e.active /\ c.init = e.init
    BY <1>1 DEF CallRecord
  <2>3. c \in CallRecord
    <3>1. e \in CallRecord
      BY <1>1
    <3> QED
      BY <3>1 DEF CallRecord
  <2> HIDE DEF c
  <2>4. Kept(call')
    BY <1>2, <2>1, <2>2, <2>3
  <2> QED
    BY <1>1, <1>3, <1>8, <2>4, KeepingIsEnough DEF Refuse
<1>9. CASE AcceptTransfer(a)
  <2>1. call' = e /\ Kept(e)
    BY <1>5, <1>9 DEF AcceptTransfer, e
  <2>2. Idle(ring) => ring' = ring
    BY <1>3, <1>9 DEF AcceptTransfer
  <2> QED
    BY <1>1, <2>1, <2>2, KeepingIsEnough
<1>10. CASE AcceptHold(a)
  <2>1. call' = [e EXCEPT !.outgoing = FALSE] /\ Kept(e)
    BY <1>5, <1>10 DEF AcceptHold, e
  <2>2. Kept(call')
    BY <1>1, <1>2, <2>1 DEF CallRecord
  <2>3. Idle(ring) => ring' = ring
    BY <1>3, <1>10 DEF AcceptHold
  <2> QED
    BY <1>1, <2>2, <2>3, KeepingIsEnough
<1>11. CASE HangUp(a)
  <2> DEFINE c == IF Known(ring, call.id) THEN stop(e)
                  ELSE changeCurrentState(stop(e), "OVER")
  <2>1. call' = [c EXCEPT !.timer = IF @ = "none" THEN @ ELSE "stopped"] /\ Kept(e)
    BY <1>5, <1>11 DEF HangUp, e
  <2>2. Kept(c)
    BY <1>2, <1>4, <2>1
  <2> HIDE DEF c
  <2>3. Kept(call')
    BY <1>1, <2>1, <2>2, SameKept DEF CallRecord, Kept, Listed
  <2> QED
    BY <1>1, <1>3, <1>11, <2>3, KeepingIsEnough DEF HangUp
<1>12. CASE Remove(a) \/ Cancel(a)
  <2>1. /\ Kept(e)
        /\ call' \in {e, changeCurrentState(e, "ERROR"),
                      changeCurrentState(e, "OVER")}
    BY <1>5, <1>12 DEF Remove, Cancel, e
  <2>2. Kept(call')
    BY <1>1, <1>2, <2>1
  <2> QED
    BY <1>1, <1>3, <1>12, <2>2, KeepingIsEnough DEF Remove, Cancel
<1>13. CASE Hold(a) \/ Unhold(a)
  <2>1. /\ Kept(e)
        /\ \/ call' = [e EXCEPT !.hold = @ \cup {"OUT"}]
           \/ call' = [e EXCEPT !.hold = @ \ {"OUT"}]
    BY <1>5, <1>13 DEF Hold, Unhold, e
  <2>2. Kept(call')
    BY <1>1, <1>2, <2>1 DEF CallRecord
  <2> QED
    BY <1>1, <1>3, <1>13, <2>2, KeepingIsEnough DEF Hold, Unhold
<1>14. CASE Transfer(a)
  <2>1. Kept(e) /\ call' \in {e, stop(e)}
    BY <1>5, <1>14 DEF Transfer, e
  <2>2. Kept(call')
    BY <1>1, <1>2, <1>4, <2>1
  <2>3. Idle(ring) => ring' = ring
    BY <1>3, <1>14 DEF Transfer
  <2> QED
    BY <1>1, <2>2, <2>3, KeepingIsEnough
<1>15. CASE ToggleRecord(a)
  <2>1. Kept(e) /\ UNCHANGED ring
    BY <1>5, <1>15 DEF ToggleRecord, e
  <2>2. PICK r : call' = [e EXCEPT !.recording = r]
    BY <1>15 DEF ToggleRecord, e
  <2>3. Kept(call')
    BY <1>1, <1>2, <2>1, <2>2 DEF CallRecord
  <2> QED
    BY <1>1, <2>1, <2>3, KeepingIsEnough
<1>16. CASE CallNobody(a) \/ CallWithoutAccount(a)
  <2> DEFINE c == changeCurrentState(e, "ABORTED")
  <2>1. Listed(e) /\ (e.peer = "none" => Idle(ring)) /\ UNCHANGED ring
    BY <1>1, <1>16, EnteredKept
       DEF CallNobody, CallWithoutAccount, Kept, Unplaced, e
  <2>2. CASE CallWithoutAccount(a)
    BY <1>1, <2>1, <2>2, EndKept, KeepingIsEnough DEF CallWithoutAccount, e
  <2>3. CASE CallNobody(a)
    <3>1. call' = DropDialNumber(c) /\ Kept(c) /\ Finished(c)
      BY <2>1, <2>3, EndKept DEF CallNobody, e
    <3> HIDE DEF c
    <3>2. c \in CallRecord /\ c.active = {} /\ c.init = {}
      BY <3>1 DEF Kept, Listed, RegisteredOn, Finished
    <3>3. /\ call'.state = c.state /\ call'.peer = c.peer
          /\ call'.active = {} /\ call'.init = {}
      BY <3>1, <3>2 DEF DropDialNumber, CallRecord
    <3>4. Kept(call')
      BY <1>1, <3>1, <3>3
         DEF Kept, Listed, RegisteredOn, Named, Unplaced, Finished, LifeCycle
    <3> QED
      BY <1>1, <2>1, <3>4, KeepingIsEnough
  <2> QED
    BY <1>16, <2>2, <2>3
<1>17. CASE PlaceCall(a) \/ PlaceCallFails(a)
  <2> DEFINE x == [e EXCEPT !.account = TRUE, !.outgoing = TRUE, !.start = TRUE]
             p == Placed(a)
  <2>1. Performs(a, {"call"}) /\ TargetUri(e) \in Peer
    BY <1>17 DEF PlaceCall, PlaceCallFails, e
  <2>2. Listed(e) /\ LifeCycle(e) = "INITIALIZATION"
    <3>1. Listed(e) /\ e.state = actionPerformedStateMap[call.state][a]
      BY <2>1, EnteredKept DEF e
    <3>2. e.state = "INITIALIZATION"
      BY <2>1, <3>1, CallIsPlaced DEF Performs, RegistrationInv, TypeOK, CallRecord
    <3> QED
      BY <3>1, <3>2 DEF LifeCycle, metaStateMap, State
  <2>3. /\ x \in CallRecord /\ x.state = e.state /\ x.peer = e.peer
        /\ x.dial = e.dial /\ x.active = e.active /\ x.init = e.init
    BY <1>1, ZenonT(40) DEF CallRecord
  <2>4. p = ReplaceDialNumber(x)
    BY DEF Placed, e
  <2> HIDE DEF x, p
  <2>5. Listed(x) /\ LifeCycle(x) = "INITIALIZATION"
    BY <2>2, <2>3, SameRegistered DEF Listed, LifeCycle
  <2>6. x.peer # "none" \/ x.dial # "null"
    BY <2>1, <2>3, PeerAssumption DEF TargetUri
  <2>7. Listed(p) /\ p.state = x.state /\ p.peer # "none"
    BY <2>4, <2>5, <2>6, ReplaceListed
  <2>8. CASE PlaceCallFails(a)
    <3> DEFINE c == changeCurrentState(p, "FAILURE")
    <3>1. call' = [c EXCEPT !.id = "failed"] /\ UNCHANGED ring
      BY <2>8 DEF PlaceCallFails, p
    <3>2. Kept(c)
      BY <2>7, EndKept
    <3> HIDE DEF c
    <3>3. Kept(call')
      BY <1>1, <3>1, <3>2, SameKept DEF CallRecord, Kept, Listed
    <3> QED
      BY <1>1, <3>1, <3>3, KeepingIsEnough
  <2>9. CASE PlaceCall(a)
    <3>1. PICK i \in DaemonId : call' = [p EXCEPT !.id = i]
      BY <2>9 DEF PlaceCall, p
    <3>2. p \in CallRecord /\ RegisteredOn(p)
      BY <2>7 DEF Listed
    <3>3. /\ call'.state = p.state /\ call'.peer = p.peer /\ call'.dial = p.dial
          /\ call'.active = p.active /\ call'.init = p.init
      BY <3>1, <3>2 DEF CallRecord
    <3>4. RegisteredOn(call') /\ call'.peer # "none"
      BY <2>7, <3>2, <3>3, SameRegistered
    <3>5. LifeCycle(call') = "INITIALIZATION"
      BY <2>5, <2>7, <3>3 DEF LifeCycle
    <3> QED
      BY <1>1, <3>4, <3>5 DEF RegistrationInv, Registered, Named, Unplaced
  <2> QED
    BY <1>17, <2>8, <2>9
<1> QED
  BY <1>6, <1>7, <1>8, <1>9, <1>10, <1>11, <1>12, <1>13, <1>14, <1>15, <1>16,
     <1>17 DEF Perform

LEMMA EditKept ==
  ASSUME RegistrationInv,
         \/ \E n \in Number : SetDialNumber(n) \/ Backspace(n)
         \/ \E p \in Peer : SetPeerContactMethod(p) \/ AppendText(p)
         \/ \E known \in BOOLEAN : SetAccount(known)
         \/ \E n \in {"empty", "set"} : SetTransferNumber(n)
         \/ BackspaceNothing \/ BackspaceCrashes \/ Reset
  PROVE  RegistrationInv'
<1>1. TypeOK' /\ call' \in CallRecord /\ Kept(call) /\ call \in CallRecord
  BY EditType, InvIsKept DEF RegistrationInv, TypeOK
<1>2. SUFFICES Kept(call')
  <2>1. UNCHANGED ring
    BY DEF SetDialNumber, Backspace, SetPeerContactMethod, AppendText,
           SetAccount, SetTransferNumber, BackspaceNothing, BackspaceCrashes,
           Reset
  <2> QED
    BY <1>1, <2>1, KeepingIsEnough
<1>3. LifeCycle(call) = "CREATION" => Idle(ring) /\ Dialed(call)
  BY <1>1 DEF Kept, Unplaced, Listed, RegisteredOn, Dialed
<1>4. "empty" \in Number /\ Peer \subseteq Number /\ call.dial \in Number \cup {"null"}
  BY <1>1 DEF Number, CallRecord
<1>5. ASSUME NEW t, call' = [call EXCEPT !.transferTo = t] PROVE Kept(call')
  BY <1>1, <1>5, SameKept DEF CallRecord
<1>6. ASSUME Crash PROVE Kept(call')
  BY <1>1, <1>6, SameKept DEF Crash, CallRecord
<1>7. ASSUME NEW c, Dialed(c), NEW n \in Number
      PROVE  Dialed(WithDialNumber(c, n))
  BY <1>7, DialedNumber, DialedChanges DEF WithDialNumber
<1>8. ASSUME NEW n \in Number, SetDialNumber(n) PROVE Kept(call')
  BY <1>3, <1>6, <1>7, <1>8, DialedKept DEF SetDialNumber
<1>9. ASSUME NEW p \in Peer, SetPeerContactMethod(p) PROVE Kept(call')
  <2>1. LifeCycle(call) = "CREATION"
    BY <1>9 DEF SetPeerContactMethod
  <2>2. Dialed([call EXCEPT !.peer = p])
    BY <1>3, <2>1 DEF Dialed, CallRecord, LifeCycle
  <2> QED
    BY <1>3, <1>4, <1>6, <1>7, <1>9, <2>1, <2>2, DialedKept
       DEF SetPeerContactMethod
<1>10. ASSUME NEW known \in BOOLEAN, SetAccount(known) PROVE Kept(call')
  <2>1. call' = [call EXCEPT !.account = known]
    BY <1>10 DEF SetAccount
  <2> QED
    BY <1>1, <2>1, SameKept DEF CallRecord
<1>11. ASSUME NEW n, SetTransferNumber(n) PROVE Kept(call')
  BY <1>5, <1>11 DEF SetTransferNumber
<1>12. ASSUME NEW p \in Peer, AppendText(p) PROVE Kept(call')
  <2> DEFINE n == IF call.dial = "null" THEN call.dial ELSE p
  <2>1. CASE /\ LifeCycle(call) = "CREATION"
             /\ call' = changeCurrentState([call EXCEPT !.dial = n], "DIALING")
    <3>1. n \in Number \cup {"null"}
      BY <1>4
    <3> HIDE DEF n
    <3> QED
      BY <1>3, <2>1, <3>1, DialedNumber, DialedChanges, DialedKept
  <2> QED
    BY <1>5, <1>12, <2>1 DEF AppendText, EditsDial
<1>13. ASSUME NEW n \in Number, Backspace(n) PROVE Kept(call')
  <2>1. CASE /\ LifeCycle(call) = "CREATION"
             /\ call' = [changeCurrentState(call, "DIALING") EXCEPT !.dial = n]
    BY <1>3, <2>1, DialedNumber, DialedChanges, DialedKept
  <2> QED
    BY <1>5, <1>13, <2>1 DEF Backspace, EditsDial
<1>14. ASSUME BackspaceNothing PROVE Kept(call')
  <2>1. Listed(call) /\ (call.peer = "none" => Idle(ring))
    BY <1>1 DEF Kept, Unplaced
  <2> QED
    BY <1>14, <2>1, EndKept DEF BackspaceNothing
<1>15. ASSUME Reset PROVE Kept(call')
  <2> DEFINE c == changeCurrentState(call, "NEW")
             n == IF c.dial = "null" THEN c.dial ELSE "empty"
  <2>1. CASE LifeCycle(call) = "CREATION" /\ call' = [c EXCEPT !.dial = n]
    <3>1. Dialed(c)
      BY <1>3, <2>1, DialedChanges
    <3>2. n \in Number \cup {"null"}
      BY <1>4
    <3> HIDE DEF c, n
    <3> QED
      BY <1>3, <2>1, <3>1, <3>2, DialedNumber, DialedKept
  <2> QED
    BY <1>5, <1>15, <2>1 DEF Reset, EditsDial
<1> QED
  BY <1>6, <1>8, <1>9, <1>10, <1>11, <1>12, <1>13, <1>14, <1>15
     DEF BackspaceCrashes

LEMMA TransferKept ==
  ASSUME RegistrationInv, NoRecordColumn, AttendedTransfer \/ UnattendedTransfer
  PROVE  RegistrationInv'
<1>1. TypeOK' /\ Kept(call) /\ call \in CallRecord /\ Listed(call)
  BY TransferType, InvIsKept DEF RegistrationInv, TypeOK, Kept
<1>2. ~Idle(ring) /\ call.peer # "none"
  BY <1>1, IdleRequests DEF AttendedTransfer, UnattendedTransfer, Kept, Unplaced
<1>3. CASE AttendedTransfer
  BY <1>1, <1>2, <1>3, EndKept, KeepingIsEnough DEF AttendedTransfer
<1>4. CASE UnattendedTransfer
  <2> DEFINE named == [call EXCEPT !.transferTo = "set"]
             to    == actionPerformedStateMap[call.state]["TRANSFER"]
             left  == changeCurrentState(named, to)
             after == IF OnTransfer(call.state) = "transfer" THEN stop(left)
                      ELSE left
             shown == changeCurrentState(after, "TRANSFERRED")
  <2>1. ASSUME NEW c, Listed(c)
        PROVE  Listed(stop(c)) /\ stop(c).peer = c.peer
    <3>1. /\ stop(c) \in CallRecord /\ stop(c).state = c.state
          /\ stop(c).peer = c.peer /\ stop(c).dial = c.dial
          /\ stop(c).active = c.active /\ stop(c).init = c.init
      BY <2>1 DEF Listed, stop, CallRecord
    <3> QED
      BY <2>1, <3>1, SameRegistered DEF Listed
  <2>2. Listed(named) /\ named.peer = call.peer /\ named.state = call.state
    <3>1. /\ named \in CallRecord /\ named.state = call.state
          /\ named.peer = call.peer /\ named.dial = call.dial
          /\ named.active = call.active /\ named.init = call.init
      BY <1>1 DEF CallRecord
    <3> QED
      BY <1>1, <3>1, SameRegistered DEF Listed
  <2>3. to \in State /\ Legal(LifeCycle(named), metaStateMap[to])
    <3>1. call.state \in State
          /\ "TRANSFER" \in Action \ {"RECORD_VIDEO", "RECORD_TEXT"}
      BY <1>1 DEF CallRecord, Action
    <3> QED
      BY <2>2, <3>1, ActionTotal, ActionIsLegal DEF LifeCycle
  <2> HIDE DEF named, to
  <2>4. Listed(left) /\ left.peer = call.peer
    BY <2>2, <2>3, ChangeListed
  <2> HIDE DEF left
  <2>5. Listed(after) /\ after.peer = call.peer
    BY <2>1, <2>4
  <2>6. "TRANSFERRED" \in State /\ metaStateMap["TRANSFERRED"] = "PROGRESS"
    BY DEF State, metaStateMap
  <2>7. Legal(LifeCycle(after), "PROGRESS")
    BY DEF Legal
  <2> HIDE DEF after
  <2>8. Listed(shown) /\ shown.peer = call.peer
    BY <2>5, <2>6, <2>7, ChangeListed
  <2> HIDE DEF shown
  <2>9. call' = changeCurrentState(stop(shown), "OVER")
    BY <1>4 DEF UnattendedTransfer, shown, after, left, to, named
  <2>10. Kept(call')
    BY <1>2, <2>1, <2>8, <2>9, EndKept
  <2> QED
    BY <1>1, <1>2, <2>10, KeepingIsEnough
<1> QED
  BY <1>3, <1>4

\* What stateChanged() runs keeps a call that has a contact method listed.
LEMMA CallbackListed ==
  ASSUME NEW c, Listed(c), c.peer # "none", LifeCycle(c) # "CREATION", NEW f
  PROVE  LET d == DaemonCallback(f, c)
         IN  Listed(d) /\ d.peer = c.peer /\ LifeCycle(d) # "CREATION"
<1> DEFINE Fine(d) == Listed(d) /\ d.peer = c.peer /\ LifeCycle(d) # "CREATION"
<1>1. ASSUME NEW x, Fine(x), NEW d \in CallRecord, d.state = x.state,
             d.peer = x.peer, d.dial = x.dial, d.active = x.active,
             d.init = x.init
      PROVE  Fine(d)
  BY <1>1, SameRegistered DEF Listed, LifeCycle
<1>2. ASSUME NEW x, Fine(x) PROVE Fine(initTimer(x))
  BY <1>1, <1>2, initTimerKeeps, initTimerType DEF Listed
<1>3. ASSUME NEW x, Fine(x) PROVE Fine(sendProfile(x))
  <2>1. x \in CallRecord /\ sendProfile(x) \in CallRecord
    BY <1>3, sendProfileType DEF Listed
  <2> QED
    BY <1>1, <1>3, <2>1 DEF sendProfile, CallRecord
<1>4. ASSUME NEW x, Fine(x) PROVE Fine([x EXCEPT !.start = TRUE])
  <2> DEFINE d == [x EXCEPT !.start = TRUE]
  <2>1. x \in CallRecord
    BY <1>4 DEF Listed
  <2>2. /\ d \in CallRecord /\ d.state = x.state /\ d.peer = x.peer
        /\ d.dial = x.dial /\ d.active = x.active /\ d.init = x.init
    BY <2>1 DEF CallRecord
  <2> HIDE DEF d
  <2>3. Fine(d)
    BY <1>1, <1>4, <2>2
  <2> QED
    BY <2>3 DEF d
<1>5. ASSUME NEW x, Fine(x) PROVE Fine(ReplaceDialNumber(x))
  BY <1>5, ReplaceListed DEF LifeCycle
<1>6. ASSUME NEW x, Fine(x) PROVE Fine([x EXCEPT !.missed = TRUE])
  <2> DEFINE d == [x EXCEPT !.missed = TRUE]
  <2>1. x \in CallRecord
    BY <1>6 DEF Listed
  <2>2. /\ d \in CallRecord /\ d.state = x.state /\ d.peer = x.peer
        /\ d.dial = x.dial /\ d.active = x.active /\ d.init = x.init
    BY <2>1 DEF CallRecord
  <2> HIDE DEF d
  <2>3. Fine(d)
    BY <1>1, <1>6, <2>2
  <2> QED
    BY <2>3 DEF d
<1>7. Fine(c)
  OBVIOUS
<1>8. Fine(stop(c))
  <2>1. stop(c) \in CallRecord
    BY DEF stop, Listed, CallRecord
  <2> QED
    BY <1>1, <1>7, <2>1 DEF stop, Listed, CallRecord
<1>9. Fine(startStop(c))
  <2>0. c \in CallRecord
    BY DEF Listed
  <2>1. startStop(c) \in CallRecord
    BY <2>0, ZenonT(40) DEF startStop, CallRecord
  <2>2. /\ startStop(c).state = c.state /\ startStop(c).peer = c.peer
        /\ startStop(c).dial = c.dial /\ startStop(c).active = c.active
        /\ startStop(c).init = c.init
    BY <2>0 DEF startStop, CallRecord
  <2> QED
    BY <1>1, <1>7, <2>1, <2>2
<1>10. Fine(changeCurrentState(c, "ERROR"))
  BY EndKept DEF Kept, Finished
<1> HIDE DEF Fine
<1>11. ASSUME NEW x, Fine(x) PROVE Fine(start(x))
  BY <1>2, <1>3, <1>4, <1>5, <1>11 DEF start
<1>12. Fine(startWeird(c))
  BY <1>3, <1>4, <1>7 DEF startWeird
<1>13. Fine(failure(c))
  BY <1>6, <1>7, <1>11 DEF failure
<1>14. Fine(warning(c))
  BY <1>7, <1>8 DEF warning
<1>15. Fine(DaemonCallback(f, c))
  BY <1>7, <1>8, <1>9, <1>10, <1>11, <1>12, <1>13, <1>14 DEF DaemonCallback
<1> QED
  BY <1>15 DEF Fine

LEMMA DeliverKept ==
  ASSUME RegistrationInv, Deliver
  PROVE  RegistrationInv'
<1> DEFINE e     == Head(ring.queue)
           coded == [call EXCEPT !.code = IF e.code = "none" THEN @ ELSE e.code]
           d     == Reported(e)
           to    == stateChangedStateMap[call.state][d]
           moved == changeCurrentState(coded, to)
           shown == SyncHoldFlag(moved)
           f     == stateChangedFunctionMap[call.state][d]
           done  == DaemonCallback(f, shown)
           changed == stateChanged(coded, d)
<1>1. TypeOK' /\ call' \in CallRecord /\ Kept(call) /\ call \in CallRecord
  BY DeliverType, InvIsKept DEF RegistrationInv, TypeOK
<1>2. ~Idle(ring) /\ call.peer # "none" /\ LifeCycle(call) # "CREATION"
  BY <1>1 DEF Deliver, Kept, Unplaced, Idle
<1>3. e \in Event
  BY DEF RegistrationInv, TypeOK, RingRecord, Deliver
<1> HIDE DEF e
<1>4. d \in DaemonState /\ e.code \in Code
  BY <1>3 DEF Event, Reported, toDaemonCallState, DaemonState, StateEvent
<1> HIDE DEF d
<1>5. /\ coded \in CallRecord /\ coded.state = call.state
      /\ coded.peer = call.peer /\ coded.dial = call.dial
      /\ coded.active = call.active /\ coded.init = call.init
  BY <1>1, <1>4 DEF CallRecord
<1>6. Listed(coded) /\ LifeCycle(coded) = LifeCycle(call)
  BY <1>1, <1>5, SameRegistered DEF Kept, Listed, LifeCycle
<1>7. to \in State /\ Legal(LifeCycle(call), metaStateMap[to])
  BY <1>1, <1>4, EventTotal, EventIsLegal DEF LifeCycle, CallRecord
<1>8. changed = IF f = "error" \/ LifeCycle(done) = "CREATION" THEN done
                ELSE ReplaceDialNumber(done)
  BY <1>5 DEF stateChanged
<1> HIDE DEF coded, to, f
<1>9. /\ Listed(moved) /\ moved.peer = call.peer
      /\ LifeCycle(moved) # "CREATION"
  BY <1>2, <1>5, <1>6, <1>7, ChangeListed DEF LifeCycle, Legal
<1> HIDE DEF moved
<1>10. /\ shown \in CallRecord /\ shown.state = moved.state
       /\ shown.peer = moved.peer /\ shown.dial = moved.dial
       /\ shown.active = moved.active /\ shown.init = moved.init
  BY <1>9 DEF SyncHoldFlag, Listed, CallRecord
<1>11. Listed(shown) /\ shown.peer = call.peer /\ LifeCycle(shown) # "CREATION"
  BY <1>9, <1>10, SameRegistered DEF Listed, LifeCycle
<1> HIDE DEF shown
<1>12. Listed(done) /\ done.peer = call.peer /\ LifeCycle(done) # "CREATION"
  BY <1>2, <1>11, CallbackListed
<1> HIDE DEF done
<1>13. /\ Listed(changed) /\ changed.peer = call.peer
       /\ LifeCycle(changed) # "CREATION"
  BY <1>2, <1>8, <1>12, ReplaceListed DEF LifeCycle
<1>14. call' = [changed EXCEPT !.logged = @ \/ Finished(changed)]
  BY DEF Deliver, changed, coded, d, e
<1> HIDE DEF changed
<1>15. /\ call'.state = changed.state /\ call'.peer = changed.peer
       /\ call'.dial = changed.dial /\ call'.active = changed.active
       /\ call'.init = changed.init
  BY <1>13, <1>14 DEF Listed, CallRecord
<1>16. RegisteredOn(call') /\ LifeCycle(call') # "CREATION"
  BY <1>13, <1>15, SameRegistered DEF Listed, LifeCycle
<1> QED
  BY <1>1, <1>2, <1>13, <1>15, <1>16
     DEF RegistrationInv, Registered, Named, Unplaced

\* What the daemon does on its own, it does to a call that was placed.
LEMMA RingKept ==
  ASSUME RegistrationInv, RingMoves
  PROVE  RegistrationInv'
<1>1. TypeOK' /\ UNCHANGED call
  BY RingMovesType DEF RegistrationInv, TypeOK
<1>2. ASSUME NEW from \in SUBSET (Alive \cup {"ended"}), NEW to, NEW s,
             NEW codes, Ring(from, to, s, codes)
      PROVE  ~Idle(ring)
  BY <1>2 DEF Ring, Idle, NoCall, Alive, Unanswered, Established
<1>3. /\ {"ringing"} \subseteq Alive /\ {"connecting"} \subseteq Alive
      /\ {"connecting", "ringing"} \subseteq Alive /\ Unanswered \subseteq Alive
  BY DEF Alive, Unanswered
<1>4. ~Idle(ring)
  BY <1>2, <1>3 DEF RingMoves, RingConnects, RingRings, RingAnswers,
       RingHangsUp, RingFails, RingIsBusy, RingIsOver
<1> QED
  BY <1>1, <1>4 DEF RegistrationInv, Registered, RegisteredOn, Named, Unplaced,
       LifeCycle, Target

\* Every step keeps the invariant.
LEMMA RegistrationStep ==
  ASSUME RegistrationInv, NoRecordColumn, [Next]_vars
  PROVE  RegistrationInv'
<1>1. CASE \E a \in Action : Perform(a)
  BY <1>1, PerformKept
<1>2. CASE User /\ ~\E a \in Action : Perform(a)
  BY <1>2, EditKept, TransferKept DEF User
<1>3. CASE Deliver
  BY <1>3, DeliverKept
<1>4. CASE RingMoves
  BY <1>4, RingKept
<1>5. CASE PeerHold \/ \E on \in BOOLEAN : RecordStateChanged(on)
  <2>1. call \in CallRecord /\ Kept(call) /\ UNCHANGED ring
    BY <1>5, InvIsKept DEF RegistrationInv, TypeOK, PeerHold, RecordStateChanged
  <2>2. \/ \E h \in SUBSET {"IN", "OUT"} : call' = [call EXCEPT !.hold = h]
        \/ \E r \in SUBSET {"AUDIO", "VIDEO"} :
             call' = [call EXCEPT !.recording = r]
    BY <1>5, <2>1 DEF PeerHold, RecordStateChanged, CallRecord
  <2>3. /\ call' \in CallRecord /\ call'.state = call.state
        /\ call'.peer = call.peer /\ call'.dial = call.dial
        /\ call'.active = call.active /\ call'.init = call.init
    BY <2>1, <2>2 DEF CallRecord
  <2>4. Kept(call') /\ TypeOK'
    BY <2>1, <2>3, SameKept DEF RegistrationInv, TypeOK
  <2> QED
    BY <2>1, <2>4, KeepingIsEnough
<1>6. CASE UNCHANGED vars
  <2>1. UNCHANGED <<call, ring>>
    BY <1>6 DEF vars
  <2> QED
    BY <2>1 DEF RegistrationInv, TypeOK, Registered, RegisteredOn, Named,
         Unplaced, Idle, LifeCycle, Target
<1> QED
  BY <1>1, <1>2, <1>3, <1>4, <1>5, <1>6 DEF Next

\* A call of this client is listed by its contact method, and by no other, for
\* as long as it starts or is in progress, and by nobody once it is over: the
\* contact method that initMedia() and notifyInit() used is still the one that
\* terminateMedia() removes the call from.
THEOREM RegistrationCorrect ==
  ASSUME NoRecordColumn, OwnCall
  PROVE  Spec => []Registered
<1>1. Init => RegistrationInv
  BY InitKept
<1>2. RegistrationInv /\ [Next]_vars => RegistrationInv'
  BY RegistrationStep
<1>3. RegistrationInv => Registered
  BY DEF RegistrationInv
<1> QED
  BY <1>1, <1>2, <1>3, PTL DEF Spec

-----------------------------------------------------------------------------
(* The life cycle.  The only cell of the tables that takes a call back     *)
(* from FINISHED is that of an answer that comes after BUSY.  That it does *)
(* not come is a matter of the events in flight: the daemon has one call   *)
(* of this object, and says nothing but OVER of a call that has ended.     *)
(* The invariant says so of the queue (Orderly) and of the object          *)
(* (JustOver).                                                             *)

\* The interface does not offer to accept a call that is being placed; the table
\* would place it again.
AcceptedOnce == "ACCEPT" \notin Offered["INITIALIZATION"]

\* The life cycle does not go back.
Forward(from, to) ==
  \/ to \in {from, "FINISHED"}
  \/ from = "CREATION"
  \/ from = "INITIALIZATION" /\ to = "PROGRESS"

\* AudioFollowsProgress, of any object.
Sounding(c) ==
  c \in CallRecord /\ c.audio = IF LifeCycle(c) = "PROGRESS" THEN 1 ELSE 0

-----------------------------------------------------------------------------
(* The daemon: one call, and the order of what it says.                    *)

Ending == {"HUNGUP", "FAILURE", "BUSY", "OVER"}

OneCall(d) ==
  \A i, j \in DaemonId : d.calls[i] # "free" /\ d.calls[j] # "free" => i = j
NoneAlive(d) == \A i \in DaemonId : d.calls[i] \notin Alive

Orderly(d) ==
  /\ d \in RingRecord /\ OneCall(d)
  /\ \A k \in 1..Len(d.queue) : d.queue[k].state \in Ending =>
       /\ NoneAlive(d)
       /\ \A l \in k + 1..Len(d.queue) : d.queue[l].state = "OVER"

JustOver(d) ==
  NoneAlive(d) /\ \A k \in 1..Len(d.queue) : d.queue[k].state = "OVER"

RefinementInv ==
  /\ AudioFollowsProgress
  /\ call.logged => Finished(call)
  /\ Orderly(ring)
  /\ call.state = "BUSY" => JustOver(ring)

\* A living call of the daemon moves and says so.
LEMMA PostOrderly ==
  ASSUME NEW d, Orderly(d), NEW i \in DaemonId, d.calls[i] \in Alive,
         NEW to \in Alive \cup {"ended"}, NEW s \in StateEvent,
         NEW code \in Code, s \in Ending => to = "ended"
  PROVE  Orderly(Post([d EXCEPT !.calls[i] = to], i, s, code))
<1> DEFINE e == [id |-> i, state |-> s, code |-> code]
           moved == [d EXCEPT !.calls[i] = to]
           n == Post(moved, i, s, code)
<1>1. /\ d.calls \in [DaemonId -> DaemonCall] /\ d.queue \in Seq(Event)
      /\ d \in RingRecord /\ OneCall(d)
  BY DEF Orderly, RingRecord
<1>2. "free" \notin Alive \cup {"ended"} /\ "ended" \notin Alive
  BY DEF Alive, Unanswered, Established
<1>3. to \in DaemonCall
  BY DEF DaemonCall
<1>4. moved \in RingRecord /\ moved.queue = d.queue
      /\ moved.calls = [d.calls EXCEPT ![i] = to]
  BY <1>1, <1>3 DEF RingRecord
<1> HIDE DEF moved
<1>5. n \in RingRecord
  BY <1>4, PostType
<1>6. n.queue = Append(d.queue, e) /\ n.calls = [d.calls EXCEPT ![i] = to]
  BY <1>4 DEF Post, RingRecord
<1> HIDE DEF n
<1>7. \A j \in DaemonId \ {i} : d.calls[j] = "free" /\ n.calls[j] = "free"
  BY <1>1, <1>2, <1>6 DEF OneCall
<1>8. OneCall(n)
  BY <1>7 DEF OneCall
<1>9. s \in Ending => NoneAlive(n)
  BY <1>1, <1>2, <1>6, <1>7 DEF NoneAlive
<1>10. ~NoneAlive(d)
  BY DEF NoneAlive
<1>11. \A k \in 1..Len(d.queue) : d.queue[k].state \notin Ending
  BY <1>10 DEF Orderly
<1>12. e.state = s
  OBVIOUS
<1> HIDE DEF e
<1>13. /\ Len(n.queue) = Len(d.queue) + 1 /\ Len(d.queue) \in Nat
       /\ \A k \in 1..Len(d.queue) : n.queue[k] = d.queue[k]
       /\ n.queue[Len(d.queue) + 1] = e
  <2>1. e \in Event
    BY DEF e, Event
  <2> QED
    BY <1>1, <1>6, <2>1
<1>14. ASSUME NEW k \in 1..Len(n.queue), n.queue[k].state \in Ending
       PROVE  /\ NoneAlive(n)
              /\ \A l \in k + 1..Len(n.queue) : n.queue[l].state = "OVER"
  <2>1. k = Len(d.queue) + 1
    BY <1>11, <1>13, <1>14
  <2>2. NoneAlive(n)
    BY <1>9, <1>12, <1>13, <1>14, <2>1
  <2>3. k + 1..Len(n.queue) = {}
    BY <1>13, <2>1
  <2> QED
    BY <2>2, <2>3
<1> QED
  BY <1>5, <1>8, <1>14 DEF Orderly, n, moved

\* The requests keep the order, and change nothing of a call that has ended.
LEMMA RequestOrderly ==
  ASSUME NEW d, Orderly(d), NEW i
  PROVE  /\ Orderly(Accepted(d, i)) /\ Orderly(Refused(d, i))
         /\ Orderly(HungUp(d, i)) /\ Orderly(Held(d, i)) /\ Orderly(Unheld(d, i))
         /\ \A r \in AfterTransfer(d, i) : Orderly(r)
         /\ NoneAlive(d) =>
              /\ Accepted(d, i) = d /\ Refused(d, i) = d /\ HungUp(d, i) = d
              /\ Held(d, i) = d /\ Unheld(d, i) = d /\ AfterTransfer(d, i) = {d}
<1>1. /\ {"incoming"} \subseteq Alive /\ {"current"} \subseteq Alive
      /\ {"held"} \subseteq Alive /\ Established \subseteq Alive
      /\ {"HUNGUP", "CURRENT", "HOLD", "UNHOLD"} \subseteq StateEvent
      /\ {"CURRENT", "HOLD", "UNHOLD"} \cap Ending = {} /\ "none" \in Code
  BY DEF Alive, Unanswered, Established, StateEvent, Ending, Code
<1>2. ASSUME NEW from \in SUBSET Alive, NEW to \in Alive \cup {"ended"},
             NEW s \in StateEvent, s \in Ending => to = "ended"
      PROVE  /\ Orderly(Request(d, i, from, to, s))
             /\ NoneAlive(d) => Request(d, i, from, to, s) = d
  <2>1. CASE i \in DaemonId /\ d.calls[i] \in from
    BY <1>1, <1>2, <2>1, PostOrderly DEF Request, NoneAlive
  <2>2. CASE ~(i \in DaemonId /\ d.calls[i] \in from)
    BY <2>2 DEF Request
  <2> QED
    BY <2>1, <2>2
<1> QED
  BY <1>1, <1>2 DEF Accepted, Refused, HungUp, Held, Unheld, AfterTransfer,
       Transferred

\* What a step may do to the daemon.
Settles(d, n) == Orderly(n) /\ (JustOver(d) => JustOver(n))

LEMMA RingOrderly ==
  ASSUME Orderly(ring), RingMoves
  PROVE  Settles(ring, ring')
<1>1. ASSUME NEW from \in SUBSET Alive, NEW to \in Alive \cup {"ended"},
             NEW s \in StateEvent, s \in Ending => to = "ended",
             NEW codes \in SUBSET Code, Ring(from, to, s, codes)
      PROVE  Settles(ring, ring')
  <2>1. PICK i \in DaemonId, c \in codes :
          /\ ring.calls[i] \in from
          /\ ring' = Post([ring EXCEPT !.calls[i] = to], i, s, c)
    BY <1>1 DEF Ring
  <2>2. ~JustOver(ring)
    BY <2>1 DEF JustOver, NoneAlive
  <2> QED
    BY <1>1, <2>1, <2>2, PostOrderly DEF Settles
<1>2. ASSUME RingIsOver PROVE Settles(ring, ring')
  <2>1. PICK i \in DaemonId :
          /\ ring.calls[i] = "ended"
          /\ ring' = Post([ring EXCEPT !.calls[i] = "gone"], i, "OVER", "none")
    BY <1>2 DEF RingIsOver, Ring
  <2> DEFINE e == [id |-> i, state |-> "OVER", code |-> "none"]
             moved == [ring EXCEPT !.calls[i] = "gone"]
             q == ring.queue
  <2>2. /\ ring.calls \in [DaemonId -> DaemonCall] /\ q \in Seq(Event)
        /\ ring \in RingRecord /\ OneCall(ring)
    BY DEF Orderly, RingRecord
  <2>3. moved \in RingRecord /\ moved.queue = q
        /\ moved.calls = [ring.calls EXCEPT ![i] = "gone"]
    BY <2>2 DEF RingRecord, DaemonCall
  <2>4. ring' \in RingRecord
    BY <2>1, <2>3, PostType DEF StateEvent, Code
  <2>5. ring'.queue = Append(q, e) /\ ring'.calls = [ring.calls EXCEPT ![i] = "gone"]
    BY <2>1, <2>3 DEF Post, RingRecord
  <2> HIDE DEF moved, q
  <2>6. \A j \in DaemonId \ {i} : ring.calls[j] = "free"
    BY <2>1, <2>2 DEF OneCall
  <2>7. OneCall(ring') /\ NoneAlive(ring')
    BY <2>2, <2>5, <2>6 DEF OneCall, NoneAlive, Alive, Unanswered, Established
  <2>8. e \in Event /\ e.state = "OVER"
    BY DEF Event, StateEvent, Code
  <2> HIDE DEF e
  <2>9. /\ Len(ring'.queue) = Len(q) + 1 /\ Len(q) \in Nat
        /\ \A k \in 1..Len(q) : ring'.queue[k] = q[k]
        /\ ring'.queue[Len(q) + 1] = e
    BY <2>2, <2>5, <2>8
  <2>10. \A k \in 1..Len(q) : q[k].state \in Ending =>
           \A l \in k + 1..Len(q) : q[l].state = "OVER"
    BY DEF Orderly, q
  <2>11. ASSUME NEW k \in 1..Len(ring'.queue), ring'.queue[k].state \in Ending,
                NEW l \in k + 1..Len(ring'.queue)
         PROVE  ring'.queue[l].state = "OVER"
    BY <2>8, <2>9, <2>10, <2>11
  <2>12. Orderly(ring')
    BY <2>4, <2>7, <2>11 DEF Orderly
  <2>13. ASSUME JustOver(ring) PROVE JustOver(ring')
    <3>1. \A k \in 1..Len(q) : q[k].state = "OVER"
      BY <2>13 DEF JustOver, q
    <3>2. \A k \in 1..Len(ring'.queue) : ring'.queue[k].state = "OVER"
      BY <2>8, <2>9, <3>1
    <3> QED
      BY <2>7, <3>2 DEF JustOver
  <2> QED
    BY <2>12, <2>13 DEF Settles
<1>3. /\ {"ringing"} \in SUBSET Alive /\ {"connecting"} \in SUBSET Alive
      /\ {"connecting", "ringing"} \in SUBSET Alive /\ Unanswered \in SUBSET Alive
      /\ Alive \in SUBSET Alive
      /\ {"connecting", "ringing", "current"} \subseteq Alive
      /\ {"CONNECTING", "RINGING", "CURRENT", "HUNGUP", "FAILURE", "BUSY"}
           \subseteq StateEvent
      /\ {"CONNECTING", "RINGING", "CURRENT"} \cap Ending = {}
      /\ {"none"} \in SUBSET Code /\ {"ECONNREFUSED", "ECONNABORTED"} \in SUBSET Code
  BY DEF Alive, Unanswered, Established, StateEvent, Ending, Code
<1> QED
  BY <1>1, <1>2, <1>3 DEF RingMoves, RingConnects, RingRings, RingAnswers,
       RingHangsUp, RingFails, RingIsBusy

-----------------------------------------------------------------------------
(* The tables.                                                             *)

LEMMA ActionForward ==
  ASSUME NEW s \in State, NEW a \in Action \ {"RECORD_VIDEO", "RECORD_TEXT"}
  PROVE  LET to == actionPerformedStateMap[s][a]
         IN  /\ Forward(metaStateMap[s], metaStateMap[to])
             /\ to = "BUSY" => s = "BUSY"
<1>1. ASSUME s \in {"NEW", "DIALING"}
      PROVE  Forward(metaStateMap[s], metaStateMap[actionPerformedStateMap[s][a]])
  BY <1>1 DEF metaStateMap, Forward, State
<1>2. ASSUME s \in {"INCOMING", "RINGING", "INITIALIZATION", "CONNECTED"}
      PROVE  Forward(metaStateMap[s], metaStateMap[actionPerformedStateMap[s][a]])
  BY <1>2, ZenonT(40) DEF metaStateMap, actionPerformedStateMap, ActionRow, State, Action,
              Forward
<1>3. CASE s \in {"CURRENT", "HOLD", "TRANSFERRED", "TRANSF_HOLD",
                 "CONFERENCE", "CONFERENCE_HOLD"}
  <2>1. actionPerformedStateMap[s][a] \in
          {"CURRENT", "HOLD", "TRANSFERRED", "TRANSF_HOLD", "ERROR"}
    BY <1>3 DEF actionPerformedStateMap, ActionRow, State, Action
  <2>2. /\ metaStateMap[s] = "PROGRESS"
        /\ metaStateMap[actionPerformedStateMap[s][a]] \in {"PROGRESS", "FINISHED"}
    BY <1>3, <2>1 DEF metaStateMap, State
  <2> QED
    BY <2>1, <2>2 DEF Forward
<1>4. ASSUME s \in {"FAILURE", "BUSY", "OVER", "ERROR", "ABORTED"}
      PROVE  Forward(metaStateMap[s], metaStateMap[actionPerformedStateMap[s][a]])
  BY <1>4, ZenonT(40) DEF metaStateMap, actionPerformedStateMap, ActionRow, State, Action,
              Forward
<1>5. s \in {"NEW", "DIALING"} => actionPerformedStateMap[s][a] # "BUSY"
  BY DEF actionPerformedStateMap, ActionRow, State, Action
<1>6. s \in {"INCOMING", "RINGING", "INITIALIZATION", "CONNECTED"} =>
        actionPerformedStateMap[s][a] # "BUSY"
  BY DEF actionPerformedStateMap, ActionRow, State, Action
<1>7. s \in {"FAILURE", "OVER", "ERROR", "ABORTED"} =>
        actionPerformedStateMap[s][a] # "BUSY"
  BY DEF actionPerformedStateMap, ActionRow, State, Action
<1> QED
  BY <1>1, <1>2, <1>3, <1>4, <1>5, <1>6, <1>7 DEF State

LEMMA EventForward ==
  ASSUME NEW s \in State, NEW d \in DaemonState
  PROVE  LET to == stateChangedStateMap[s][d]
         IN  /\ ~(s = "BUSY" /\ d = "CURRENT") =>
                  Forward(metaStateMap[s], metaStateMap[to])
             /\ to = "BUSY" => d = "BUSY" \/ s = "BUSY"
<1> DEFINE to == stateChangedStateMap[s][d]
<1>1. ASSUME s \in {"NEW", "DIALING"}
      PROVE  Forward(metaStateMap[s], metaStateMap[to])
  BY <1>1 DEF metaStateMap, Forward, State
<1>2. ASSUME s \in {"INCOMING", "RINGING", "INITIALIZATION", "CONNECTED"}
      PROVE  Forward(metaStateMap[s], metaStateMap[to])
  <2>1. to \in State \ {"NEW", "DIALING"}
    BY <1>2 DEF stateChangedStateMap, DaemonRow, State, DaemonState
  <2> HIDE DEF to
  <2>2. /\ metaStateMap[s] = "INITIALIZATION"
        /\ metaStateMap[to] \in {"INITIALIZATION", "PROGRESS", "FINISHED"}
    BY <1>2, <2>1 DEF metaStateMap, State
  <2> QED
    BY <2>2 DEF Forward, to
<1>3. ASSUME s \in {"CURRENT", "HOLD", "TRANSFERRED", "TRANSF_HOLD",
                   "CONFERENCE", "CONFERENCE_HOLD"}
      PROVE  Forward(metaStateMap[s], metaStateMap[to])
  <2>1. to \in State \ {"NEW", "DIALING", "INCOMING", "RINGING",
                       "INITIALIZATION", "CONNECTED"}
    BY <1>3 DEF stateChangedStateMap, DaemonRow, State, DaemonState
  <2> HIDE DEF to
  <2>2. /\ metaStateMap[s] = "PROGRESS"
        /\ metaStateMap[to] \in {"PROGRESS", "FINISHED"}
    BY <1>3, <2>1 DEF metaStateMap, State
  <2> QED
    BY <2>2 DEF Forward, to
<1>4. ASSUME s \in {"FAILURE", "BUSY", "OVER", "ERROR", "ABORTED"},
             ~(s = "BUSY" /\ d = "CURRENT")
      PROVE  Forward(metaStateMap[s], metaStateMap[to])
  <2>1. to \in {"FAILURE", "BUSY", "OVER", "ERROR"}
    BY <1>4 DEF stateChangedStateMap, DaemonRow, State, DaemonState
  <2> HIDE DEF to
  <2>2. metaStateMap[to] = "FINISHED"
    BY <2>1 DEF metaStateMap, State
  <2> QED
    BY <2>2 DEF Forward, to
<1>5. to = "BUSY" => d = "BUSY" \/ s = "BUSY"
  BY DEF stateChangedStateMap, DaemonRow, State, DaemonState
<1> QED
  BY <1>1, <1>2, <1>3, <1>4, <1>5 DEF State

-----------------------------------------------------------------------------
(* The operators on the object.                                            *)

\* A legal move takes the audio with it, and leaves the calendar alone.
LEMMA ChangeSounds ==
  ASSUME NEW c, Sounding(c), NEW s \in State, Legal(LifeCycle(c), metaStateMap[s])
  PROVE  LET d == changeCurrentState(c, s)
         IN  Sounding(d) /\ d.state = s /\ d.logged = c.logged
<1> DEFINE d     == changeCurrentState(c, s)
           moved == [c EXCEPT !.state = s]
           after == LifeCycleCallback(moved)
           alarm == initTimer(moved)
<1>1. c \in CallRecord /\ c.audio = IF LifeCycle(c) = "PROGRESS" THEN 1 ELSE 0
  BY DEF Sounding
<1>2. /\ moved \in CallRecord /\ moved.state = s /\ moved.audio = c.audio
      /\ moved.logged = c.logged
  BY <1>1 DEF CallRecord
<1>3. d \in CallRecord
  BY <1>1, changeCurrentStateType
<1>4. ASSUME NEW x \in CallRecord
      PROVE  /\ initTimer(x).state = x.state /\ initTimer(x).audio = x.audio
             /\ initTimer(x).logged = x.logged
  BY DEF initTimer, CallRecord
<1>5. LifeCycle(moved) = metaStateMap[s] /\ LifeCycle(moved) \in LifeCycleState
      /\ LifeCycle(c) \in LifeCycleState
  BY <1>1, <1>2, MetaStateTotal DEF LifeCycle, CallRecord
<1>6. CASE c.state = s
  BY <1>1, <1>6 DEF changeCurrentState, Sounding
<1>7. CASE c.state # s /\ LifeCycle(moved) = LifeCycle(c)
  <2>1. d = initTimer(moved)
    BY <1>7 DEF changeCurrentState
  <2> HIDE DEF moved, d
  <2>2. d.state = s /\ d.audio = c.audio /\ d.logged = c.logged
    BY <1>2, <1>4, <2>1
  <2>3. LifeCycle(d) = LifeCycle(c)
    BY <1>2, <1>7, <2>2 DEF LifeCycle
  <2> QED
    BY <1>1, <1>3, <2>2, <2>3 DEF Sounding, d
<1>8. CASE c.state # s /\ LifeCycle(moved) # LifeCycle(c)
  <2>1. d = initTimer(after)
    BY <1>8 DEF changeCurrentState
  <2> HIDE DEF moved, d
  <2>2. after \in CallRecord
    BY <1>2, LifeCycleCallbackType
  <2>3. /\ after.state = s /\ after.logged = c.logged
        /\ after.audio = IF metaStateMap[s] = "PROGRESS" THEN 1 ELSE 0
    <3>1. CASE LifeCycle(moved) = "CREATION"
      BY <1>5, <1>8, <3>1 DEF Legal
    <3>2. CASE LifeCycle(moved) = "INITIALIZATION"
      <4>1. after = [moved EXCEPT !.init = @ \cup {Target(moved)}]
        BY <3>2 DEF LifeCycleCallback, notifyInit
      <4>2. after.state = s /\ after.logged = c.logged /\ after.audio = c.audio
        BY <1>2, <4>1 DEF CallRecord
      <4>3. c.audio = 0
        BY <1>1, <1>5, <3>2 DEF Legal
      <4> HIDE DEF after
      <4> QED
        BY <1>5, <3>2, <4>2, <4>3
    <3>3. CASE LifeCycle(moved) = "PROGRESS"
      <4>1. after = [moved EXCEPT !.audio  = OneMore(@),
                                  !.active = @ \cup {Target(moved)},
                                  !.init   = @ \ {Target(moved)}]
        BY <3>3 DEF LifeCycleCallback, initMedia
      <4>2. after.state = s /\ after.logged = c.logged
            /\ after.audio = OneMore(c.audio)
        BY <1>2, <4>1 DEF CallRecord
      <4>3. c.audio = 0
        BY <1>1, <1>8, <3>3
      <4> HIDE DEF after
      <4> QED
        BY <1>5, <3>3, <4>2, <4>3 DEF OneMore
    <3>4. CASE LifeCycle(moved) = "FINISHED"
      <4>1. after = [moved EXCEPT !.audio = 0, !.text = 0,
                                  !.init   = @ \ {Target(moved)},
                                  !.active = @ \ {Target(moved)}]
        BY <3>4 DEF LifeCycleCallback, terminateMedia
      <4>2. after.state = s /\ after.logged = c.logged /\ after.audio = 0
        BY <1>2, <4>1 DEF CallRecord
      <4> HIDE DEF after
      <4> QED
        BY <1>5, <3>4, <4>2
    <3> QED
      BY <1>5, <3>1, <3>2, <3>3, <3>4 DEF LifeCycleState
  <2> HIDE DEF after
  <2>4. /\ d.state = s /\ d.logged = c.logged
        /\ d.audio = IF metaStateMap[s] = "PROGRESS" THEN 1 ELSE 0
    BY <1>4, <2>1, <2>2, <2>3
  <2> QED
    BY <1>3, <2>4 DEF Sounding, LifeCycle, d
<1> QED
  BY <1>6, <1>7, <1>8

\* The other fields do not matter.
LEMMA SameSounds ==
  ASSUME NEW c, Sounding(c), NEW d \in CallRecord, d.state = c.state,
         d.audio = c.audio
  PROVE  Sounding(d)
BY DEF Sounding, LifeCycle

LEMMA ReplaceSounds ==
  ASSUME NEW c, Sounding(c)
  PROVE  LET d == ReplaceDialNumber(c)
         IN  Sounding(d) /\ d.state = c.state /\ d.logged = c.logged
<1> DEFINE p == IF c.peer = "none" THEN WithNumber(c.dial) ELSE c.peer
           d == ReplaceDialNumber(c)
<1>1. c \in CallRecord
  BY DEF Sounding
<1>2. CASE c.dial = "null"
  BY <1>2 DEF ReplaceDialNumber
<1>3. CASE c.dial # "null"
  <2>1. d = [[c EXCEPT !.peer = p] EXCEPT
               !.dial = "null", !.active = @ \ {"temporary"},
               !.init = @ \ {"temporary"}]
    BY <1>3 DEF ReplaceDialNumber, DropDialNumber
  <2> HIDE DEF p
  <2>2. d.state = c.state /\ d.audio = c.audio /\ d.logged = c.logged
    BY <1>1, <2>1 DEF CallRecord
  <2>3. d \in CallRecord
    BY <1>1, ReplaceDialNumberType
  <2> HIDE DEF d
  <2>4. Sounding(d)
    BY <2>2, <2>3, SameSounds
  <2> QED
    BY <2>2, <2>4 DEF d
<1> QED
  BY <1>2, <1>3

\* What stateChanged() runs leaves the call where the table took it, or gives
\* it up.
LEMMA CallbackSounds ==
  ASSUME NEW c, Sounding(c), NEW f
  PROVE  LET d == DaemonCallback(f, c)
         IN  Sounding(d) /\ d.state \in {c.state, "ERROR"} /\ d.logged = c.logged
<1> DEFINE Fine(d) ==
             Sounding(d) /\ d.state \in {c.state, "ERROR"} /\ d.logged = c.logged
<1>1. ASSUME NEW x, Fine(x), NEW d \in CallRecord, d.state = x.state,
             d.audio = x.audio, d.logged = x.logged
      PROVE  Fine(d)
  BY <1>1, SameSounds
<1>2. ASSUME NEW x, Fine(x) PROVE Fine(initTimer(x))
  <2>1. x \in CallRecord
    BY <1>2 DEF Sounding
  <2>2. initTimer(x) \in CallRecord
    BY <2>1, initTimerType
  <2>3. /\ initTimer(x).state = x.state /\ initTimer(x).audio = x.audio
        /\ initTimer(x).logged = x.logged
    BY <2>1 DEF initTimer, CallRecord
  <2> QED
    BY <1>1, <1>2, <2>2, <2>3
<1>3. ASSUME NEW x, Fine(x) PROVE Fine(sendProfile(x))
  <2>1. x \in CallRecord
    BY <1>3 DEF Sounding
  <2>2. sendProfile(x) \in CallRecord
    BY <2>1, sendProfileType
  <2>3. /\ sendProfile(x).state = x.state /\ sendProfile(x).audio = x.audio
        /\ sendProfile(x).logged = x.logged
    BY <2>1 DEF sendProfile, CallRecord
  <2> QED
    BY <1>1, <1>3, <2>2, <2>3
<1>4. ASSUME NEW x, Fine(x) PROVE Fine([x EXCEPT !.start = TRUE])
  <2> DEFINE d == [x EXCEPT !.start = TRUE]
  <2>1. x \in CallRecord
    BY <1>4 DEF Sounding
  <2>2. /\ d \in CallRecord /\ d.state = x.state /\ d.audio = x.audio
        /\ d.logged = x.logged
    BY <2>1 DEF CallRecord
  <2> HIDE DEF d
  <2>3. Fine(d)
    BY <1>1, <1>4, <2>2
  <2> QED
    BY <2>3 DEF d
<1>5. ASSUME NEW x, Fine(x) PROVE Fine(ReplaceDialNumber(x))
  BY <1>5, ReplaceSounds
<1>6. ASSUME NEW x, Fine(x) PROVE Fine([x EXCEPT !.missed = TRUE])
  <2> DEFINE d == [x EXCEPT !.missed = TRUE]
  <2>1. x \in CallRecord
    BY <1>6 DEF Sounding
  <2>2. /\ d \in CallRecord /\ d.state = x.state /\ d.audio = x.audio
        /\ d.logged = x.logged
    BY <2>1 DEF CallRecord
  <2> HIDE DEF d
  <2>3. Fine(d)
    BY <1>1, <1>6, <2>2
  <2> QED
    BY <2>3 DEF d
<1>7. Fine(c)
  OBVIOUS
<1>8. Fine(stop(c))
  <2>1. /\ stop(c) \in CallRecord /\ stop(c).state = c.state
        /\ stop(c).audio = c.audio /\ stop(c).logged = c.logged
    BY DEF stop, Sounding, CallRecord
  <2> QED
    BY <1>1, <1>7, <2>1
<1>9. Fine(startStop(c))
  <2>0. c \in CallRecord
    BY DEF Sounding
  <2>1. startStop(c) \in CallRecord
    BY <2>0, ZenonT(40) DEF startStop, CallRecord
  <2>2. /\ startStop(c).state = c.state /\ startStop(c).audio = c.audio
        /\ startStop(c).logged = c.logged
    BY <2>0 DEF startStop, CallRecord
  <2> QED
    BY <1>1, <1>7, <2>1, <2>2
<1>10. Fine(changeCurrentState(c, "ERROR"))
  <2>1. "ERROR" \in State /\ metaStateMap["ERROR"] = "FINISHED"
    BY DEF State, metaStateMap
  <2> QED
    BY <2>1, ChangeSounds DEF Legal
<1> HIDE DEF Fine
<1>11. ASSUME NEW x, Fine(x) PROVE Fine(start(x))
  BY <1>2, <1>3, <1>4, <1>5, <1>11 DEF start
<1>12. Fine(startWeird(c))
  BY <1>3, <1>4, <1>7 DEF startWeird
<1>13. Fine(failure(c))
  BY <1>6, <1>7, <1>11 DEF failure
<1>14. Fine(warning(c))
  BY <1>7, <1>8 DEF warning
<1>15. Fine(DaemonCallback(f, c))
  BY <1>7, <1>8, <1>9, <1>10, <1>11, <1>12, <1>13, <1>14 DEF DaemonCallback
<1> QED
  BY <1>15 DEF Fine

-----------------------------------------------------------------------------
(* The steps.                                                              *)

\* What a step must make of the object, and what follows.
Follows(c) ==
  /\ Sounding(c) /\ Forward(LifeCycle(call), LifeCycle(c))
  /\ c.logged = call.logged
  /\ c.state = "BUSY" => call.state = "BUSY"

Advances ==
  /\ Forward(LifeCycle(call), LifeCycle(call)')
  /\ call.logged => call'.logged

LEMMA FollowingIsEnough ==
  ASSUME RefinementInv, TypeOK', NEW c, call' = c, Follows(c), Orderly(ring'),
         c.state = "BUSY" => Settles(ring, ring')
  PROVE  RefinementInv' /\ Advances
<1>1. call'.logged = call.logged /\ Forward(LifeCycle(call), LifeCycle(call'))
  BY DEF Follows
<1>2. AudioFollowsProgress'
  BY DEF Follows, Sounding, AudioFollowsProgress
<1>3. call'.logged => Finished(call')
  BY <1>1 DEF RefinementInv, Finished, Forward
<1>4. Orderly(ring') /\ (call'.state = "BUSY" => JustOver(ring'))
  BY DEF RefinementInv, Follows, Settles
<1>5. (call.logged => Finished(call))' /\ (call.state = "BUSY" => JustOver(ring))'
  BY <1>3, <1>4 DEF Finished, LifeCycle, JustOver, NoneAlive
<1>6. Orderly(ring)'
  BY <1>4 DEF Orderly, OneCall, NoneAlive, RingRecord
<1> QED
  BY <1>1, <1>2, <1>5, <1>6 DEF RefinementInv, Advances, LifeCycle

LEMMA SameFollows ==
  ASSUME NEW c, Follows(c), NEW d \in CallRecord, d.state = c.state,
         d.audio = c.audio, d.logged = c.logged
  PROVE  Follows(d)
BY SameSounds DEF Follows, LifeCycle

\* A call may end at any time.
LEMMA EndFollows ==
  ASSUME NEW c, Sounding(c), c.logged = call.logged,
         NEW s \in {"ERROR", "OVER", "ABORTED", "FAILURE"}
  PROVE  Follows(changeCurrentState(c, s))
<1>1. s \in State /\ metaStateMap[s] = "FINISHED" /\ s # "BUSY"
  BY DEF State, metaStateMap
<1>2. Legal(LifeCycle(c), metaStateMap[s])
  BY <1>1 DEF Legal
<1> QED
  BY <1>1, <1>2, ChangeSounds DEF Follows, LifeCycle, Forward

\* The object as it is.
LEMMA CallFollows ==
  ASSUME RefinementInv, call \in CallRecord
  PROVE  Follows(call)
BY DEF RefinementInv, AudioFollowsProgress, Sounding, Follows, Forward

LEMMA SettledRequests ==
  ASSUME Orderly(ring), NEW i
  PROVE  /\ Settles(ring, ring)
         /\ Settles(ring, Accepted(ring, i)) /\ Settles(ring, Refused(ring, i))
         /\ Settles(ring, HungUp(ring, i)) /\ Settles(ring, Held(ring, i))
         /\ Settles(ring, Unheld(ring, i))
         /\ Settles(ring, Held(Accepted(ring, i), i))
         /\ \A r \in AfterTransfer(ring, i) : Settles(ring, r)
         /\ \A r \in AfterTransfer(Accepted(ring, i), i) : Settles(ring, r)
<1>1. Orderly(Accepted(ring, i))
  BY RequestOrderly
<1> QED
  BY <1>1, RequestOrderly DEF Settles, JustOver

\* The object after the table has been followed.
LEMMA EnteredFollows ==
  ASSUME RefinementInv, call \in CallRecord, NoRecordColumn, NEW a \in Action,
         NEW fs, Performs(a, fs)
  PROVE  Follows(Entered(a))
<1> DEFINE to == actionPerformedStateMap[call.state][a]
<1>1. /\ Sounding(call) /\ call.state \in State
      /\ a \in Action \ {"RECORD_VIDEO", "RECORD_TEXT"}
  BY CallFollows DEF Follows, CallRecord, Performs, NoRecordColumn
<1>2. /\ to \in State /\ Legal(LifeCycle(call), metaStateMap[to])
      /\ Forward(LifeCycle(call), metaStateMap[to])
      /\ to = "BUSY" => call.state = "BUSY"
  BY <1>1, ActionTotal, ActionIsLegal, ActionForward DEF LifeCycle
<1> HIDE DEF to
<1>3. Sounding(Entered(a)) /\ Entered(a).state = to
      /\ Entered(a).logged = call.logged
  BY <1>1, <1>2, ChangeSounds DEF Entered, to
<1> QED
  BY <1>2, <1>3 DEF Follows, LifeCycle

LEMMA InitRefines == OwnCall /\ Init => RefinementInv
<1> SUFFICES ASSUME OwnCall, Init PROVE RefinementInv
  OBVIOUS
<1>1. TypeOK
  BY InitType
<1>2. ASSUME NEW s \in State, NEW i, NEW p, call = Built(s, i, p, TRUE, {})
                                         \/ call = Built(s, i, p, FALSE, {})
      PROVE  call.state = s /\ call.audio = 0 /\ call.logged = FALSE
  BY <1>2 DEF Built, initTimer
<1>3. CASE InitDialing
  <2>1. call.state = "NEW" /\ call.audio = 0 /\ call.logged = FALSE
    BY <1>2, <1>3 DEF InitDialing, State
  <2>2. LifeCycle(call) = "CREATION"
    BY <2>1 DEF LifeCycle, metaStateMap, State
  <2>3. ring.calls = NoCall /\ ring.queue = <<>>
    BY <1>3 DEF InitDialing
  <2>4. Orderly(ring)
    BY <1>1, <2>3 DEF Orderly, OneCall, NoCall, TypeOK
  <2> QED
    BY <2>1, <2>2, <2>4 DEF RefinementInv, AudioFollowsProgress
<1>4. CASE InitIncoming
  <2>1. PICK i \in DaemonId, p \in Peer :
          /\ call = Built("INCOMING", i, p, FALSE, {})
          /\ ring = [calls |-> [NoCall EXCEPT ![i] = "incoming"],
                     queue |-> <<[id |-> i, state |-> "INCOMING",
                                  code |-> "none"]>>]
    BY <1>4 DEF InitIncoming
  <2>2. call.state = "INCOMING" /\ call.audio = 0 /\ call.logged = FALSE
    BY <1>2, <2>1 DEF State
  <2>3. LifeCycle(call) = "INITIALIZATION"
    BY <2>2 DEF LifeCycle, metaStateMap, State
  <2>4. OneCall(ring)
    BY <2>1 DEF OneCall, NoCall
  <2>5. \A k \in 1..Len(ring.queue) : ring.queue[k].state = "INCOMING"
    BY <2>1
  <2>6. Orderly(ring)
    BY <1>1, <2>4, <2>5 DEF Orderly, TypeOK, Ending
  <2> QED
    BY <2>2, <2>3, <2>6 DEF RefinementInv, AudioFollowsProgress
<1> QED
  BY <1>3, <1>4 DEF Init, OwnCall, InitExisting

\* A call that the user places is the only one, and it is new to the daemon.
LEMMA PlacedAlone ==
  ASSUME RegistrationInv, RefinementInv, AcceptedOnce, NEW a \in Action, PlaceCall(a)
  PROVE  Orderly(ring')
<1>1. call.state = "DIALING"
  BY DEF PlaceCall, Performs, AcceptedOnce, actionPerformedFunctionMap, OnAccept,
         OnRefuse, OnTransfer, OnHold, RegistrationInv, TypeOK, CallRecord
<1>2. Idle(ring) /\ ring \in RingRecord
  BY <1>1 DEF RegistrationInv, TypeOK, Unplaced, LifeCycle, metaStateMap, State
<1>3. PICK i \in DaemonId :
        ring' = Post([ring EXCEPT !.calls[i] = "connecting"], i, "CONNECTING",
                     "none")
  BY DEF PlaceCall
<1> DEFINE e == [id |-> i, state |-> "CONNECTING", code |-> "none"]
           moved == [ring EXCEPT !.calls[i] = "connecting"]
<1>4. /\ moved \in RingRecord /\ moved.queue = <<>>
      /\ moved.calls = [ring.calls EXCEPT ![i] = "connecting"]
  BY <1>2 DEF RingRecord, DaemonCall, Alive, Unanswered, Idle
<1>5. ring' \in RingRecord
  BY <1>3, <1>4, PostType DEF StateEvent, Code
<1>6. ring'.queue = <<e>> /\ ring'.calls = [NoCall EXCEPT ![i] = "connecting"]
  <2>1. ring' = [moved EXCEPT !.queue = Append(@, e)]
    BY <1>3 DEF Post
  <2> HIDE DEF moved, e
  <2>2. ring'.queue = Append(<<>>, e) /\ ring'.calls = moved.calls
    BY <1>4, <2>1 DEF RingRecord
  <2> QED
    BY <1>2, <1>4, <2>2 DEF Idle
<1>7. OneCall(ring')
  BY <1>6 DEF OneCall, NoCall
<1>8. e.state \notin Ending
  BY DEF Ending
<1> HIDE DEF e
<1>9. \A k \in 1..Len(ring'.queue) : ring'.queue[k].state \notin Ending
  BY <1>6, <1>8
<1> QED
  BY <1>5, <1>7, <1>9 DEF Orderly

LEMMA PerformAdvances ==
  ASSUME RegistrationInv, RefinementInv, NoRecordColumn, AcceptedOnce, TypeOK',
         NEW a \in Action, Perform(a)
  PROVE  RefinementInv' /\ Advances
<1> DEFINE e == Entered(a)
<1>1. /\ call \in CallRecord /\ call' \in CallRecord /\ e \in CallRecord
      /\ Orderly(ring)
  BY EnteredType DEF RegistrationInv, TypeOK, RefinementInv
<1>2. ASSUME NEW fs, Performs(a, fs) PROVE Follows(e)
  BY <1>1, <1>2, EnteredFollows
<1>3. ASSUME NEW c \in CallRecord, c.state = e.state, c.audio = e.audio,
             c.logged = e.logged, Follows(e)
      PROVE  /\ Follows(c)
             /\ Follows(changeCurrentState(c, "OVER"))
             /\ Follows(changeCurrentState(c, "ERROR"))
  <2>1. Follows(c)
    BY <1>3, SameFollows
  <2> QED
    BY <2>1, EndFollows DEF Follows
<1>4. /\ stop(e) \in CallRecord /\ stop(e).state = e.state
      /\ stop(e).audio = e.audio /\ stop(e).logged = e.logged
  BY <1>1, ZenonT(40) DEF stop, CallRecord
<1>5. ASSUME Follows(call'), Settles(ring, ring') PROVE RefinementInv' /\ Advances
  <2>1. Orderly(ring')
    BY <1>5 DEF Settles
  <2> QED
    BY <1>5, <2>1, FollowingIsEnough
<1>6. /\ Settles(ring, ring)
      /\ Settles(ring, Accepted(ring, call.id))
      /\ Settles(ring, Refused(ring, call.id))
      /\ Settles(ring, HungUp(ring, call.id))
      /\ Settles(ring, Held(ring, call.id))
      /\ Settles(ring, Unheld(ring, call.id))
      /\ Settles(ring, Held(Accepted(ring, call.id), call.id))
      /\ \A r \in AfterTransfer(ring, call.id) : Settles(ring, r)
      /\ \A r \in AfterTransfer(Accepted(ring, call.id), call.id) :
           Settles(ring, r)
  BY <1>1, SettledRequests
<1> HIDE DEF e
<1>7. CASE PerformNothing(a)
  BY <1>2, <1>5, <1>6, <1>7 DEF PerformNothing, e
<1>8. CASE Accept(a)
  <2>1. call' = [e EXCEPT !.start = TRUE, !.outgoing = FALSE] /\ Follows(e)
    BY <1>2, <1>8 DEF Accept, e
  <2>2. /\ call'.state = e.state /\ call'.audio = e.audio
        /\ call'.logged = e.logged
    BY <1>1, <2>1 DEF CallRecord
  <2>3. Follows(call')
    BY <1>1, <1>3, <2>1, <2>2
  <2> QED
    BY <1>5, <1>6, <1>8, <2>3 DEF Accept
<1>9. CASE Refuse(a)
  <2> DEFINE c == [e EXCEPT !.start = TRUE, !.missed = TRUE, !.reason = "REFUSED"]
  <2>1. call' \in {c, changeCurrentState(c, "ERROR")} /\ Follows(e)
    BY <1>2, <1>9 DEF Refuse, e
  <2>2. c.state = e.state /\ c.audio = e.audio /\ c.logged = e.logged
    BY <1>1 DEF CallRecord
  <2>3. c \in CallRecord
    <3>1. e \in CallRecord
      BY <1>1
    <3> QED
      BY <3>1 DEF CallRecord
  <2> HIDE DEF c
  <2>4. Follows(call')
    BY <1>3, <2>1, <2>2, <2>3
  <2> QED
    BY <1>5, <1>6, <1>9, <2>4 DEF Refuse
<1>10. CASE AcceptTransfer(a)
  <2>1. call' = e /\ Follows(e)
    BY <1>2, <1>10 DEF AcceptTransfer, e
  <2>2. Settles(ring, ring')
    BY <1>6, <1>10 DEF AcceptTransfer
  <2> QED
    BY <1>5, <2>1, <2>2
<1>11. CASE AcceptHold(a)
  <2>1. call' = [e EXCEPT !.outgoing = FALSE] /\ Follows(e)
    BY <1>2, <1>11 DEF AcceptHold, e
  <2>2. Follows(call')
    BY <1>1, <1>3, <2>1 DEF CallRecord
  <2> QED
    BY <1>5, <1>6, <1>11, <2>2 DEF AcceptHold
<1>12. CASE HangUp(a)
  <2> DEFINE c == IF Known(ring, call.id) THEN stop(e)
                  ELSE changeCurrentState(stop(e), "OVER")
  <2>1. /\ call' = [c EXCEPT !.timer = IF @ = "none" THEN @ ELSE "stopped"]
        /\ Follows(e)
    BY <1>2, <1>12 DEF HangUp, e
  <2>2. Follows(c)
    BY <1>3, <1>4, <2>1
  <2> HIDE DEF c
  <2>3. Follows(call')
    BY <1>1, <2>1, <2>2, SameFollows DEF CallRecord, Follows, Sounding
  <2> QED
    BY <1>5, <1>6, <1>12, <2>3 DEF HangUp
<1>13. CASE Remove(a) \/ Cancel(a)
  <2>1. /\ Follows(e)
        /\ call' \in {e, changeCurrentState(e, "ERROR"),
                      changeCurrentState(e, "OVER")}
    BY <1>2, <1>13 DEF Remove, Cancel, e
  <2>2. Follows(call')
    BY <1>1, <1>3, <2>1
  <2> QED
    BY <1>5, <1>6, <1>13, <2>2 DEF Remove, Cancel
<1>14. CASE Hold(a) \/ Unhold(a)
  <2>1. /\ Follows(e)
        /\ \/ call' = [e EXCEPT !.hold = @ \cup {"OUT"}]
           \/ call' = [e EXCEPT !.hold = @ \ {"OUT"}]
    BY <1>2, <1>14 DEF Hold, Unhold, e
  <2>2. Follows(call')
    BY <1>1, <1>3, <2>1 DEF CallRecord
  <2> QED
    BY <1>5, <1>6, <1>14, <2>2 DEF Hold, Unhold
<1>15. CASE Transfer(a)
  <2>1. Follows(e) /\ call' \in {e, stop(e)}
    BY <1>2, <1>15 DEF Transfer, e
  <2>2. Follows(call')
    BY <1>1, <1>3, <1>4, <2>1
  <2>3. Settles(ring, ring')
    BY <1>6, <1>15 DEF Transfer
  <2> QED
    BY <1>5, <2>2, <2>3
<1>16. CASE ToggleRecord(a)
  <2>1. Follows(e) /\ UNCHANGED ring
    BY <1>2, <1>16 DEF ToggleRecord, e
  <2>2. PICK r : call' = [e EXCEPT !.recording = r]
    BY <1>16 DEF ToggleRecord, e
  <2>3. Follows(call')
    BY <1>1, <1>3, <2>1, <2>2 DEF CallRecord
  <2> QED
    BY <1>5, <1>6, <2>1, <2>3
<1>17. CASE CallNobody(a)
  <2> DEFINE c == changeCurrentState(e, "ABORTED")
  <2>1. Follows(e) /\ UNCHANGED ring /\ call' = DropDialNumber(c)
    BY <1>2, <1>17 DEF CallNobody, e
  <2>2. Follows(c)
    BY <2>1, EndFollows DEF Follows
  <2> HIDE DEF c
  <2>3. /\ call'.state = c.state /\ call'.audio = c.audio
        /\ call'.logged = c.logged
    BY <2>1, <2>2 DEF Follows, Sounding, DropDialNumber, CallRecord
  <2>4. Follows(call')
    BY <1>1, <2>2, <2>3, SameFollows
  <2> QED
    BY <1>5, <1>6, <2>1, <2>4
<1>18. CASE CallWithoutAccount(a)
  BY <1>1, <1>2, <1>3, <1>5, <1>6, <1>18 DEF CallWithoutAccount, e
<1>19. CASE PlaceCall(a) \/ PlaceCallFails(a)
  <2> DEFINE x == [e EXCEPT !.account = TRUE, !.outgoing = TRUE, !.start = TRUE]
             p == Placed(a)
  <2>1. Follows(e)
    BY <1>2, <1>19 DEF PlaceCall, PlaceCallFails
  <2>2. /\ x \in CallRecord /\ x.state = e.state /\ x.audio = e.audio
        /\ x.logged = e.logged
    BY <1>1, ZenonT(40) DEF CallRecord
  <2>3. p = ReplaceDialNumber(x)
    BY DEF Placed, e
  <2> HIDE DEF x, p
  <2>4. Follows(x)
    BY <2>1, <2>2, SameFollows
  <2>5. /\ Sounding(p) /\ p.state = x.state /\ p.logged = x.logged
        /\ p.logged = call.logged
    BY <2>3, <2>4, ReplaceSounds DEF Follows
  <2>6. Follows(p)
    BY <2>4, <2>5, SameFollows DEF Sounding, Follows, LifeCycle
  <2>7. CASE PlaceCallFails(a)
    <3> DEFINE c == changeCurrentState(p, "FAILURE")
    <3>1. call' = [c EXCEPT !.id = "failed"] /\ UNCHANGED ring
      BY <2>7 DEF PlaceCallFails, p
    <3>2. Follows(c)
      BY <2>5, EndFollows
    <3> HIDE DEF c
    <3>3. Follows(call')
      BY <1>1, <3>1, <3>2, SameFollows DEF CallRecord, Follows, Sounding
    <3> QED
      BY <1>5, <1>6, <3>1, <3>3
  <2>8. CASE PlaceCall(a)
    <3>1. PICK i \in DaemonId : call' = [p EXCEPT !.id = i]
      BY <2>8 DEF PlaceCall, p
    <3>2. call'.state = p.state /\ call'.audio = p.audio /\ call'.logged = p.logged
      BY <2>5, <3>1 DEF Sounding, CallRecord
    <3>3. Follows(call') /\ Orderly(ring')
      BY <1>1, <2>6, <2>8, <3>2, SameFollows, PlacedAlone
    <3>4. e.state = "INITIALIZATION"
      <4>1. Performs(a, {"call"}) /\ call.state \in State
        BY <1>1, <2>8 DEF PlaceCall, CallRecord
      <4>2. /\ e.state = actionPerformedStateMap[call.state][a]
            /\ actionPerformedFunctionMap[call.state][a] = "call"
        BY <4>1, EnteredKept DEF e, Performs
      <4> QED
        BY <4>1, <4>2, CallIsPlaced
    <3>5. call'.state # "BUSY"
      BY <2>2, <2>5, <3>2, <3>4
    <3> QED
      BY <3>3, <3>5, FollowingIsEnough
  <2> QED
    BY <1>19, <2>7, <2>8
<1> QED
  BY <1>7, <1>8, <1>9, <1>10, <1>11, <1>12, <1>13, <1>14, <1>15, <1>16, <1>17,
     <1>18, <1>19 DEF Perform

LEMMA EditAdvances ==
  ASSUME RefinementInv, TypeOK, TypeOK',
         \/ \E n \in Number : SetDialNumber(n) \/ Backspace(n)
         \/ \E p \in Peer : SetPeerContactMethod(p) \/ AppendText(p)
         \/ \E known \in BOOLEAN : SetAccount(known)
         \/ \E n \in {"empty", "set"} : SetTransferNumber(n)
         \/ BackspaceNothing \/ BackspaceCrashes \/ Reset
  PROVE  RefinementInv' /\ Advances
<1>1. /\ call \in CallRecord /\ call' \in CallRecord /\ Follows(call)
  BY CallFollows DEF TypeOK
<1>2. SUFFICES Follows(call')
  <2>1. UNCHANGED ring
    BY DEF SetDialNumber, Backspace, SetPeerContactMethod, AppendText,
           SetAccount, SetTransferNumber, BackspaceNothing, BackspaceCrashes,
           Reset
  <2>2. Orderly(ring') /\ Settles(ring, ring')
    BY <2>1 DEF RefinementInv, Settles
  <2> QED
    BY <2>2, FollowingIsEnough
<1>3. ASSUME NEW t, call' = [call EXCEPT !.transferTo = t] PROVE Follows(call')
  BY <1>1, <1>3, SameFollows DEF CallRecord
<1>4. ASSUME Crash PROVE Follows(call')
  BY <1>1, <1>4, SameFollows DEF Crash, CallRecord
\* A call being dialed stays so, whatever number it has.
<1>5. ASSUME NEW c, Follows(c), LifeCycle(c) = "CREATION", NEW s \in {"NEW", "DIALING"}
      PROVE  /\ Follows(changeCurrentState(c, s))
             /\ LifeCycle(changeCurrentState(c, s)) = "CREATION"
  <2>1. s \in State /\ metaStateMap[s] = "CREATION"
    BY DEF State, metaStateMap
  <2>2. Legal(LifeCycle(c), metaStateMap[s])
    BY <1>5, <2>1 DEF Legal
  <2> QED
    BY <1>5, <2>1, <2>2, ChangeSounds DEF Follows, LifeCycle
<1>6. ASSUME NEW c, Follows(c), NEW n \in Number \cup {"null"}
      PROVE  /\ Follows([c EXCEPT !.dial = n])
             /\ LifeCycle([c EXCEPT !.dial = n]) = LifeCycle(c)
             /\ [c EXCEPT !.dial = n].state = c.state
  <2> DEFINE d == [c EXCEPT !.dial = n]
  <2>1. c \in CallRecord
    BY <1>6 DEF Follows, Sounding
  <2>2. /\ d \in CallRecord /\ d.state = c.state /\ d.audio = c.audio
        /\ d.logged = c.logged
    BY <1>6, <2>1 DEF CallRecord
  <2> HIDE DEF d
  <2>3. Follows(d) /\ LifeCycle(d) = LifeCycle(c)
    BY <1>6, <2>2, SameFollows DEF LifeCycle
  <2> QED
    BY <2>2, <2>3 DEF d
<1>7. ASSUME NEW c, Follows(c), LifeCycle(c) = "CREATION", NEW n \in Number
      PROVE  Follows(WithDialNumber(c, n))
  BY <1>5, <1>6, <1>7 DEF WithDialNumber
<1>8. "empty" \in Number /\ Peer \subseteq Number /\ call.dial \in Number \cup {"null"}
  BY <1>1 DEF Number, CallRecord
<1>9. ASSUME NEW n \in Number, SetDialNumber(n) PROVE Follows(call')
  BY <1>1, <1>4, <1>7, <1>9 DEF SetDialNumber
<1>10. ASSUME NEW p \in Peer, SetPeerContactMethod(p) PROVE Follows(call')
  <2> DEFINE c == [call EXCEPT !.peer = p]
  <2>1. /\ c \in CallRecord /\ c.state = call.state /\ c.audio = call.audio
        /\ c.logged = call.logged
    BY <1>1 DEF CallRecord
  <2>2. LifeCycle(call) = "CREATION" /\ (Crash \/ call' = WithDialNumber(c, p))
    BY <1>10 DEF SetPeerContactMethod
  <2> HIDE DEF c
  <2>3. Follows(c) /\ LifeCycle(c) = "CREATION"
    BY <1>1, <2>1, <2>2, SameFollows DEF LifeCycle
  <2> QED
    BY <1>4, <1>7, <1>8, <2>2, <2>3
<1>11. ASSUME NEW known \in BOOLEAN, SetAccount(known) PROVE Follows(call')
  <2>1. call' = [call EXCEPT !.account = known]
    BY <1>11 DEF SetAccount
  <2> QED
    BY <1>1, <2>1, SameFollows DEF CallRecord
<1>12. ASSUME NEW n, SetTransferNumber(n) PROVE Follows(call')
  BY <1>3, <1>12 DEF SetTransferNumber
<1>13. ASSUME NEW p \in Peer, AppendText(p) PROVE Follows(call')
  <2> DEFINE n == IF call.dial = "null" THEN call.dial ELSE p
             c == [call EXCEPT !.dial = n]
  <2>1. CASE /\ LifeCycle(call) = "CREATION"
             /\ call' = changeCurrentState(c, "DIALING")
    <3>1. n \in Number \cup {"null"}
      BY <1>8
    <3> HIDE DEF n
    <3>2. Follows(c) /\ LifeCycle(c) = "CREATION"
      BY <1>1, <1>6, <2>1, <3>1
    <3> HIDE DEF c
    <3> QED
      BY <1>5, <2>1, <3>2
  <2> QED
    BY <1>3, <1>13, <2>1 DEF AppendText, EditsDial
<1>14. ASSUME NEW n \in Number, Backspace(n) PROVE Follows(call')
  <2>1. CASE /\ LifeCycle(call) = "CREATION"
             /\ call' = [changeCurrentState(call, "DIALING") EXCEPT !.dial = n]
    BY <1>1, <1>5, <1>6, <2>1
  <2> QED
    BY <1>3, <1>14, <2>1 DEF Backspace, EditsDial
<1>15. ASSUME BackspaceNothing PROVE Follows(call')
  BY <1>1, <1>15, EndFollows DEF BackspaceNothing, Follows
<1>16. ASSUME Reset PROVE Follows(call')
  <2> DEFINE c == changeCurrentState(call, "NEW")
             n == IF c.dial = "null" THEN c.dial ELSE "empty"
  <2>1. CASE LifeCycle(call) = "CREATION" /\ call' = [c EXCEPT !.dial = n]
    <3>1. Follows(c)
      BY <1>1, <1>5, <2>1
    <3>2. n \in Number \cup {"null"}
      BY <1>8
    <3> HIDE DEF c, n
    <3> QED
      BY <1>6, <2>1, <3>1, <3>2
  <2> QED
    BY <1>3, <1>16, <2>1 DEF Reset, EditsDial
<1> QED
  BY <1>4, <1>9, <1>10, <1>11, <1>12, <1>13, <1>14, <1>15, <1>16
     DEF BackspaceCrashes

LEMMA TransferAdvances ==
  ASSUME RefinementInv, TypeOK, TypeOK', AttendedTransfer \/ UnattendedTransfer
  PROVE  RefinementInv' /\ Advances
<1>1. call \in CallRecord /\ Follows(call) /\ Orderly(ring)
  BY CallFollows DEF TypeOK, RefinementInv
<1>2. ASSUME Follows(call'), Settles(ring, ring') PROVE RefinementInv' /\ Advances
  <2>1. Orderly(ring')
    BY <1>2 DEF Settles
  <2> QED
    BY <1>2, <2>1, FollowingIsEnough
<1>3. CASE AttendedTransfer
  <2>1. Follows(call')
    BY <1>1, <1>3, EndFollows DEF AttendedTransfer, Follows
  <2>2. Settles(ring, ring')
    BY <1>1, <1>3, SettledRequests DEF AttendedTransfer
  <2> QED
    BY <1>2, <2>1, <2>2
<1>4. CASE UnattendedTransfer
  <2> DEFINE Fine(c) == Sounding(c) /\ c.logged = call.logged
             named == [call EXCEPT !.transferTo = "set"]
             to    == actionPerformedStateMap[call.state]["TRANSFER"]
             left  == changeCurrentState(named, to)
             after == IF OnTransfer(call.state) = "transfer" THEN stop(left)
                      ELSE left
             shown == changeCurrentState(after, "TRANSFERRED")
  <2>1. ASSUME NEW c, Fine(c) PROVE Fine(stop(c))
    <3>1. /\ stop(c) \in CallRecord /\ stop(c).state = c.state
          /\ stop(c).audio = c.audio /\ stop(c).logged = c.logged
      BY <2>1 DEF Sounding, stop, CallRecord
    <3> QED
      BY <2>1, <3>1, SameSounds
  <2>2. Fine(named) /\ named.state = call.state
    <3>1. /\ named \in CallRecord /\ named.state = call.state
          /\ named.audio = call.audio /\ named.logged = call.logged
      BY <1>1 DEF CallRecord
    <3> QED
      BY <1>1, <3>1, SameSounds DEF Follows
  <2>3. to \in State /\ Legal(LifeCycle(named), metaStateMap[to])
    <3>1. call.state \in State
          /\ "TRANSFER" \in Action \ {"RECORD_VIDEO", "RECORD_TEXT"}
      BY <1>1 DEF CallRecord, Action
    <3> QED
      BY <2>2, <3>1, ActionTotal, ActionIsLegal DEF LifeCycle
  <2> HIDE DEF named, to
  <2>4. Fine(left)
    BY <2>2, <2>3, ChangeSounds
  <2> HIDE DEF left
  <2>5. Fine(after)
    BY <2>1, <2>4
  <2>6. "TRANSFERRED" \in State /\ metaStateMap["TRANSFERRED"] = "PROGRESS"
    BY DEF State, metaStateMap
  <2>7. Legal(LifeCycle(after), "PROGRESS")
    BY DEF Legal
  <2> HIDE DEF after
  <2>8. Fine(shown)
    BY <2>5, <2>6, <2>7, ChangeSounds
  <2> HIDE DEF shown
  <2>9. call' = changeCurrentState(stop(shown), "OVER")
    BY <1>4 DEF UnattendedTransfer, shown, after, left, to, named
  <2>10. Follows(call')
    BY <2>1, <2>8, <2>9, EndFollows
  <2>11. Settles(ring, ring')
    BY <1>1, <1>4, SettledRequests DEF UnattendedTransfer
  <2> QED
    BY <1>2, <2>10, <2>11
<1> QED
  BY <1>3, <1>4

\* An event takes the call where the table says, or the call is given up.
Delivered ==
  /\ call'.state \in
       {stateChangedStateMap[call.state][Reported(Head(ring.queue))], "ERROR"}
  /\ Finished(call)' => call'.logged

LEMMA DeliverAdvances ==
  ASSUME RefinementInv, TypeOK, TypeOK', Deliver
  PROVE  RefinementInv' /\ Advances /\ Delivered
<1> DEFINE q     == ring.queue
           e     == Head(q)
           coded == [call EXCEPT !.code = IF e.code = "none" THEN @ ELSE e.code]
           d     == Reported(e)
           to    == stateChangedStateMap[call.state][d]
           moved == changeCurrentState(coded, to)
           shown == SyncHoldFlag(moved)
           f     == stateChangedFunctionMap[call.state][d]
           done  == DaemonCallback(f, shown)
           changed == stateChanged(coded, d)
<1>1. /\ call' \in CallRecord /\ call \in CallRecord /\ Sounding(call)
      /\ Orderly(ring) /\ ring' \in RingRecord
  BY CallFollows DEF TypeOK, Follows, RefinementInv
<1>2. /\ q \in Seq(Event) /\ q # <<>> /\ ring \in RingRecord
      /\ ring' = [ring EXCEPT !.queue = Tail(@)]
  BY DEF TypeOK, RingRecord, Deliver
<1>3. /\ e \in Event /\ e = q[1] /\ 1 \in 1..Len(q)
      /\ Len(Tail(q)) = Len(q) - 1
      /\ \A k \in 1..Len(Tail(q)) : Tail(q)[k] = q[k + 1] /\ k + 1 \in 1..Len(q)
  BY <1>2
<1>4. d \in DaemonState /\ e.code \in Code
  BY <1>3 DEF Event, Reported, toDaemonCallState, DaemonState, StateEvent
\* What the event tells of those that follow it.
<1>5. call.state = "BUSY" => e.state = "OVER" /\ d = "OVER"
  BY <1>3 DEF RefinementInv, JustOver, Reported, toDaemonCallState
<1>6. d = "BUSY" => e.state \in Ending
  BY DEF Reported, toDaemonCallState, Ending
<1>7. ring'.queue = Tail(q) /\ ring'.calls = ring.calls
  BY <1>2 DEF RingRecord
<1>8. Orderly(ring')
  <2>1. OneCall(ring') /\ (NoneAlive(ring) => NoneAlive(ring'))
    BY <1>1, <1>7 DEF Orderly, OneCall, NoneAlive
  <2>2. ASSUME NEW k \in 1..Len(ring'.queue), ring'.queue[k].state \in Ending
        PROVE  /\ NoneAlive(ring')
               /\ \A l \in k + 1..Len(ring'.queue) :
                    ring'.queue[l].state = "OVER"
    <3>1. k + 1 \in 1..Len(q) /\ q[k + 1].state \in Ending
      BY <1>3, <1>7, <2>2
    <3>2. NoneAlive(ring) /\ \A l \in k + 2..Len(q) : q[l].state = "OVER"
      BY <1>1, <3>1 DEF Orderly
    <3>3. ASSUME NEW l \in k + 1..Len(Tail(q)) PROVE Tail(q)[l].state = "OVER"
      <4>1. l \in 1..Len(Tail(q)) /\ l + 1 \in k + 2..Len(q)
        BY <1>2, <1>3, <1>7, <3>3
      <4> QED
        BY <1>3, <3>2, <4>1
    <3> QED
      BY <1>7, <2>1, <3>2, <3>3
  <2> QED
    BY <1>1, <2>1, <2>2 DEF Orderly
<1>9. call.state = "BUSY" \/ d = "BUSY" => JustOver(ring')
  <2>1. ASSUME call.state = "BUSY" \/ d = "BUSY"
        PROVE  NoneAlive(ring) /\ \A k \in 2..Len(q) : q[k].state = "OVER"
    <3>1. CASE call.state = "BUSY"
      BY <1>2, <3>1 DEF RefinementInv, JustOver
    <3>2. CASE d = "BUSY"
      BY <1>1, <1>3, <1>6, <3>2 DEF Orderly
    <3> QED
      BY <2>1, <3>1, <3>2
  <2>2. ASSUME \A k \in 2..Len(q) : q[k].state = "OVER"
        PROVE  \A k \in 1..Len(Tail(q)) : Tail(q)[k].state = "OVER"
    BY <1>2, <1>3, <2>2
  <2> QED
    BY <1>7, <2>1, <2>2 DEF JustOver, NoneAlive
<1> HIDE DEF e, d
<1>10. /\ coded \in CallRecord /\ coded.state = call.state
       /\ coded.audio = call.audio /\ coded.logged = call.logged
  BY <1>1, <1>4 DEF CallRecord
<1>11. Sounding(coded) /\ LifeCycle(coded) = LifeCycle(call)
  BY <1>1, <1>10, SameSounds DEF LifeCycle
<1>12. /\ to \in State /\ Legal(LifeCycle(call), metaStateMap[to])
       /\ Forward(LifeCycle(call), metaStateMap[to])
       /\ to = "BUSY" => d = "BUSY" \/ call.state = "BUSY"
  BY <1>1, <1>4, <1>5, EventTotal, EventIsLegal, EventForward
     DEF LifeCycle, CallRecord
<1>13. changed = IF f = "error" \/ LifeCycle(done) = "CREATION" THEN done
                 ELSE ReplaceDialNumber(done)
  BY <1>10 DEF stateChanged
<1> HIDE DEF coded, to, f
<1>14. Sounding(moved) /\ moved.state = to /\ moved.logged = call.logged
  BY <1>10, <1>11, <1>12, ChangeSounds
<1> HIDE DEF moved
<1>15. /\ shown \in CallRecord /\ shown.state = moved.state
       /\ shown.audio = moved.audio /\ shown.logged = moved.logged
  BY <1>14 DEF SyncHoldFlag, Sounding, CallRecord
<1>16. Sounding(shown) /\ shown.state = to /\ shown.logged = call.logged
  BY <1>14, <1>15, SameSounds
<1> HIDE DEF shown
<1>17. /\ Sounding(done) /\ done.state \in {to, "ERROR"}
       /\ done.logged = call.logged
  BY <1>16, CallbackSounds
<1> HIDE DEF done
<1>18. /\ Sounding(changed) /\ changed.state \in {to, "ERROR"}
       /\ changed.logged = call.logged
  BY <1>13, <1>17, ReplaceSounds
<1>19. call' = [changed EXCEPT !.logged = @ \/ Finished(changed)]
  BY DEF Deliver, changed, coded, d, e
<1> HIDE DEF changed
<1>20. /\ call'.state = changed.state /\ call'.audio = changed.audio
       /\ call'.logged = (changed.logged \/ Finished(changed))
  <2>1. changed \in CallRecord
    BY <1>18 DEF Sounding
  <2>2. call'.state = changed.state /\ call'.audio = changed.audio
    BY <1>19, <2>1 DEF CallRecord
  <2>3. call'.logged = (changed.logged \/ Finished(changed))
    BY <1>19, <2>1, Zenon DEF CallRecord
  <2> QED
    BY <2>2, <2>3
<1>21. Sounding(call') /\ Forward(LifeCycle(call), LifeCycle(call'))
  <2>1. metaStateMap["ERROR"] = "FINISHED"
    BY DEF metaStateMap, State
  <2>2. Forward(LifeCycle(call), LifeCycle(call'))
    BY <1>12, <1>18, <1>20, <2>1 DEF LifeCycle, Forward
  <2> QED
    BY <1>1, <1>18, <1>20, <2>2, SameSounds
<1>22. Finished(changed) <=> Finished(call')
  BY <1>20 DEF Finished, LifeCycle
<1>23. call.logged => Finished(call)
  BY DEF RefinementInv
<1>24. /\ call.logged => call'.logged
       /\ call'.logged => Finished(call')
  <2>1. Finished(call) => Finished(call')
    BY <1>21 DEF Forward, Finished
  <2> QED
    BY <1>18, <1>20, <1>22, <1>23, <2>1, Zenon
<1>25. call'.state = "BUSY" => JustOver(ring')
  BY <1>9, <1>12, <1>18, <1>20
<1> QED
  <2>1. AudioFollowsProgress'
    BY <1>21 DEF Sounding, AudioFollowsProgress
  <2>2. (call.logged => Finished(call))' /\ (call.state = "BUSY" => JustOver(ring))'
    BY <1>24, <1>25 DEF Finished, LifeCycle, JustOver, NoneAlive
  <2>3. Orderly(ring)'
    BY <1>8 DEF Orderly, OneCall, NoneAlive, RingRecord
  <2>4. RefinementInv' /\ Advances
    BY <1>21, <1>24, <2>1, <2>2, <2>3 DEF RefinementInv, Advances, LifeCycle
  <2>5. call'.state \in {stateChangedStateMap[call.state][Reported(Head(q))],
                         "ERROR"}
    BY <1>18, <1>20 DEF to, d, e
  <2>6. Finished(call') => call'.logged
    BY <1>20, <1>22, Zenon
  <2> QED
    BY <2>4, <2>5, <2>6 DEF Delivered, Finished, LifeCycle

LEMMA RefinementStep ==
  ASSUME RegistrationInv, RefinementInv, NoRecordColumn, AcceptedOnce, [Next]_vars
  PROVE  RefinementInv' /\ Advances
<1>1. /\ TypeOK /\ TypeOK' /\ call \in CallRecord /\ Follows(call)
      /\ Orderly(ring) /\ Settles(ring, ring)
  BY RegistrationStep, CallFollows
     DEF RegistrationInv, TypeOK, RefinementInv, Settles
<1>2. ASSUME Follows(call'), Settles(ring, ring') PROVE RefinementInv' /\ Advances
  <2>1. Orderly(ring')
    BY <1>2 DEF Settles
  <2> QED
    BY <1>1, <1>2, <2>1, FollowingIsEnough
<1>3. CASE \E a \in Action : Perform(a)
  BY <1>1, <1>3, PerformAdvances
<1>4. CASE User /\ ~\E a \in Action : Perform(a)
  BY <1>1, <1>4, EditAdvances, TransferAdvances DEF User
<1>5. CASE Deliver
  BY <1>1, <1>5, DeliverAdvances
<1>6. CASE RingMoves
  <2>1. UNCHANGED call
    BY <1>1, <1>6, RingMovesType DEF TypeOK
  <2>2. Settles(ring, ring')
    BY <1>1, <1>6, RingOrderly
  <2> QED
    BY <1>1, <1>2, <2>1, <2>2
<1>7. CASE PeerHold \/ \E on \in BOOLEAN : RecordStateChanged(on)
  <2>1. UNCHANGED ring /\ call' \in CallRecord
    BY <1>1, <1>7 DEF TypeOK, PeerHold, RecordStateChanged
  <2>2. \/ \E h \in SUBSET {"IN", "OUT"} : call' = [call EXCEPT !.hold = h]
        \/ \E r \in SUBSET {"AUDIO", "VIDEO"} :
             call' = [call EXCEPT !.recording = r]
    BY <1>1, <1>7 DEF PeerHold, RecordStateChanged, CallRecord
  <2>3. Follows(call')
    BY <1>1, <2>1, <2>2, SameFollows DEF CallRecord
  <2> QED
    BY <1>1, <1>2, <2>1, <2>3
<1>8. CASE UNCHANGED vars
  BY <1>1, <1>2, <1>8 DEF vars
<1> QED
  BY <1>3, <1>4, <1>5, <1>6, <1>7, <1>8 DEF Next

\* A step of the call is a step of CallLifeCycle, or none.
LEMMA StepIsForward ==
  ASSUME RegistrationInv, RefinementInv, RefinementInv', Advances, TypeOK'
  PROVE  [LifeCycles!Next]_(LifeCycles!vars)
<1>1. /\ LifeCycle(call) \in LifeCycleState /\ LifeCycle(call)' \in LifeCycleState
      /\ call.logged \in BOOLEAN /\ call'.logged \in BOOLEAN
  <2>1. LifeCycle(call') \in LifeCycleState
    BY MetaStateTotal DEF TypeOK, LifeCycle, CallRecord
  <2> QED
    BY <2>1, MetaStateTotal DEF RegistrationInv, TypeOK, LifeCycle, CallRecord
<1>2. /\ Forward(LifeCycle(call), LifeCycle(call)')
      /\ call.logged => call'.logged
  BY DEF Advances
<1>3. /\ call.audio # 0 <=> LifeCycle(call) = "PROGRESS"
      /\ call'.audio # 0 <=> LifeCycle(call)' = "PROGRESS"
  BY DEF RefinementInv, AudioFollowsProgress
<1>4. /\ call.logged => LifeCycle(call) = "FINISHED"
      /\ call'.logged => LifeCycle(call)' = "FINISHED"
  BY DEF RefinementInv, Finished
<1>5. ASSUME LifeCycle(call)' = LifeCycle(call)
      PROVE  LifeCycles!Archive \/ UNCHANGED LifeCycles!vars
  BY <1>1, <1>2, <1>3, <1>4, <1>5, Zenon DEF LifeCycles!Archive, LifeCycles!vars
<1>6. ASSUME LifeCycle(call) # "FINISHED", LifeCycle(call)' = "FINISHED"
      PROVE  LifeCycles!Finish
  BY <1>1, <1>2, <1>3, <1>6, Zenon DEF LifeCycles!Finish
<1>7. ASSUME LifeCycle(call) = "CREATION", LifeCycle(call)' = "INITIALIZATION"
      PROVE  LifeCycles!Place
  BY <1>1, <1>3, <1>4, <1>7, Zenon DEF LifeCycles!Place
<1>8. ASSUME LifeCycle(call) \in {"CREATION", "INITIALIZATION"},
             LifeCycle(call)' = "PROGRESS"
      PROVE  LifeCycles!Establish
  BY <1>1, <1>3, <1>4, <1>8, Zenon DEF LifeCycles!Establish
<1> QED
  BY <1>1, <1>2, <1>5, <1>6, <1>7, <1>8
     DEF LifeCycles!Next, Forward, LifeCycleState

\* The invariants of a call of this client, for every instance.
LEMMA RefinementCorrect ==
  ASSUME NoRecordColumn, OwnCall, AcceptedOnce
  PROVE  Spec => []RefinementInv
<1>1. Init => RegistrationInv /\ RefinementInv
  BY InitKept, InitRefines
<1>2. RegistrationInv /\ RefinementInv /\ [Next]_vars
        => RegistrationInv' /\ RefinementInv'
  BY RegistrationStep, RefinementStep
<1> QED
  BY <1>1, <1>2, PTL DEF Spec

\* A call has audio media while it is in progress, one per direction, and none
\* before or after: changeCurrentState() runs initMedia() and terminateMedia()
\* in turns, whatever the daemon reports and in whatever order the user acts.
THEOREM AudioFollowsProgressCorrect ==
  ASSUME NoRecordColumn, OwnCall, AcceptedOnce
  PROVE  Spec => []AudioFollowsProgress
<1>1. RefinementInv => AudioFollowsProgress
  BY DEF RefinementInv
<1> QED
  BY <1>1, RefinementCorrect, PTL

\* call() is reached once: however fast the user accepts, the daemon never gets
\* two calls of one object.
THEOREM PlacedOnceCorrect ==
  ASSUME NoRecordColumn, OwnCall, AcceptedOnce
  PROVE  Spec => []PlacedOnce
<1>1. ASSUME RefinementInv PROVE PlacedOnce
  <2> DEFINE S == {i \in DaemonId : ring.calls[i] # "free"}
  <2>1. \A i, j \in S : i = j
    BY <1>1 DEF RefinementInv, Orderly, OneCall
  <2>2. CASE S = {}
    BY <2>2, FS_EmptySet DEF PlacedOnce
  <2>3. CASE S # {}
    <3>1. PICK i : S = {i}
      BY <2>1, <2>3
    <3> HIDE DEF S
    <3>2. Cardinality(S) = 1
      BY <3>1, FS_Singleton
    <3> QED
      BY <3>2 DEF PlacedOnce, S
  <2> QED
    BY <2>2, <2>3
<1> QED
  BY <1>1, RefinementCorrect, PTL

\* "The meta state is a flat, forward only progression from creating to
\* archiving of a call" (call_p.h): a call of this client implements
\* CallLifeCycle, with its audio media and its place in the history.
THEOREM LifeCycleImplemented ==
  ASSUME NoRecordColumn, OwnCall, AcceptedOnce
  PROVE  Spec => ImplementsLifeCycle
<1>1. Init => RegistrationInv /\ RefinementInv /\ LifeCycles!Init
  <2> SUFFICES ASSUME Init PROVE RegistrationInv /\ RefinementInv /\ LifeCycles!Init
    OBVIOUS
  <2>1. RegistrationInv /\ RefinementInv
    BY InitKept, InitRefines
  <2>2. /\ LifeCycle(call) \in LifeCycleState /\ call.logged \in BOOLEAN
        /\ call.audio # 0 <=> LifeCycle(call) = "PROGRESS"
    BY <2>1, MetaStateTotal
       DEF RegistrationInv, RefinementInv, TypeOK, LifeCycle, CallRecord,
           AudioFollowsProgress
  <2>3. LifeCycle(call) \in {"CREATION", "INITIALIZATION"}
    <3>1. call.state \in {"NEW", "INCOMING"}
      BY ZenonT(40) DEF Init, InitDialing, InitIncoming, InitExisting, OwnCall, Built,
             initTimer
    <3> QED
      BY <3>1 DEF LifeCycle, metaStateMap, State
  <2>4. ~call.logged
    BY <2>1, <2>3 DEF RefinementInv, Finished
  <2> QED
    BY <2>1, <2>2, <2>3, <2>4, Zenon DEF LifeCycles!Init
<1>2. RegistrationInv /\ RefinementInv /\ [Next]_vars
        => /\ RegistrationInv' /\ RefinementInv'
           /\ [LifeCycles!Next]_(LifeCycles!vars)
  <2> SUFFICES ASSUME RegistrationInv, RefinementInv, [Next]_vars
               PROVE  /\ RegistrationInv' /\ RefinementInv'
                      /\ [LifeCycles!Next]_(LifeCycles!vars)
    OBVIOUS
  <2>1. RegistrationInv' /\ RefinementInv' /\ Advances
    BY RegistrationStep, RefinementStep
  <2>2. TypeOK'
    BY <2>1 DEF RegistrationInv
  <2> QED
    BY <2>1, <2>2, StepIsForward
<1> QED
  BY <1>1, <1>2, PTL DEF Spec, ImplementsLifeCycle, LifeCycles!Spec

-----------------------------------------------------------------------------
(***************************************************************************)
(* How a call ends, for every set of peers and identifiers: nothing is     *)
(* left of it on the contact methods, it enters the calendar and its clock *)
(* stops.                                                                  *)
(***************************************************************************)

\* A call of this client that is over, or that was not placed, is listed by no
\* contact method and has no audio: whatever initMedia() and notifyInit() added,
\* terminateMedia() found again.
THEOREM NothingLingersCorrect ==
  ASSUME NoRecordColumn, OwnCall, AcceptedOnce
  PROVE  Spec => []NothingLingers
<1>1. Registered /\ AudioFollowsProgress => NothingLingers
  BY DEF Registered, RegisteredOn, AudioFollowsProgress, NothingLingers
<1> QED
  BY <1>1, RegistrationCorrect, AudioFollowsProgressCorrect, PTL

-----------------------------------------------------------------------------
(* The calendar.  A call that the daemon forgets is announced by OVER, which *)
(* takes the object to its end from any state.                             *)

HasOver(d) == \E k \in 1..Len(d.queue) : d.queue[k].state = "OVER"
Gone(d)    == \E i \in DaemonId : d.calls[i] = "gone"

Archived == Gone(ring) => HasOver(ring) \/ (Finished(call) /\ call.logged)

\* What the daemon forgets it says, and what it has said stays said.
Announces(d, n) ==
  /\ Gone(n) => Gone(d) \/ HasOver(n)
  /\ HasOver(d) => HasOver(n)

LEMMA PostAnnounces ==
  ASSUME NEW d \in RingRecord, NEW i \in DaemonId, NEW to \in DaemonCall,
         NEW s \in StateEvent, NEW code \in Code, to = "gone" => s = "OVER"
  PROVE  Announces(d, Post([d EXCEPT !.calls[i] = to], i, s, code))
<1> DEFINE e == [id |-> i, state |-> s, code |-> code]
           moved == [d EXCEPT !.calls[i] = to]
           n == Post(moved, i, s, code)
<1>1. d.calls \in [DaemonId -> DaemonCall] /\ d.queue \in Seq(Event)
  BY DEF RingRecord
<1>2. /\ moved \in RingRecord /\ moved.queue = d.queue
      /\ moved.calls = [d.calls EXCEPT ![i] = to]
  BY <1>1 DEF RingRecord
<1> HIDE DEF moved
<1>3. n.queue = Append(d.queue, e) /\ n.calls = [d.calls EXCEPT ![i] = to]
  BY <1>2 DEF Post, RingRecord
<1>4. e \in Event /\ e.state = s
  BY DEF Event
<1> HIDE DEF n, e
<1>5. /\ Len(n.queue) = Len(d.queue) + 1 /\ Len(d.queue) \in Nat
      /\ \A k \in 1..Len(d.queue) : n.queue[k] = d.queue[k]
      /\ n.queue[Len(d.queue) + 1] = e
  BY <1>1, <1>3, <1>4
<1>6. HasOver(d) => HasOver(n)
  BY <1>5 DEF HasOver
<1>7. to = "gone" => HasOver(n)
  <2>1. Len(d.queue) + 1 \in 1..Len(n.queue)
    BY <1>5
  <2> QED
    BY <1>4, <1>5, <2>1 DEF HasOver
<1>8. to # "gone" /\ Gone(n) => Gone(d)
  BY <1>1, <1>3 DEF Gone
<1> QED
  BY <1>6, <1>7, <1>8 DEF Announces, n, moved

LEMMA RequestAnnounces ==
  ASSUME NEW d \in RingRecord, NEW i
  PROVE  /\ Announces(d, d)
         /\ Announces(d, Accepted(d, i)) /\ Announces(d, Refused(d, i))
         /\ Announces(d, HungUp(d, i)) /\ Announces(d, Held(d, i))
         /\ Announces(d, Unheld(d, i))
         /\ \A r \in AfterTransfer(d, i) : Announces(d, r)
<1>1. /\ {"current", "ended", "held"} \subseteq DaemonCall \ {"gone"}
      /\ {"HUNGUP", "CURRENT", "HOLD", "UNHOLD"} \subseteq StateEvent
      /\ "none" \in Code
  BY DEF DaemonCall, Alive, Unanswered, Established, StateEvent, Code
<1>2. Announces(d, d)
  BY DEF Announces
<1>3. ASSUME NEW from, NEW to \in DaemonCall \ {"gone"}, NEW s \in StateEvent
      PROVE  Announces(d, Request(d, i, from, to, s))
  BY <1>1, <1>2, PostAnnounces DEF Request
<1> QED
  BY <1>1, <1>2, <1>3 DEF Accepted, Refused, HungUp, Held, Unheld,
       AfterTransfer, Transferred

\* Two requests in a row.
LEMMA TwiceAnnounced ==
  ASSUME ring \in RingRecord, NEW i
  PROVE  /\ Announces(ring, Held(Accepted(ring, i), i))
         /\ \A r \in AfterTransfer(Accepted(ring, i), i) : Announces(ring, r)
<1>1. Accepted(ring, i) \in RingRecord /\ Announces(ring, Accepted(ring, i))
  BY RequestsType, RequestAnnounces
<1> HIDE DEF Accepted
<1>2. ASSUME NEW r, Announces(Accepted(ring, i), r) PROVE Announces(ring, r)
  BY <1>1, <1>2 DEF Announces
<1> QED
  BY <1>1, <1>2, RequestAnnounces

LEMMA UserAnnounces ==
  ASSUME ring \in RingRecord, User
  PROVE  Announces(ring, ring')
<1>1. ASSUME UNCHANGED ring PROVE Announces(ring, ring')
  BY <1>1, RequestAnnounces
<1>2. ASSUME NEW a \in Action, Perform(a) PROVE Announces(ring, ring')
  <2>1. CASE PlaceCall(a)
    <3>1. PICK i \in DaemonId :
            ring' = Post([ring EXCEPT !.calls[i] = "connecting"], i,
                         "CONNECTING", "none")
      BY <2>1 DEF PlaceCall
    <3> QED
      BY <3>1, PostAnnounces
         DEF DaemonCall, Alive, Unanswered, StateEvent, Code
  <2>2. CASE \/ PerformNothing(a) \/ ToggleRecord(a) \/ CallNobody(a)
             \/ CallWithoutAccount(a) \/ PlaceCallFails(a)
    BY <1>1, <2>2 DEF PerformNothing, ToggleRecord, CallNobody,
         CallWithoutAccount, PlaceCallFails
  <2>3. CASE \/ Accept(a) \/ Refuse(a) \/ HangUp(a) \/ Remove(a) \/ Cancel(a)
             \/ Hold(a) \/ Unhold(a)
    BY <2>3, RequestAnnounces
       DEF Accept, Refuse, HangUp, Remove, Cancel, Hold, Unhold
  <2>4. CASE AcceptTransfer(a) \/ AcceptHold(a) \/ Transfer(a)
    BY <1>1, <2>4, RequestAnnounces, TwiceAnnounced
       DEF AcceptTransfer, AcceptHold, Transfer
  <2> QED
    BY <1>2, <2>1, <2>2, <2>3, <2>4 DEF Perform
<1>3. ASSUME AttendedTransfer \/ UnattendedTransfer PROVE Announces(ring, ring')
  BY <1>3, RequestAnnounces, TwiceAnnounced
     DEF AttendedTransfer, UnattendedTransfer
<1>4. ASSUME \/ \E n \in Number : SetDialNumber(n) \/ Backspace(n)
             \/ \E p \in Peer : SetPeerContactMethod(p) \/ AppendText(p)
             \/ \E known \in BOOLEAN : SetAccount(known)
             \/ \E n \in {"empty", "set"} : SetTransferNumber(n)
             \/ BackspaceNothing \/ BackspaceCrashes \/ Reset
      PROVE  Announces(ring, ring')
  BY <1>1, <1>4 DEF SetDialNumber, Backspace, SetPeerContactMethod, AppendText,
       SetAccount, SetTransferNumber, BackspaceNothing, BackspaceCrashes, Reset
<1> QED
  BY <1>2, <1>3, <1>4 DEF User

LEMMA RingAnnounces ==
  ASSUME ring \in RingRecord, RingMoves
  PROVE  Announces(ring, ring')
<1>1. ASSUME NEW from, NEW to \in DaemonCall, NEW s \in StateEvent,
             to = "gone" => s = "OVER", NEW codes \in SUBSET Code,
             Ring(from, to, s, codes)
      PROVE  Announces(ring, ring')
  BY <1>1, PostAnnounces DEF Ring
<1>2. /\ {"connecting", "ringing", "current", "ended", "gone"} \subseteq DaemonCall
      /\ {"CONNECTING", "RINGING", "CURRENT", "HUNGUP", "FAILURE", "BUSY",
          "OVER"} \subseteq StateEvent
      /\ {"none"} \in SUBSET Code
      /\ {"ECONNREFUSED", "ECONNABORTED"} \in SUBSET Code
  BY DEF DaemonCall, Alive, Established, Unanswered, StateEvent, Code
<1> QED
  BY <1>1, <1>2 DEF RingMoves, RingConnects, RingRings, RingAnswers,
       RingHangsUp, RingFails, RingIsBusy, RingIsOver

\* The table takes a call to its end, from any state, when the daemon says OVER.
LEMMA OverEnds ==
  \A s \in State : stateChangedStateMap[s]["OVER"] \in {"OVER", "FAILURE", "ERROR"}
BY DEF stateChangedStateMap, DaemonRow, State, DaemonState

LEMMA ArchivedStep ==
  ASSUME RegistrationInv, RefinementInv, Archived, NoRecordColumn, AcceptedOnce,
         [Next]_vars
  PROVE  Archived'
<1>1. /\ TypeOK /\ TypeOK' /\ Advances /\ RefinementInv'
      /\ call \in CallRecord /\ call' \in CallRecord
      /\ ring \in RingRecord /\ ring' \in RingRecord
  BY RegistrationStep, RefinementStep DEF RegistrationInv, TypeOK
<1>2. Finished(call) /\ call.logged => Finished(call') /\ call'.logged
  BY <1>1 DEF Advances, Finished, LifeCycle, Forward
<1>3. SUFFICES Gone(ring') => HasOver(ring') \/ (Finished(call') /\ call'.logged)
  BY DEF Archived, Gone, HasOver, Finished, LifeCycle
<1>4. ASSUME Announces(ring, ring')
      PROVE  Gone(ring') => HasOver(ring') \/ (Finished(call') /\ call'.logged)
  BY <1>2, <1>4 DEF Archived, Announces
<1>5. CASE Deliver
  <2> DEFINE q == ring.queue
             e == Head(q)
  <2>1. /\ ring'.queue = Tail(q) /\ ring'.calls = ring.calls
        /\ q \in Seq(Event) /\ q # <<>>
    BY <1>1, <1>5 DEF Deliver, RingRecord
  <2>2. /\ e = q[1]
        /\ \A k \in 2..Len(q) : k - 1 \in 1..Len(Tail(q)) /\ Tail(q)[k - 1] = q[k]
    BY <2>1
  <2>3. CASE e.state = "OVER"
    <3>1. Delivered
      BY <1>1, <1>5, DeliverAdvances
    <3>2. Reported(e) = "OVER"
      BY <2>3 DEF Reported, toDaemonCallState
    <3>3. call'.state \in {"OVER", "FAILURE", "ERROR"}
      BY <1>1, <3>1, <3>2, OverEnds DEF Delivered, CallRecord
    <3>4. Finished(call')
      BY <3>3 DEF Finished, LifeCycle, metaStateMap, State
    <3> QED
      BY <3>1, <3>4 DEF Delivered, Finished, LifeCycle
  <2>4. CASE e.state # "OVER"
    <3>1. HasOver(ring) => HasOver(ring')
      BY <2>1, <2>2, <2>4 DEF HasOver
    <3>2. Gone(ring') => Gone(ring)
      BY <2>1 DEF Gone
    <3> QED
      BY <1>4, <3>1, <3>2 DEF Announces
  <2> QED
    BY <2>3, <2>4
<1>6. CASE UNCHANGED ring
  BY <1>1, <1>4, <1>6, RequestAnnounces
<1> QED
  BY <1>1, <1>4, <1>5, <1>6, UserAnnounces, RingAnnounces
     DEF Next, PeerHold, RecordStateChanged, vars

\* Whatever way a call of this client ends, once the daemon has forgotten it and
\* every event is delivered, it is over for the user and in the calendar.
THEOREM EndedCallIsLoggedCorrect ==
  ASSUME NoRecordColumn, OwnCall, AcceptedOnce
  PROVE  Spec => []EndedCallIsLogged
<1>1. Init => RegistrationInv /\ RefinementInv /\ Archived
  <2>1. Init => ~Gone(ring)
    <3>1. InitDialing => ~Gone(ring)
      BY DEF InitDialing, Gone, NoCall
    <3>2. InitIncoming => ~Gone(ring)
      <4> SUFFICES ASSUME InitIncoming PROVE ~Gone(ring)
        OBVIOUS
      <4>1. PICK i \in DaemonId : ring.calls = [NoCall EXCEPT ![i] = "incoming"]
        <5>1. PICK i \in DaemonId, p \in Peer :
                ring = [calls |-> [NoCall EXCEPT ![i] = "incoming"],
                        queue |-> <<[id |-> i, state |-> "INCOMING",
                                     code |-> "none"]>>]
          BY DEF InitIncoming
        <5> QED
          BY <5>1
      <4> QED
        BY <4>1 DEF Gone, NoCall
    <3> QED
      BY <3>1, <3>2 DEF Init, InitExisting, OwnCall
  <2> QED
    BY <2>1, InitKept, InitRefines DEF Archived
<1>2. RegistrationInv /\ RefinementInv /\ Archived /\ [Next]_vars
        => RegistrationInv' /\ RefinementInv' /\ Archived'
  BY RegistrationStep, RefinementStep, ArchivedStep
<1>3. Archived => EndedCallIsLogged
  BY DEF Archived, Gone, HasOver, EndedCallIsLogged, Quiet
<1> QED
  BY <1>1, <1>2, <1>3, PTL DEF Spec

-----------------------------------------------------------------------------
(* The clock.  initTimer() runs at each change of state, and hangUp() only   *)
(* stops a clock that is there.                                              *)

Ticking(c) ==
  /\ c \in CallRecord
  /\ LifeCycle(c) \in {"INITIALIZATION", "PROGRESS"} <=> c.timer # "none"
  /\ c.timer = "stopped" => c.stop

LEMMA SameTicks ==
  ASSUME NEW c, Ticking(c), NEW d \in CallRecord, d.state = c.state,
         d.timer = c.timer, c.stop => d.stop
  PROVE  Ticking(d)
BY DEF Ticking, LifeCycle

LEMMA TimerTicks ==
  ASSUME NEW c \in CallRecord
  PROVE  Ticking(initTimer(c))
<1>1. initTimer(c) \in CallRecord
  BY initTimerType
<1>2. /\ initTimer(c).state = c.state
      /\ initTimer(c).timer = IF LifeCycle(c) \in {"PROGRESS", "INITIALIZATION"}
                              THEN "running" ELSE "none"
  BY DEF initTimer, CallRecord
<1> QED
  BY <1>1, <1>2 DEF Ticking, LifeCycle

LEMMA ChangeTicks ==
  ASSUME NEW c, Ticking(c), NEW s \in State
  PROVE  Ticking(changeCurrentState(c, s))
<1> DEFINE moved == [c EXCEPT !.state = s]
<1>1. moved \in CallRecord
  BY DEF Ticking, CallRecord
<1>2. LifeCycleCallback(moved) \in CallRecord
  BY <1>1, LifeCycleCallbackType
<1>3. \/ changeCurrentState(c, s) = c
      \/ changeCurrentState(c, s) = initTimer(moved)
      \/ changeCurrentState(c, s) = initTimer(LifeCycleCallback(moved))
  BY DEF changeCurrentState
<1> HIDE DEF moved
<1> QED
  BY <1>1, <1>2, <1>3, TimerTicks

\* The time the call stopped stays noted.
LEMMA ChangeKeepsStop ==
  ASSUME NEW c \in CallRecord, NEW s \in State
  PROVE  changeCurrentState(c, s).stop = c.stop
<1> DEFINE moved == [c EXCEPT !.state = s]
           after == LifeCycleCallback(moved)
<1>1. moved \in CallRecord /\ moved.stop = c.stop
  BY DEF CallRecord
<1>2. ASSUME NEW x \in CallRecord PROVE initTimer(x).stop = x.stop
  BY DEF initTimer, CallRecord
<1>3. \/ changeCurrentState(c, s) = c
      \/ changeCurrentState(c, s) = initTimer(moved)
      \/ changeCurrentState(c, s) = initTimer(after)
  BY DEF changeCurrentState
<1> HIDE DEF moved
<1>4. after \in CallRecord
  BY <1>1, LifeCycleCallbackType
<1>5. after.stop = moved.stop
  <2>1. \/ after = moved
        \/ after = [moved EXCEPT !.init = @ \cup {Target(moved)}]
        \/ after = [moved EXCEPT !.audio  = OneMore(@),
                                 !.active = @ \cup {Target(moved)},
                                 !.init   = @ \ {Target(moved)}]
        \/ after = [moved EXCEPT !.audio = 0, !.text = 0,
                                 !.init   = @ \ {Target(moved)},
                                 !.active = @ \ {Target(moved)}]
    <3>1. LifeCycle(moved) \in LifeCycleState
      BY <1>1, MetaStateTotal DEF LifeCycle, CallRecord
    <3> QED
      BY <3>1 DEF LifeCycleCallback, notifyInit, initMedia, terminateMedia,
                  LifeCycleState
  <2> HIDE DEF after
  <2> QED
    BY <1>1, <2>1 DEF CallRecord
<1> HIDE DEF after
<1> QED
  BY <1>1, <1>2, <1>3, <1>4, <1>5

LEMMA DropTicks ==
  ASSUME NEW c, Ticking(c)
  PROVE  Ticking(DropDialNumber(c)) /\ Ticking(ReplaceDialNumber(c))
<1>1. c \in CallRecord
  BY DEF Ticking
<1>2. ASSUME NEW x, Ticking(x) PROVE Ticking(DropDialNumber(x))
  <2>1. x \in CallRecord /\ DropDialNumber(x) \in CallRecord
    BY <1>2, DropDialNumberType DEF Ticking
  <2>2. /\ DropDialNumber(x).state = x.state /\ DropDialNumber(x).timer = x.timer
        /\ DropDialNumber(x).stop = x.stop
    BY <2>1 DEF DropDialNumber, CallRecord
  <2> QED
    BY <1>2, <2>1, <2>2, SameTicks
<1>3. CASE c.dial = "null"
  BY <1>2, <1>3 DEF ReplaceDialNumber
<1>4. CASE c.dial # "null"
  <2> DEFINE p == IF c.peer = "none" THEN WithNumber(c.dial) ELSE c.peer
             x == [c EXCEPT !.peer = p]
  <2>1. p \in Peer \cup {"blank"}
    BY <1>1, <1>4 DEF CallRecord, WithNumber
  <2>2. ReplaceDialNumber(c) = DropDialNumber(x)
    BY <1>4 DEF ReplaceDialNumber
  <2> HIDE DEF p
  <2>3. x \in CallRecord /\ x.state = c.state /\ x.timer = c.timer /\ x.stop = c.stop
    BY <1>1, <2>1 DEF CallRecord
  <2> HIDE DEF x
  <2>4. Ticking(x)
    BY <2>3, SameTicks
  <2> QED
    BY <1>2, <2>2, <2>4
<1> QED
  BY <1>3, <1>4

\* The times and the reasons that the functions note.
LEMMA NotesTick ==
  ASSUME NEW c, Ticking(c)
  PROVE  /\ Ticking([c EXCEPT !.start = TRUE]) /\ Ticking([c EXCEPT !.missed = TRUE])
         /\ Ticking(stop(c)) /\ Ticking(startStop(c)) /\ Ticking(sendProfile(c))
         /\ Ticking(SyncHoldFlag(c))
<1>1. c \in CallRecord
  BY DEF Ticking
<1>2. ASSUME NEW d \in CallRecord, d.state = c.state, d.timer = c.timer,
             d.stop = TRUE \/ d.stop = c.stop
      PROVE  Ticking(d)
  BY <1>2, SameTicks
<1>3. Ticking([c EXCEPT !.start = TRUE])
  <2> DEFINE d == [c EXCEPT !.start = TRUE]
  <2>1. d \in CallRecord /\ d.state = c.state /\ d.timer = c.timer /\ d.stop = c.stop
    BY <1>1 DEF CallRecord
  <2> HIDE DEF d
  <2>2. Ticking(d)
    BY <1>2, <2>1
  <2> QED
    BY <2>2 DEF d
<1>4. Ticking([c EXCEPT !.missed = TRUE])
  <2> DEFINE d == [c EXCEPT !.missed = TRUE]
  <2>1. d \in CallRecord /\ d.state = c.state /\ d.timer = c.timer /\ d.stop = c.stop
    BY <1>1 DEF CallRecord
  <2> HIDE DEF d
  <2>2. Ticking(d)
    BY <1>2, <2>1
  <2> QED
    BY <2>2 DEF d
<1>5. Ticking(stop(c))
  <2>1. /\ stop(c) \in CallRecord /\ stop(c).state = c.state
        /\ stop(c).timer = c.timer /\ stop(c).stop = TRUE
    BY <1>1 DEF stop, CallRecord
  <2> QED
    BY <1>2, <2>1
<1>6. Ticking(startStop(c))
  <2>1. startStop(c) \in CallRecord
    BY <1>1, ZenonT(40) DEF startStop, CallRecord
  <2>2. /\ startStop(c).state = c.state
        /\ startStop(c).timer = c.timer /\ startStop(c).stop = TRUE
    BY <1>1 DEF startStop, CallRecord
  <2> QED
    BY <1>2, <2>1, <2>2
<1>7. Ticking(sendProfile(c))
  <2>1. sendProfile(c) \in CallRecord
    BY <1>1, sendProfileType
  <2>2. /\ sendProfile(c).state = c.state /\ sendProfile(c).timer = c.timer
        /\ sendProfile(c).stop = c.stop
    BY <1>1 DEF sendProfile, CallRecord
  <2> QED
    BY <1>2, <2>1, <2>2
<1>8. Ticking(SyncHoldFlag(c))
  <2>1. SyncHoldFlag(c) \in CallRecord
    BY <1>1 DEF SyncHoldFlag, CallRecord
  <2>2. /\ SyncHoldFlag(c).state = c.state /\ SyncHoldFlag(c).timer = c.timer
        /\ SyncHoldFlag(c).stop = c.stop
    BY <1>1 DEF SyncHoldFlag, CallRecord
  <2> QED
    BY <1>2, <2>1, <2>2
<1> QED
  BY <1>3, <1>4, <1>5, <1>6, <1>7, <1>8

LEMMA CallbackTicks ==
  ASSUME NEW c, Ticking(c), NEW f
  PROVE  Ticking(DaemonCallback(f, c))
<1>1. ASSUME NEW x, Ticking(x) PROVE Ticking(start(x))
  <2>1. Ticking([ReplaceDialNumber(x) EXCEPT !.start = TRUE])
    BY <1>1, DropTicks, NotesTick
  <2>2. Ticking(initTimer([ReplaceDialNumber(x) EXCEPT !.start = TRUE]))
    BY <2>1, TimerTicks DEF Ticking
  <2> QED
    BY <2>2, NotesTick DEF start
<1>2. Ticking(startWeird(c)) /\ Ticking(failure(c)) /\ Ticking(warning(c))
  BY <1>1, NotesTick DEF startWeird, failure, warning
<1>3. Ticking(changeCurrentState(c, "ERROR"))
  BY ChangeTicks DEF State
<1> QED
  BY <1>1, <1>2, <1>3, NotesTick DEF DaemonCallback

LEMMA PerformTicks ==
  ASSUME TypeOK', Ticking(call), NEW a \in Action, Perform(a)
  PROVE  Ticking(call')
<1> DEFINE e == Entered(a)
<1>1. /\ Ticking(e) /\ call' \in CallRecord /\ e \in CallRecord
      /\ {"OVER", "ERROR", "ABORTED", "FAILURE"} \subseteq State
  <2>1. actionPerformedStateMap[call.state][a] \in State
    BY ActionTotal DEF Ticking, CallRecord
  <2> QED
    BY <2>1, ChangeTicks DEF Ticking, TypeOK, Entered, State
<1>2. ASSUME call'.state = e.state, call'.timer = e.timer, call'.stop = e.stop
      PROVE  Ticking(call')
  BY <1>1, <1>2, SameTicks
<1>3. Ticking(stop(e))
  BY <1>1, NotesTick
<1> HIDE DEF e
<1>4. CASE PerformNothing(a) \/ AcceptTransfer(a)
  BY <1>1, <1>4 DEF PerformNothing, AcceptTransfer, e
<1>5. CASE Accept(a) \/ AcceptHold(a)
  <2>1. \/ call' = [e EXCEPT !.start = TRUE, !.outgoing = FALSE]
        \/ call' = [e EXCEPT !.outgoing = FALSE]
    BY <1>5 DEF Accept, AcceptHold, e
  <2> QED
    BY <1>1, <1>2, <2>1, ZenonT(40) DEF CallRecord
<1>6. CASE Refuse(a)
  <2> DEFINE c == [e EXCEPT !.start = TRUE, !.missed = TRUE, !.reason = "REFUSED"]
  <2>1. call' \in {c, changeCurrentState(c, "ERROR")}
    BY <1>6 DEF Refuse, e
  <2>2. c.state = e.state /\ c.timer = e.timer /\ c.stop = e.stop
    BY <1>1 DEF CallRecord
  <2>3. c \in CallRecord
    <3>1. e \in CallRecord
      BY <1>1
    <3> QED
      BY <3>1 DEF CallRecord
  <2> HIDE DEF c
  <2>4. Ticking(c)
    BY <1>1, <2>2, <2>3, SameTicks
  <2> QED
    BY <1>1, <2>1, <2>4, ChangeTicks
<1>7. CASE HangUp(a)
  <2> DEFINE c == IF Known(ring, call.id) THEN stop(e)
                  ELSE changeCurrentState(stop(e), "OVER")
             t == IF c.timer = "none" THEN c.timer ELSE "stopped"
  <2>1. call' = [c EXCEPT !.timer = t]
    BY <1>7 DEF HangUp, e
  <2>2. Ticking(c) /\ c.stop = TRUE
    <3>1. stop(e).stop = TRUE
      BY <1>1 DEF stop, CallRecord
    <3>2. changeCurrentState(stop(e), "OVER").stop = TRUE
      BY <1>1, <1>3, <3>1, ChangeKeepsStop DEF Ticking
    <3> QED
      BY <1>1, <1>3, <3>1, <3>2, ChangeTicks
  <2>3. c \in CallRecord
    BY <2>2 DEF Ticking
  <2> HIDE DEF c
  <2>4. /\ call'.state = c.state /\ call'.stop = TRUE
        /\ call'.timer = IF c.timer = "none" THEN "none" ELSE "stopped"
    BY <2>1, <2>2, <2>3 DEF CallRecord
  <2> QED
    BY <1>1, <2>2, <2>4 DEF Ticking, LifeCycle
<1>8. CASE Remove(a) \/ Cancel(a) \/ CallWithoutAccount(a)
  <2>1. call' \in {e, changeCurrentState(e, "ERROR"), changeCurrentState(e, "OVER")}
    BY <1>8 DEF Remove, Cancel, CallWithoutAccount, e
  <2> QED
    BY <1>1, <2>1, ChangeTicks
<1>9. CASE Hold(a) \/ Unhold(a)
  <2>1. \/ call' = [e EXCEPT !.hold = @ \cup {"OUT"}]
        \/ call' = [e EXCEPT !.hold = @ \ {"OUT"}]
    BY <1>9 DEF Hold, Unhold, e
  <2> QED
    BY <1>1, <1>2, <2>1 DEF CallRecord
<1>10. CASE Transfer(a)
  BY <1>1, <1>3, <1>10 DEF Transfer, e
<1>11. CASE ToggleRecord(a)
  <2>1. PICK r : call' = [e EXCEPT !.recording = r]
    BY <1>11 DEF ToggleRecord, e
  <2> QED
    BY <1>1, <1>2, <2>1 DEF CallRecord
<1>12. CASE CallNobody(a)
  BY <1>1, <1>12, ChangeTicks, DropTicks DEF CallNobody, e
<1>13. CASE PlaceCall(a) \/ PlaceCallFails(a)
  <2> DEFINE x == [e EXCEPT !.account = TRUE, !.outgoing = TRUE, !.start = TRUE]
             p == Placed(a)
             c == changeCurrentState(p, "FAILURE")
  <2>1. /\ x \in CallRecord /\ x.state = e.state /\ x.timer = e.timer
        /\ x.stop = e.stop
    BY <1>1, ZenonT(40) DEF CallRecord
  <2>2. p = ReplaceDialNumber(x)
    BY DEF Placed, e
  <2> HIDE DEF x, p
  <2>3. Ticking(x)
    BY <1>1, <2>1, SameTicks
  <2>4. Ticking(p)
    BY <2>2, <2>3, DropTicks
  <2>5. Ticking(c)
    BY <1>1, <2>4, ChangeTicks
  <2>6. \E i : call' = [p EXCEPT !.id = i] \/ call' = [c EXCEPT !.id = i]
    BY <1>13 DEF PlaceCall, PlaceCallFails, p
  <2> HIDE DEF c
  <2> QED
    BY <1>1, <2>4, <2>5, <2>6, SameTicks DEF Ticking, CallRecord
<1> QED
  BY <1>4, <1>5, <1>6, <1>7, <1>8, <1>9, <1>10, <1>11, <1>12, <1>13 DEF Perform

LEMMA EditTicks ==
  ASSUME TypeOK', Ticking(call), User, ~\E a \in Action : Perform(a)
  PROVE  Ticking(call')
<1>1. /\ call \in CallRecord /\ call' \in CallRecord
      /\ {"NEW", "DIALING", "ABORTED", "OVER", "TRANSFERRED"} \subseteq State
  BY DEF Ticking, TypeOK, State
<1>2. ASSUME NEW c, Ticking(c), NEW d \in CallRecord,
             \/ \E n : d = [c EXCEPT !.dial = n]
             \/ \E n : d = [c EXCEPT !.transferTo = n]
             \/ \E n : d = [c EXCEPT !.peer = n]
             \/ \E n : d = [c EXCEPT !.account = n]
             \/ \E n : d = [c EXCEPT !.crashed = n]
      PROVE  Ticking(d)
  <2>1. c \in CallRecord
    BY <1>2 DEF Ticking
  <2>2. d.state = c.state /\ d.timer = c.timer /\ d.stop = c.stop
    BY <1>2, <2>1 DEF CallRecord
  <2> QED
    BY <1>2, <2>2, SameTicks
<1>3. ASSUME Crash PROVE Ticking(call')
  <2>1. call' = [call EXCEPT !.crashed = TRUE]
    BY <1>3 DEF Crash
  <2> QED
    BY <1>1, <1>2, <2>1
<1>4. ASSUME NEW c, Ticking(c), NEW n \in Number \cup {"null"}
      PROVE  Ticking([c EXCEPT !.dial = n])
  <2>1. [c EXCEPT !.dial = n] \in CallRecord
    BY <1>4 DEF Ticking, CallRecord
  <2> QED
    BY <1>2, <1>4, <2>1
<1>5. ASSUME NEW c, Ticking(c), NEW n \in Number PROVE Ticking(WithDialNumber(c, n))
  BY <1>1, <1>4, <1>5, ChangeTicks DEF WithDialNumber
<1>6. "empty" \in Number /\ Peer \subseteq Number /\ call.dial \in Number \cup {"null"}
  BY <1>1 DEF Number, CallRecord
<1>7. ASSUME NEW n \in Number, SetDialNumber(n) PROVE Ticking(call')
  BY <1>3, <1>5, <1>7 DEF SetDialNumber
<1>8. ASSUME NEW p \in Peer, SetPeerContactMethod(p) PROVE Ticking(call')
  <2>1. [call EXCEPT !.peer = p] \in CallRecord
    BY <1>1, <1>8 DEF CallRecord
  <2>2. Ticking([call EXCEPT !.peer = p])
    BY <1>2, <2>1
  <2> QED
    BY <1>3, <1>5, <1>6, <1>8, <2>2 DEF SetPeerContactMethod
<1>9. ASSUME NEW known, SetAccount(known) PROVE Ticking(call')
  BY <1>1, <1>2, <1>9 DEF SetAccount
<1>10. ASSUME NEW n, SetTransferNumber(n) PROVE Ticking(call')
  BY <1>1, <1>2, <1>10 DEF SetTransferNumber
<1>11. ASSUME NEW p \in Peer, AppendText(p) PROVE Ticking(call')
  <2> DEFINE n == IF call.dial = "null" THEN call.dial ELSE p
             c == [call EXCEPT !.dial = n]
  <2>1. CASE call' = changeCurrentState(c, "DIALING")
    <3>1. n \in Number \cup {"null"}
      BY <1>6
    <3> HIDE DEF n
    <3>2. Ticking(c)
      BY <1>4, <3>1
    <3> HIDE DEF c
    <3> QED
      BY <1>1, <2>1, <3>2, ChangeTicks
  <2>2. CASE \E t : call' = [call EXCEPT !.transferTo = t]
    BY <1>1, <1>2, <2>2
  <2> QED
    BY <1>11, <2>1, <2>2 DEF AppendText
<1>12. ASSUME NEW n \in Number, Backspace(n) PROVE Ticking(call')
  <2>1. CASE call' = [changeCurrentState(call, "DIALING") EXCEPT !.dial = n]
    BY <1>1, <1>4, <2>1, ChangeTicks
  <2>2. CASE \E t : call' = [call EXCEPT !.transferTo = t]
    BY <1>1, <1>2, <2>2
  <2> QED
    BY <1>12, <2>1, <2>2 DEF Backspace
<1>13. ASSUME BackspaceNothing PROVE Ticking(call')
  BY <1>1, <1>13, ChangeTicks DEF BackspaceNothing
<1>14. ASSUME Reset PROVE Ticking(call')
  <2> DEFINE c == changeCurrentState(call, "NEW")
             n == IF c.dial = "null" THEN c.dial ELSE "empty"
  <2>1. CASE call' = [c EXCEPT !.dial = n]
    <3>1. Ticking(c)
      BY <1>1, ChangeTicks
    <3>2. n \in Number \cup {"null"}
      BY <1>6
    <3> HIDE DEF c, n
    <3> QED
      BY <1>4, <2>1, <3>1, <3>2
  <2>2. CASE \E t : call' = [call EXCEPT !.transferTo = t]
    BY <1>1, <1>2, <2>2
  <2> QED
    BY <1>14, <2>1, <2>2 DEF Reset
<1>15. ASSUME AttendedTransfer PROVE Ticking(call')
  BY <1>1, <1>15, ChangeTicks DEF AttendedTransfer
<1>16. ASSUME UnattendedTransfer PROVE Ticking(call')
  <2> DEFINE named == [call EXCEPT !.transferTo = "set"]
             to    == actionPerformedStateMap[call.state]["TRANSFER"]
             left  == changeCurrentState(named, to)
             after == IF OnTransfer(call.state) = "transfer" THEN stop(left)
                      ELSE left
             shown == changeCurrentState(after, "TRANSFERRED")
  <2>1. named \in CallRecord
    BY <1>1 DEF CallRecord
  <2>2. Ticking(named)
    BY <1>2, <2>1
  <2>3. to \in State
    BY <1>1, ActionTotal DEF CallRecord, Action
  <2> HIDE DEF named, to
  <2>4. Ticking(left)
    BY <2>2, <2>3, ChangeTicks
  <2> HIDE DEF left
  <2>5. Ticking(after)
    BY <2>4, NotesTick
  <2> HIDE DEF after
  <2>6. Ticking(shown)
    BY <1>1, <2>5, ChangeTicks
  <2> HIDE DEF shown
  <2>7. call' = changeCurrentState(stop(shown), "OVER")
    BY <1>16 DEF UnattendedTransfer, shown, after, left, to, named
  <2> QED
    BY <1>1, <2>6, <2>7, NotesTick, ChangeTicks
<1> QED
  BY <1>3, <1>7, <1>8, <1>9, <1>10, <1>11, <1>12, <1>13, <1>14, <1>15, <1>16
     DEF User, BackspaceCrashes

LEMMA DeliverTicks ==
  ASSUME TypeOK, TypeOK', Ticking(call), Deliver
  PROVE  Ticking(call')
<1> DEFINE e     == Head(ring.queue)
           coded == [call EXCEPT !.code = IF e.code = "none" THEN @ ELSE e.code]
           d     == Reported(e)
           to    == stateChangedStateMap[coded.state][d]
           moved == changeCurrentState(coded, to)
           f     == stateChangedFunctionMap[coded.state][d]
           done  == DaemonCallback(f, SyncHoldFlag(moved))
           changed == stateChanged(coded, d)
<1>1. e \in Event
  BY DEF TypeOK, RingRecord, Deliver
<1> HIDE DEF e
<1>2. d \in DaemonState /\ e.code \in Code
  BY <1>1 DEF Event, Reported, toDaemonCallState, DaemonState, StateEvent
<1> HIDE DEF d
<1>3. /\ coded \in CallRecord /\ coded.state = call.state
      /\ coded.timer = call.timer /\ coded.stop = call.stop
  BY <1>2 DEF TypeOK, CallRecord
<1>4. Ticking(coded) /\ to \in State
  BY <1>2, <1>3, SameTicks, EventTotal DEF CallRecord
<1>5. changed = IF f = "error" \/ LifeCycle(done) = "CREATION" THEN done
                ELSE ReplaceDialNumber(done)
  BY DEF stateChanged
<1> HIDE DEF coded, to, f
<1>6. Ticking(moved)
  BY <1>4, ChangeTicks
<1> HIDE DEF moved
<1>7. Ticking(done)
  BY <1>6, NotesTick, CallbackTicks
<1> HIDE DEF done
<1>8. Ticking(changed)
  BY <1>5, <1>7, DropTicks
<1>9. call' = [changed EXCEPT !.logged = @ \/ Finished(changed)]
  BY DEF Deliver, changed, coded, d, e
<1> HIDE DEF changed
<1>10. /\ call'.state = changed.state /\ call'.timer = changed.timer
       /\ call'.stop = changed.stop
  BY <1>8, <1>9 DEF Ticking, CallRecord
<1> QED
  BY <1>8, <1>10, SameTicks DEF TypeOK

\* The clock of a call runs from the moment it starts until it ends or is hung
\* up, and a clock that was stopped means that the time is known: whatever is
\* performed in whatever state, and whoever made the call.
THEOREM ClockIsKeptCorrect == Spec => []ClockIsKept
<1>1. Init => TypeOK /\ Ticking(call)
  <2> SUFFICES ASSUME Init PROVE Ticking(call)
    BY InitType
  <2>1. call \in CallRecord
    BY InitType DEF TypeOK
  <2>2. \E s, i, p, outgoing, recording :
          call = Built(s, i, p, outgoing, recording)
    BY Zenon DEF Init, InitDialing, InitIncoming, InitExisting
  <2>3. PICK s, i, p, outgoing, recording :
          call = Built(s, i, p, outgoing, recording)
    BY <2>2
  <2>4. /\ call.state = s /\ call.stop = FALSE
        /\ call.timer = IF metaStateMap[s] \in {"PROGRESS", "INITIALIZATION"}
                        THEN "running" ELSE "none"
    BY <2>3 DEF Built, initTimer, LifeCycle
  <2> QED
    BY <2>1, <2>4 DEF Ticking, LifeCycle
<1>2. TypeOK /\ Ticking(call) /\ [Next]_vars => TypeOK' /\ Ticking(call)'
  <2> SUFFICES ASSUME TypeOK, Ticking(call), [Next]_vars
               PROVE  TypeOK' /\ Ticking(call)'
    OBVIOUS
  <2>1. TypeOK'
    BY TypeStep
  <2>2. SUFFICES Ticking(call')
    BY <2>1 DEF Ticking, LifeCycle
  <2>3. CASE \E a \in Action : Perform(a)
    BY <2>1, <2>3, PerformTicks
  <2>4. CASE User /\ ~\E a \in Action : Perform(a)
    BY <2>1, <2>4, EditTicks
  <2>5. CASE Deliver
    BY <2>1, <2>5, DeliverTicks
  <2>6. CASE UNCHANGED call
    BY <2>6
  <2>7. CASE PeerHold \/ \E on \in BOOLEAN : RecordStateChanged(on)
    <3>1. \/ \E h : call' = [call EXCEPT !.hold = h]
          \/ \E r : call' = [call EXCEPT !.recording = r]
      BY <2>7 DEF PeerHold, RecordStateChanged
    <3>2. /\ call'.state = call.state /\ call'.timer = call.timer
          /\ call'.stop = call.stop
      BY <3>1 DEF TypeOK, CallRecord
    <3> QED
      BY <2>1, <3>2, SameTicks DEF TypeOK
  <2> QED
    BY <2>3, <2>4, <2>5, <2>6, <2>7, RingMovesType DEF Next, vars, TypeOK
<1>3. Ticking(call) => ClockIsKept
  BY DEF Ticking, ClockIsKept
<1> QED
  BY <1>1, <1>2, <1>3, PTL DEF Spec

-----------------------------------------------------------------------------
(***************************************************************************)
(* The object and the daemon agree once nothing is in flight.              *)
(*                                                                         *)
(* What the object shows is not what the daemon call is, but what it was   *)
(* when it emitted the last event that was delivered.  The invariant says  *)
(* which states of the daemon call that may have been (View), and that the *)
(* events in flight lead from one of them to what the daemon call is now   *)
(* (Seen): the events that are delivered, or added by requests, keep it.   *)
(***************************************************************************)

\* The daemon call goes from a state to another and says s, with a code.
Said(from, s, code, to) ==
  \/ from = "incoming" /\ s = "INCOMING" /\ to = "incoming"
  \/ from \in {"free", "ringing"} /\ s = "CONNECTING" /\ to = "connecting"
  \/ from = "connecting" /\ s = "RINGING" /\ to = "ringing"
  \/ from \in Unanswered /\ s = "CURRENT" /\ to = "current"
  \/ from = "current" /\ s = "HOLD" /\ to = "held"
  \/ from = "held" /\ s = "UNHOLD" /\ to = "current"
  \/ /\ from \in Alive /\ s \in {"HUNGUP", "FAILURE"} /\ to = "ended"
     /\ code # "none" => from \in Unanswered
  \/ from \in {"connecting", "ringing"} /\ s = "BUSY" /\ to = "ended"
  \/ from = "ended" /\ s = "OVER" /\ to = "gone"

\* The daemon states that a call in state s has seen last; none, for the states of a
\* call that the daemon does not know, and any, once it was given up.
View(s) ==
  CASE s = "INITIALIZATION"                        -> {"free", "connecting"}
    [] s = "CONNECTED"                             -> {"connecting"}
    [] s = "RINGING"                               -> {"ringing"}
    [] s = "INCOMING"                              -> {"incoming"}
    [] s \in {"CURRENT", "TRANSFERRED"}            -> {"current"}
    [] s \in {"HOLD", "TRANSF_HOLD"}               -> {"held"}
    [] s = "BUSY"                                  -> {"ended", "gone"}
    [] s \in {"OVER", "ERROR", "ABORTED", "FAILURE"} -> DaemonCall
    [] OTHER                                       -> {}

\* The events in flight tell the way of call i from g to where it is.
Path(d, i, p) ==
  /\ p[Len(d.queue)] = d.calls[i]
  /\ \A k \in 1..Len(d.queue) :
       Said(p[k - 1], d.queue[k].state, d.queue[k].code, p[k])

Seen(d, i, g) == \E p \in [0..Len(d.queue) -> DaemonCall] : p[0] = g /\ Path(d, i, p)

InStep ==
  IF call.id \in DaemonId
    THEN /\ ring.calls[call.id] # "free"
         /\ \E g \in View(call.state) : Seen(ring, call.id, g)
    ELSE Idle(ring)

-----------------------------------------------------------------------------
(* The tables.                                                             *)

LEMMA ActionView ==
  ASSUME NEW s \in State, NEW a \in Action \ {"RECORD_VIDEO", "RECORD_TEXT"}
  PROVE  View(s) \subseteq View(actionPerformedStateMap[s][a])
<1> DEFINE to == actionPerformedStateMap[s][a]
<1>1. \A r \in State : View(r) \subseteq DaemonCall
  BY DEF View, DaemonCall, Alive, Unanswered, Established, State
<1>2. \A r \in {"OVER", "ERROR", "ABORTED", "FAILURE"} : View(r) = DaemonCall
  BY DEF View
<1>3. CASE s \in {"NEW", "DIALING", "CONFERENCE", "CONFERENCE_HOLD"}
  BY <1>3 DEF View
<1>4. CASE s \in {"INCOMING", "RINGING", "INITIALIZATION", "CONNECTED"}
  <2>1. to \in {s, "OVER", "ERROR"}
    BY <1>4 DEF actionPerformedStateMap, ActionRow, State, Action
  <2> HIDE DEF to
  <2> QED
    BY <1>1, <1>2, <2>1 DEF to
<1>5. CASE s \in {"CURRENT", "HOLD", "TRANSFERRED", "TRANSF_HOLD"}
  <2>1. \/ to \in {s, "ERROR"}
        \/ s \in {"CURRENT", "TRANSFERRED"} /\ to \in {"CURRENT", "TRANSFERRED"}
        \/ s \in {"HOLD", "TRANSF_HOLD"} /\ to \in {"HOLD", "TRANSF_HOLD"}
    BY <1>5 DEF actionPerformedStateMap, ActionRow, State, Action
  <2> HIDE DEF to
  <2>2. View("CURRENT") = View("TRANSFERRED") /\ View("HOLD") = View("TRANSF_HOLD")
    BY DEF View
  <2> QED
    BY <1>1, <1>2, <2>1, <2>2 DEF to
<1>6. CASE s \in {"FAILURE", "BUSY", "OVER", "ERROR", "ABORTED"}
  <2>1. to \in {s, "OVER", "ERROR"}
    BY <1>6 DEF actionPerformedStateMap, ActionRow, State, Action
  <2> HIDE DEF to
  <2> QED
    BY <1>1, <1>2, <2>1 DEF to
<1> QED
  BY <1>3, <1>4, <1>5, <1>6 DEF State

\* The event that tells a move of the daemon call takes the object to a state that
\* has seen the move, by a transition that is allowed.
LEMMA EventView ==
  ASSUME NEW s \in State, NEW g \in View(s), NEW to \in DaemonCall,
         NEW e \in StateEvent, NEW code \in Code, Said(g, e, code, to),
         NEW d, \/ d = toDaemonCallState(e)
                \/ d = "BUSY" /\ e = "HUNGUP" /\ code = "ECONNREFUSED"
  PROVE  LET r == stateChangedStateMap[s][d]
         IN  /\ metaStateMap[s] \in metaStateTransitionValidationMap[r]
             /\ to \in View(r)
             /\ metaStateMap[r] = "FINISHED" => metaStateMap[s] = "FINISHED" \/ e \in Ending
             /\ stateChangedFunctionMap[s][d] = "error" => metaStateMap[s] = "FINISHED"
<1> DEFINE r == stateChangedStateMap[s][d]
           Fine == /\ metaStateMap[s] \in metaStateTransitionValidationMap[r]
                   /\ to \in View(r)
                   /\ metaStateMap[r] = "FINISHED" =>
                        metaStateMap[s] = "FINISHED" \/ e \in Ending
<1>1. ASSUME s \in {"INITIALIZATION", "CONNECTED", "RINGING", "INCOMING"}
      PROVE  Fine
  <2>1. g \in Unanswered \cup {"free"}
    BY <1>1 DEF View, Unanswered
  <2>2. CASE to = "ended"
    <3>1. d \in {"HUNG_UP", "FAILURE", "BUSY"} /\ e \in Ending
      BY <2>1, <2>2 DEF Said, Unanswered, Alive, Established, toDaemonCallState, Ending
    <3>2. r \in {"OVER", "FAILURE", "BUSY"}
      BY <1>1, <3>1 DEF stateChangedStateMap, DaemonRow, State, DaemonState
    <3> HIDE DEF r
    <3>3. /\ metaStateMap[s] = "INITIALIZATION"
          /\ metaStateMap[s] \in metaStateTransitionValidationMap[r]
      BY <1>1, <3>2 DEF metaStateMap, metaStateTransitionValidationMap, State
    <3>4. to \in View(r)
      BY <2>2, <3>2 DEF View
    <3> QED
      BY <3>1, <3>3, <3>4
  <2>3. CASE to # "ended"
    <3>1. \/ g = "incoming" /\ d = "RINGING" /\ to = "incoming"
          \/ g \in {"free", "ringing"} /\ d = "CONNECTING" /\ to = "connecting"
          \/ g = "connecting" /\ d = "RINGING" /\ to = "ringing"
          \/ g \in Unanswered /\ d = "CURRENT" /\ to = "current"
      BY <2>1, <2>3 DEF Said, Unanswered, toDaemonCallState
    <3>2. \/ s = "INCOMING" /\ g = "incoming"
          \/ s \in {"INITIALIZATION", "CONNECTED"} /\ g \in {"free", "connecting"}
          \/ s = "RINGING" /\ g = "ringing"
      BY <1>1 DEF View
    <3>3. \/ s = "INCOMING" /\ d = "RINGING" /\ to = "incoming"
          \/ s \in {"INITIALIZATION", "CONNECTED"} /\ d = "CONNECTING" /\ to = "connecting"
          \/ s = "RINGING" /\ d = "CONNECTING" /\ to = "connecting"
          \/ s \in {"INITIALIZATION", "CONNECTED"} /\ d = "RINGING" /\ to = "ringing"
          \/ d = "CURRENT" /\ to = "current"
      BY <3>1, <3>2
    <3>4. \/ s = "INCOMING" /\ r = "INCOMING" /\ to = "incoming"
          \/ r \in {"INITIALIZATION", "CONNECTED"} /\ to = "connecting"
          \/ r = "RINGING" /\ to = "ringing"
          \/ r = "CURRENT" /\ to = "current"
      BY <1>1, <3>3 DEF stateChangedStateMap, DaemonRow, State, DaemonState
    <3> HIDE DEF r
    <3>5. metaStateMap[s] = "INITIALIZATION"
      BY <1>1 DEF metaStateMap, State
    <3>6. /\ metaStateMap[s] \in metaStateTransitionValidationMap[r]
          /\ metaStateMap[r] # "FINISHED"
      BY <3>4, <3>5 DEF metaStateMap, metaStateTransitionValidationMap, State
    <3>7. to \in View(r)
      BY <3>4 DEF View
    <3> QED
      BY <3>6, <3>7
  <2> QED
    BY <2>2, <2>3
<1>2. ASSUME s \in {"CURRENT", "TRANSFERRED", "HOLD", "TRANSF_HOLD"}
      PROVE  Fine
  <2>1. g \in Established
    BY <1>2 DEF View, Established
  <2>2. \/ d = "HOLD" /\ to = "held"
        \/ d = "CURRENT" /\ to = "current"
        \/ d \in {"HUNG_UP", "FAILURE"} /\ to = "ended" /\ e \in Ending
    BY <2>1 DEF Said, Unanswered, Alive, Established, toDaemonCallState, Ending
  <2>3. \/ r \in {"HOLD", "TRANSF_HOLD"} /\ to = "held"
        \/ r \in {"CURRENT", "TRANSFERRED"} /\ to = "current"
        \/ r \in {"OVER", "FAILURE"} /\ to = "ended" /\ e \in Ending
    BY <1>2, <2>2 DEF stateChangedStateMap, DaemonRow, State, DaemonState
  <2> HIDE DEF r
  <2>4. metaStateMap[s] = "PROGRESS"
    BY <1>2 DEF metaStateMap, State
  <2>5. /\ metaStateMap[s] \in metaStateTransitionValidationMap[r]
        /\ r \in {"HOLD", "TRANSF_HOLD", "CURRENT", "TRANSFERRED"} =>
             metaStateMap[r] # "FINISHED"
    BY <2>3, <2>4 DEF metaStateMap, metaStateTransitionValidationMap, State
  <2>6. to \in View(r)
    BY <2>3 DEF View, DaemonCall
  <2> QED
    BY <2>3, <2>5, <2>6
<1>3. ASSUME s = "BUSY" PROVE Fine
  <2>1. d = "OVER" /\ to = "gone"
    BY <1>3 DEF View, Said, Unanswered, Alive, Established, toDaemonCallState
  <2>2. r = "OVER" /\ metaStateMap[s] = "FINISHED"
    BY <1>3, <2>1 DEF stateChangedStateMap, DaemonRow, State, DaemonState, metaStateMap
  <2> HIDE DEF r
  <2> QED
    BY <2>2 DEF metaStateTransitionValidationMap, State, View
<1>4. ASSUME s \in {"OVER", "ERROR", "ABORTED", "FAILURE"} PROVE Fine
  <2>1. /\ d \in {"RINGING", "CONNECTING", "CURRENT", "HOLD", "HUNG_UP", "FAILURE", "BUSY",
                  "OVER"}
        /\ d = "BUSY" => to = "ended"
    BY DEF Said, toDaemonCallState
  <2>2. r \in {"OVER", "ERROR", "FAILURE"} \/ (r = "BUSY" /\ to = "ended")
    BY <1>4, <2>1 DEF stateChangedStateMap, DaemonRow, State, DaemonState
  <2> HIDE DEF r
  <2>3. metaStateMap[s] = "FINISHED"
    BY <1>4 DEF metaStateMap, State
  <2>4. metaStateMap[s] \in metaStateTransitionValidationMap[r]
    BY <2>2, <2>3 DEF metaStateTransitionValidationMap, State, LifeCycleState
  <2>5. to \in View(r)
    BY <2>2 DEF View
  <2> QED
    BY <2>3, <2>4, <2>5
<1>5. Fine
  <2>1. s \notin {"NEW", "DIALING", "CONFERENCE", "CONFERENCE_HOLD"}
    BY DEF View
  <2> QED
    BY <1>1, <1>2, <1>3, <1>4, <2>1 DEF State
<1>6. ASSUME stateChangedFunctionMap[s][d] = "error" PROVE metaStateMap[s] = "FINISHED"
  <2>1. d \in DaemonState
    BY DEF Said, toDaemonCallState, DaemonState
  <2>2. s \in GivenUp
    BY <1>6, <2>1 DEF stateChangedFunctionMap, OnRinging, OnCurrent, OnBusy, OnHeld,
         OnHungUp, OnFailure, OnOver, DaemonState, GivenUp, Placing
  <2> QED
    BY <2>2 DEF GivenUp, metaStateMap, State
<1> QED
  BY <1>5, <1>6

-----------------------------------------------------------------------------
(* The operators on the object.                                            *)

\* The same state, identifier and flags.
Like(c, d) ==
  d \in CallRecord /\ d.state = c.state /\ d.id = c.id /\ d.hold = c.hold

LEMMA ChangeKeeps ==
  ASSUME NEW c \in CallRecord, NEW s \in State
  PROVE  LET d == changeCurrentState(c, s)
         IN  d \in CallRecord /\ d.state = s /\ d.id = c.id /\ d.hold = c.hold
<1> DEFINE moved == [c EXCEPT !.state = s]
           after == LifeCycleCallback(moved)
           d     == changeCurrentState(c, s)
<1>1. /\ moved \in CallRecord /\ moved.state = s
      /\ moved.id = c.id /\ moved.hold = c.hold
  BY DEF CallRecord
<1>2. ASSUME NEW x \in CallRecord PROVE Like(x, initTimer(x))
  <2>1. initTimer(x) \in CallRecord
    BY <1>2, initTimerType
  <2>2. /\ initTimer(x).state = x.state /\ initTimer(x).id = x.id
        /\ initTimer(x).hold = x.hold
    BY <1>2 DEF initTimer, CallRecord
  <2> QED
    BY <2>1, <2>2 DEF Like
<1>3. \/ d = c /\ c.state = s
      \/ d = initTimer(moved)
      \/ d = initTimer(after)
  BY DEF changeCurrentState
<1> HIDE DEF moved, d
<1>4. Like(moved, after)
  <2>1. \/ after = moved
        \/ after = [moved EXCEPT !.init = @ \cup {Target(moved)}]
        \/ after = [moved EXCEPT !.audio  = OneMore(@),
                                 !.active = @ \cup {Target(moved)},
                                 !.init   = @ \ {Target(moved)}]
        \/ after = [moved EXCEPT !.audio = 0, !.text = 0,
                                 !.init   = @ \ {Target(moved)},
                                 !.active = @ \ {Target(moved)}]
    <3>1. LifeCycle(moved) \in LifeCycleState
      BY <1>1, MetaStateTotal DEF LifeCycle, CallRecord
    <3> QED
      BY <3>1 DEF LifeCycleCallback, notifyInit, initMedia, terminateMedia,
                  LifeCycleState
  <2>2. after \in CallRecord
    BY <1>1, LifeCycleCallbackType
  <2> HIDE DEF after
  <2>3. after.state = moved.state /\ after.id = moved.id /\ after.hold = moved.hold
    <3>1. CASE after = moved
      BY <3>1
    <3>2. CASE after = [moved EXCEPT !.init = @ \cup {Target(moved)}]
      BY <1>1, <3>2 DEF CallRecord
    <3>3. CASE after = [moved EXCEPT !.audio  = OneMore(@),
                                     !.active = @ \cup {Target(moved)},
                                     !.init   = @ \ {Target(moved)}]
      BY <1>1, <3>3 DEF CallRecord
    <3>4. CASE after = [moved EXCEPT !.audio = 0, !.text = 0,
                                     !.init   = @ \ {Target(moved)},
                                     !.active = @ \ {Target(moved)}]
      BY <1>1, <3>4 DEF CallRecord
    <3> QED
      BY <2>1, <3>1, <3>2, <3>3, <3>4
  <2> QED
    BY <2>2, <2>3 DEF Like
<1> HIDE DEF after
<1>5. Like(moved, initTimer(moved)) /\ Like(after, initTimer(after))
  BY <1>1, <1>2, <1>4 DEF Like
<1> QED
  BY <1>1, <1>3, <1>4, <1>5 DEF Like, d

LEMMA ReplaceKeeps ==
  ASSUME NEW c \in CallRecord
  PROVE  Like(c, DropDialNumber(c)) /\ Like(c, ReplaceDialNumber(c))
<1>1. ASSUME NEW x \in CallRecord PROVE Like(x, DropDialNumber(x))
  <2>1. DropDialNumber(x) \in CallRecord
    BY <1>1, DropDialNumberType
  <2>2. /\ DropDialNumber(x).state = x.state /\ DropDialNumber(x).id = x.id
        /\ DropDialNumber(x).hold = x.hold
    BY <1>1 DEF DropDialNumber, CallRecord
  <2> QED
    BY <2>1, <2>2 DEF Like
<1>2. CASE c.dial = "null"
  BY <1>1, <1>2 DEF ReplaceDialNumber, Like
<1>3. CASE c.dial # "null"
  <2> DEFINE p == IF c.peer = "none" THEN WithNumber(c.dial) ELSE c.peer
             x == [c EXCEPT !.peer = p]
  <2>1. p \in Peer \cup {"blank"}
    BY <1>3 DEF CallRecord, WithNumber
  <2>2. ReplaceDialNumber(c) = DropDialNumber(x)
    BY <1>3 DEF ReplaceDialNumber
  <2> HIDE DEF p
  <2>3. Like(c, x)
    BY <2>1 DEF CallRecord, Like
  <2> HIDE DEF x
  <2>4. Like(x, DropDialNumber(x))
    BY <1>1, <2>3 DEF Like
  <2> QED
    BY <1>1, <2>2, <2>3, <2>4 DEF Like
<1> QED
  BY <1>2, <1>3

\* The times, the reasons and the messages that the functions note.
LEMMA NotesKeep ==
  ASSUME NEW c \in CallRecord
  PROVE  /\ Like(c, [c EXCEPT !.start = TRUE]) /\ Like(c, [c EXCEPT !.missed = TRUE])
         /\ Like(c, stop(c)) /\ Like(c, startStop(c)) /\ Like(c, sendProfile(c))
         /\ Like(c, initTimer(c))
<1>1. Like(c, [c EXCEPT !.start = TRUE]) /\ Like(c, [c EXCEPT !.missed = TRUE])
  <2> DEFINE d == [c EXCEPT !.start = TRUE]
             b == [c EXCEPT !.missed = TRUE]
  <2>1. d \in CallRecord /\ b \in CallRecord
    BY DEF CallRecord
  <2>2. d.state = c.state /\ d.id = c.id /\ d.hold = c.hold
    BY DEF CallRecord
  <2>3. b.state = c.state /\ b.id = c.id /\ b.hold = c.hold
    BY DEF CallRecord
  <2> HIDE DEF d, b
  <2>4. Like(c, d) /\ Like(c, b)
    BY <2>1, <2>2, <2>3 DEF Like
  <2> QED
    BY <2>4 DEF d, b
<1>2. Like(c, stop(c))
  <2>1. stop(c) \in CallRecord
    BY ZenonT(40) DEF stop, CallRecord
  <2>2. stop(c).state = c.state /\ stop(c).id = c.id /\ stop(c).hold = c.hold
    BY DEF stop, CallRecord
  <2> QED
    BY <2>1, <2>2 DEF Like
<1>3. Like(c, startStop(c))
  <2>1. startStop(c) \in CallRecord
    BY ZenonT(40) DEF startStop, CallRecord
  <2>2. /\ startStop(c).state = c.state /\ startStop(c).id = c.id
        /\ startStop(c).hold = c.hold
    BY DEF startStop, CallRecord
  <2> QED
    BY <2>1, <2>2 DEF Like
<1>4. Like(c, sendProfile(c))
  <2>1. sendProfile(c) \in CallRecord
    BY sendProfileType
  <2>2. /\ sendProfile(c).state = c.state /\ sendProfile(c).id = c.id
        /\ sendProfile(c).hold = c.hold
    BY DEF sendProfile, CallRecord
  <2> QED
    BY <2>1, <2>2 DEF Like
<1>5. Like(c, initTimer(c))
  <2>1. initTimer(c) \in CallRecord
    BY initTimerType
  <2>2. /\ initTimer(c).state = c.state /\ initTimer(c).id = c.id
        /\ initTimer(c).hold = c.hold
    BY DEF initTimer, CallRecord
  <2> QED
    BY <2>1, <2>2 DEF Like
<1> QED
  BY <1>1, <1>2, <1>3, <1>4, <1>5

LEMMA LikeTransitive ==
  ASSUME NEW a, NEW b, NEW c, Like(a, b), Like(b, c)
  PROVE  Like(a, c)
BY DEF Like

\* What stateChanged() runs leaves the call where the table took it, or gives it up.
LEMMA CallbackKeeps ==
  ASSUME NEW c \in CallRecord, NEW f
  PROVE  LET d == DaemonCallback(f, c)
         IN  /\ f # "error" => Like(c, d)
             /\ f = "error" =>
                  d \in CallRecord /\ d.state = "ERROR" /\ d.id = c.id /\ d.hold = c.hold
<1>1. ASSUME NEW x \in CallRecord PROVE Like(x, start(x))
  <2> DEFINE r == ReplaceDialNumber(x)
             t == [r EXCEPT !.start = TRUE]
             u == initTimer(t)
  <2>1. Like(x, r)
    BY <1>1, ReplaceKeeps
  <2>2. start(x) = sendProfile(u)
    BY DEF start
  <2> HIDE DEF r
  <2>3. Like(r, t)
    BY <2>1, NotesKeep DEF Like
  <2> HIDE DEF t
  <2>4. Like(t, u)
    BY <2>3, NotesKeep DEF Like
  <2> HIDE DEF u
  <2>5. Like(u, sendProfile(u))
    BY <2>4, NotesKeep DEF Like
  <2> QED
    BY <2>1, <2>2, <2>3, <2>4, <2>5 DEF Like
<1>2. Like(c, startWeird(c))
  <2> DEFINE t == [c EXCEPT !.start = TRUE]
  <2>1. Like(c, t) /\ startWeird(c) = sendProfile(t)
    BY NotesKeep DEF startWeird
  <2> HIDE DEF t
  <2>2. Like(t, sendProfile(t))
    BY <2>1, NotesKeep DEF Like
  <2> QED
    BY <2>1, <2>2 DEF Like
<1>3. Like(c, failure(c))
  <2> DEFINE t == [c EXCEPT !.missed = TRUE]
  <2>1. Like(c, t) /\ failure(c) = start(t)
    BY NotesKeep DEF failure
  <2> HIDE DEF t
  <2>2. Like(t, start(t))
    BY <1>1, <2>1 DEF Like
  <2> QED
    BY <2>1, <2>2 DEF Like
<1>4. Like(c, c) /\ Like(c, warning(c)) /\ Like(c, stop(c)) /\ Like(c, startStop(c))
  BY NotesKeep DEF warning, Like
<1>5. "ERROR" \in State
  BY DEF State
<1>6. f = "error" => DaemonCallback(f, c) = changeCurrentState(c, "ERROR")
  BY DEF DaemonCallback
<1>7. f # "error" =>
        DaemonCallback(f, c) \in {start(c), startWeird(c), failure(c), stop(c),
                                 startStop(c), warning(c), c}
  BY DEF DaemonCallback
<1> QED
  BY <1>1, <1>2, <1>3, <1>4, <1>5, <1>6, <1>7, ChangeKeeps

\* An event takes the call where the table says, or the call is given up, and the
\* flag follows the state.
LEMMA DeliverMoves ==
  ASSUME TypeOK, Deliver
  PROVE  LET d  == Reported(Head(ring.queue))
             to == stateChangedStateMap[call.state][d]
             f  == stateChangedFunctionMap[call.state][d]
         IN  /\ call'.id = call.id
             /\ call'.state = IF f = "error" THEN "ERROR" ELSE to
             /\ call'.state \in {"CURRENT", "HOLD"} =>
                  ("OUT" \in call'.hold <=> call'.state = "HOLD")
<1> DEFINE e     == Head(ring.queue)
           code  == IF e.code = "none" THEN call.code ELSE e.code
           coded == [call EXCEPT !.code = code]
           d     == Reported(e)
           to    == stateChangedStateMap[call.state][d]
           moved == changeCurrentState(coded, to)
           shown == SyncHoldFlag(moved)
           f     == stateChangedFunctionMap[call.state][d]
           done  == DaemonCallback(f, shown)
           changed == stateChanged(coded, d)
<1>1. call \in CallRecord /\ e \in Event
  BY DEF TypeOK, RingRecord, Deliver
<1>2. call' = [changed EXCEPT !.logged = @ \/ Finished(changed)]
  BY DEF Deliver
<1> HIDE DEF e
<1>3. d \in DaemonState /\ code \in Code
  BY <1>1 DEF Event, Reported, toDaemonCallState, DaemonState, StateEvent, CallRecord
<1> HIDE DEF d, code
<1>4. /\ coded \in CallRecord /\ coded.state = call.state /\ coded.id = call.id
      /\ to \in State
  BY <1>1, <1>3, EventTotal DEF CallRecord
<1>5. changed = IF f = "error" \/ LifeCycle(done) = "CREATION" THEN done
                ELSE ReplaceDialNumber(done)
  BY <1>4 DEF stateChanged
<1> HIDE DEF coded, to, f
<1>6. moved \in CallRecord /\ moved.state = to /\ moved.id = call.id
  BY <1>4, ChangeKeeps
<1> HIDE DEF moved
<1>7. /\ shown \in CallRecord /\ shown.state = to /\ shown.id = call.id
      /\ "OUT" \in shown.hold <=> to = "HOLD"
  <2>1. moved.hold \in SUBSET {"IN", "OUT"}
    BY <1>6 DEF CallRecord
  <2>2. shown \in CallRecord /\ shown.state = to /\ shown.id = call.id
    BY <1>6, <2>1 DEF SyncHoldFlag, CallRecord
  <2>3. shown.hold = IF to = "HOLD" THEN moved.hold \cup {"OUT"}
                                    ELSE moved.hold \ {"OUT"}
    BY <1>6 DEF SyncHoldFlag, CallRecord
  <2> QED
    BY <2>2, <2>3
<1> HIDE DEF shown
<1>8. /\ done \in CallRecord /\ done.id = call.id /\ done.hold = shown.hold
      /\ done.state = IF f = "error" THEN "ERROR" ELSE to
  BY <1>7, CallbackKeeps DEF Like
<1> HIDE DEF done
<1>9. Like(done, changed)
  BY <1>5, <1>8, ReplaceKeeps DEF Like
<1> HIDE DEF changed
<1>10. /\ call'.state = changed.state /\ call'.id = changed.id
       /\ call'.hold = changed.hold
  BY <1>2, <1>9 DEF Like, CallRecord
<1>11. /\ call'.id = call.id
       /\ call'.state = IF f = "error" THEN "ERROR" ELSE to
       /\ call'.state \in {"CURRENT", "HOLD"} =>
            ("OUT" \in call'.hold <=> call'.state = "HOLD")
  BY <1>7, <1>8, <1>9, <1>10 DEF Like
<1> QED
  BY <1>11 DEF f, to, d, e

-----------------------------------------------------------------------------
(* The events in flight.                                                   *)

\* A move that is announced extends the way.
LEMMA PostSeen ==
  ASSUME NEW d \in RingRecord, NEW i \in DaemonId, NEW g, Seen(d, i, g),
         NEW to \in DaemonCall, NEW s \in StateEvent, NEW code \in Code,
         Said(d.calls[i], s, code, to)
  PROVE  LET n == Post([d EXCEPT !.calls[i] = to], i, s, code)
         IN  Seen(n, i, g) /\ n.queue # <<>> /\ n.calls = [d.calls EXCEPT ![i] = to]
<1> DEFINE e == [id |-> i, state |-> s, code |-> code]
           moved == [d EXCEPT !.calls[i] = to]
           n == Post(moved, i, s, code)
           last == Len(d.queue) + 1
<1>1. d.calls \in [DaemonId -> DaemonCall] /\ d.queue \in Seq(Event)
  BY DEF RingRecord
<1>2. /\ moved \in RingRecord /\ moved.queue = d.queue
      /\ moved.calls = [d.calls EXCEPT ![i] = to]
  BY <1>1 DEF RingRecord
<1> HIDE DEF moved
<1>3. n.queue = Append(d.queue, e) /\ n.calls = [d.calls EXCEPT ![i] = to]
  BY <1>2 DEF Post, RingRecord
<1>4. e \in Event /\ e.state = s /\ e.code = code
  BY DEF Event
<1> HIDE DEF n, e
<1>5. /\ Len(n.queue) = last /\ Len(d.queue) \in Nat
      /\ \A k \in 1..Len(d.queue) : n.queue[k] = d.queue[k]
      /\ n.queue[last] = e /\ n.queue # <<>>
  BY <1>1, <1>3, <1>4
<1>6. PICK p \in [0..Len(d.queue) -> DaemonCall] :
        /\ p[0] = g /\ p[Len(d.queue)] = d.calls[i]
        /\ \A k \in 1..Len(d.queue) :
             Said(p[k - 1], d.queue[k].state, d.queue[k].code, p[k])
  BY DEF Seen, Path
<1> DEFINE r == [k \in 0..last |-> IF k = last THEN to ELSE p[k]]
<1>7. /\ r \in [0..last -> DaemonCall] /\ r[0] = g /\ r[last] = to
      /\ \A k \in 0..Len(d.queue) : r[k] = p[k]
  BY <1>5, <1>6
<1> HIDE DEF r
<1>8. n.calls[i] = to
  BY <1>1, <1>3
<1>9. ASSUME NEW k \in 1..last
      PROVE  Said(r[k - 1], n.queue[k].state, n.queue[k].code, r[k])
  <2>1. CASE k = last
    <3>1. r[k - 1] = d.calls[i] /\ r[k] = to /\ n.queue[k] = e
      BY <1>5, <1>6, <1>7, <2>1
    <3> QED
      BY <1>4, <3>1
  <2>2. CASE k # last
    <3>1. k \in 1..Len(d.queue) /\ k - 1 \in 0..Len(d.queue) /\ k \in 0..Len(d.queue)
      BY <1>5, <1>9, <2>2
    <3> QED
      BY <1>5, <1>6, <1>7, <3>1
  <2> QED
    BY <2>1, <2>2
<1>10. Path(n, i, r)
  BY <1>5, <1>7, <1>8, <1>9 DEF Path
<1>11. Seen(n, i, g)
  BY <1>5, <1>7, <1>10 DEF Seen
<1> QED
  BY <1>3, <1>5, <1>11 DEF n, moved

\* An event that is delivered is the first part of the way.
LEMMA TailSeen ==
  ASSUME NEW d \in RingRecord, d.queue # <<>>, NEW i \in DaemonId,
         NEW g \in DaemonCall, Seen(d, i, g),
         NEW n, n.queue = Tail(d.queue), n.calls = d.calls
  PROVE  \E to \in DaemonCall :
           Said(g, Head(d.queue).state, Head(d.queue).code, to) /\ Seen(n, i, to)
<1> DEFINE q == d.queue
           last == Len(q) - 1
<1>1. /\ q \in Seq(Event) /\ Len(q) \in Nat \ {0} /\ Head(q) = q[1]
      /\ Len(Tail(q)) = last
      /\ \A k \in 1..last : Tail(q)[k] = q[k + 1]
  BY DEF RingRecord
<1>2. PICK p \in [0..Len(q) -> DaemonCall] :
        /\ p[0] = g /\ p[Len(q)] = d.calls[i]
        /\ \A k \in 1..Len(q) : Said(p[k - 1], q[k].state, q[k].code, p[k])
  BY DEF Seen, Path
<1> DEFINE r == [k \in 0..last |-> p[k + 1]]
<1>3. /\ r \in [0..last -> DaemonCall] /\ r[0] = p[1] /\ r[last] = d.calls[i]
      /\ \A k \in 0..last : r[k] = p[k + 1]
  BY <1>1, <1>2
<1> HIDE DEF r
<1>4. ASSUME NEW k \in 1..last
      PROVE  Said(r[k - 1], n.queue[k].state, n.queue[k].code, r[k])
  <2>1. r[k - 1] = p[k] /\ r[k] = p[k + 1] /\ n.queue[k] = q[k + 1]
    BY <1>1, <1>3, <1>4
  <2>2. k + 1 \in 1..Len(q) /\ (k + 1) - 1 = k
    BY <1>1, <1>4
  <2>3. Said(p[(k + 1) - 1], q[k + 1].state, q[k + 1].code, p[k + 1])
    BY <1>2, <2>2
  <2> QED
    BY <2>1, <2>2, <2>3
<1>5. Path(n, i, r)
  BY <1>1, <1>3, <1>4 DEF Path
<1>6. Seen(n, i, p[1]) /\ p[1] \in DaemonCall
  <2>1. last = Len(n.queue) /\ 1 \in 0..Len(q)
    BY <1>1
  <2>2. p[1] \in DaemonCall
    BY <1>2, <2>1
  <2>3. r \in [0..Len(n.queue) -> DaemonCall] /\ r[0] = p[1]
    BY <1>3, <2>1
  <2> QED
    BY <1>5, <2>2, <2>3 DEF Seen
<1>7. Said(g, Head(q).state, Head(q).code, p[1])
  <2>1. 1 \in 1..Len(q) /\ 1 - 1 = 0
    BY <1>1
  <2>2. Said(p[1 - 1], q[1].state, q[1].code, p[1])
    BY <1>2, <2>1
  <2> QED
    BY <1>1, <1>2, <2>1, <2>2
<1> QED
  BY <1>6, <1>7

\* A request that the daemon follows it also announces, and one that it does not
\* follow changes nothing.
Tells(d, n, i) ==
  /\ n \in RingRecord
  /\ \A g \in DaemonCall : Seen(d, i, g) => Seen(n, i, g)
  /\ n.calls[i] = "free" => d.calls[i] = "free"
  /\ n.queue = <<>> => n = d

LEMMA TellsTwice ==
  ASSUME NEW d, NEW m, NEW n, NEW i, Tells(d, m, i), Tells(m, n, i)
  PROVE  Tells(d, n, i)
BY DEF Tells

LEMMA RequestTells ==
  ASSUME NEW d \in RingRecord, NEW i \in DaemonId
  PROVE  /\ Tells(d, d, i)
         /\ Tells(d, Accepted(d, i), i) /\ Tells(d, Refused(d, i), i)
         /\ Tells(d, HungUp(d, i), i) /\ Tells(d, Held(d, i), i)
         /\ Tells(d, Unheld(d, i), i)
         /\ \A r \in AfterTransfer(d, i) : Tells(d, r, i)
         /\ Tells(d, Held(Accepted(d, i), i), i)
         /\ \A r \in AfterTransfer(Accepted(d, i), i) : Tells(d, r, i)
<1>1. ASSUME NEW x \in RingRecord PROVE Tells(x, x, i)
  BY <1>1 DEF Tells
<1>2. ASSUME NEW x \in RingRecord, NEW from, NEW to \in DaemonCall \ {"free"},
             NEW s \in StateEvent, \A g \in from : Said(g, s, "none", to)
      PROVE  Tells(x, Request(x, i, from, to, s), i)
  <2> DEFINE n == Request(x, i, from, to, s)
  <2>1. CASE x.calls[i] \in from
    <3>1. "none" \in Code /\ Said(x.calls[i], s, "none", to)
      BY <1>2, <2>1 DEF Code
    <3>2. n = Post([x EXCEPT !.calls[i] = to], i, s, "none")
      BY <2>1 DEF Request
    <3>3. [x EXCEPT !.calls[i] = to] \in RingRecord
      BY DEF RingRecord
    <3>4. n \in RingRecord
      BY <3>1, <3>2, <3>3, PostType
    <3> HIDE DEF n
    <3>5. \A g \in DaemonCall : Seen(x, i, g) => Seen(n, i, g)
      BY <3>1, <3>2, PostSeen
    <3>6. n.queue # <<>> /\ n.calls[i] # "free"
      <4>1. x.calls \in [DaemonId -> DaemonCall] /\ x.queue \in Seq(Event)
        BY DEF RingRecord
      <4>2. [id |-> i, state |-> s, code |-> "none"] \in Event
        BY <3>1 DEF Event
      <4>3. n.queue = Append(x.queue, [id |-> i, state |-> s, code |-> "none"])
        BY <3>2 DEF Post, RingRecord
      <4>4. n.calls = [x.calls EXCEPT ![i] = to]
        BY <3>2 DEF Post, RingRecord
      <4> QED
        BY <4>1, <4>2, <4>3, <4>4
    <3> QED
      BY <3>4, <3>5, <3>6 DEF Tells, n
  <2>2. CASE x.calls[i] \notin from
    BY <1>1, <2>2 DEF Request
  <2> QED
    BY <2>1, <2>2
<1>3. /\ {"current", "held", "ended"} \subseteq DaemonCall \ {"free"}
      /\ {"CURRENT", "HOLD", "UNHOLD", "HUNGUP"} \subseteq StateEvent
  BY DEF DaemonCall, Alive, Unanswered, Established, StateEvent
<1>4. /\ \A g \in {"incoming"} : Said(g, "CURRENT", "none", "current")
      /\ \A g \in {"incoming"} : Said(g, "HUNGUP", "none", "ended")
      /\ \A g \in Alive : Said(g, "HUNGUP", "none", "ended")
      /\ \A g \in {"current"} : Said(g, "HOLD", "none", "held")
      /\ \A g \in {"held"} : Said(g, "UNHOLD", "none", "current")
      /\ \A g \in Established : Said(g, "HUNGUP", "none", "ended")
  BY DEF Said, Alive, Unanswered, Established
<1>5. ASSUME NEW x \in RingRecord
      PROVE  /\ Tells(x, Accepted(x, i), i) /\ Tells(x, Refused(x, i), i)
             /\ Tells(x, HungUp(x, i), i) /\ Tells(x, Held(x, i), i)
             /\ Tells(x, Unheld(x, i), i) /\ Tells(x, Transferred(x, i), i)
  BY <1>2, <1>3, <1>4
     DEF Accepted, Refused, HungUp, Held, Unheld, Transferred
<1>6. ASSUME NEW x \in RingRecord, NEW r \in AfterTransfer(x, i)
      PROVE  Tells(x, r, i)
  BY <1>1, <1>5, <1>6 DEF AfterTransfer
<1> DEFINE m == Accepted(d, i)
<1>7. Tells(d, m, i) /\ m \in RingRecord
  BY <1>5 DEF Tells
<1> HIDE DEF m
<1>8. Tells(d, Held(m, i), i) /\ \A r \in AfterTransfer(m, i) : Tells(d, r, i)
  BY <1>5, <1>6, <1>7, TellsTwice
<1> QED
  BY <1>1, <1>5, <1>6, <1>8 DEF m

\* Nothing is asked of the daemon for a call that it does not know.
LEMMA RequestIsVain ==
  ASSUME NEW d, NEW i, i \notin DaemonId
  PROVE  /\ Accepted(d, i) = d /\ Refused(d, i) = d /\ HungUp(d, i) = d
         /\ Held(d, i) = d /\ Unheld(d, i) = d /\ AfterTransfer(d, i) = {d}
BY DEF Accepted, Refused, HungUp, Held, Unheld, AfterTransfer, Transferred, Request

\* What the user asks of the daemon, but for placing the call.
LEMMA UserRequests ==
  ASSUME User, \A a \in Action : ~PlaceCall(a)
  PROVE  LET i == call.id
         IN  \/ ring' \in {ring, Accepted(ring, i), Refused(ring, i), HungUp(ring, i),
                          Held(ring, i), Unheld(ring, i), Held(Accepted(ring, i), i)}
             \/ ring' \in AfterTransfer(ring, i)
             \/ ring' \in AfterTransfer(Accepted(ring, i), i)
<1> DEFINE i == call.id
           Asked == \/ ring' \in {ring, Accepted(ring, i), Refused(ring, i),
                                  HungUp(ring, i), Held(ring, i), Unheld(ring, i),
                                  Held(Accepted(ring, i), i)}
                    \/ ring' \in AfterTransfer(ring, i)
                    \/ ring' \in AfterTransfer(Accepted(ring, i), i)
<1>1. ASSUME NEW a \in Action, Perform(a) PROVE Asked
  <2>1. CASE \/ PerformNothing(a) \/ ToggleRecord(a) \/ CallNobody(a)
             \/ CallWithoutAccount(a) \/ PlaceCallFails(a)
    BY <2>1 DEF PerformNothing, ToggleRecord, CallNobody, CallWithoutAccount,
         PlaceCallFails
  <2>2. CASE \/ Accept(a) \/ Refuse(a) \/ HangUp(a) \/ Remove(a) \/ Cancel(a)
             \/ Hold(a) \/ Unhold(a)
    BY <2>2 DEF Accept, Refuse, HangUp, Remove, Cancel, Hold, Unhold
  <2>3. CASE AcceptTransfer(a) \/ AcceptHold(a) \/ Transfer(a)
    BY <2>3 DEF AcceptTransfer, AcceptHold, Transfer
  <2> QED
    BY <1>1, <2>1, <2>2, <2>3 DEF Perform
<1>2. AttendedTransfer \/ UnattendedTransfer => Asked
  BY DEF AttendedTransfer, UnattendedTransfer
<1>3. ASSUME \/ \E n \in Number : SetDialNumber(n) \/ Backspace(n)
             \/ \E p \in Peer : SetPeerContactMethod(p) \/ AppendText(p)
             \/ \E known \in BOOLEAN : SetAccount(known)
             \/ \E n \in {"empty", "set"} : SetTransferNumber(n)
             \/ BackspaceNothing \/ BackspaceCrashes \/ Reset
      PROVE  Asked
  BY <1>3 DEF SetDialNumber, Backspace, SetPeerContactMethod, AppendText,
       SetAccount, SetTransferNumber, BackspaceNothing, BackspaceCrashes, Reset
<1> QED
  BY <1>1, <1>2, <1>3 DEF User

LEMMA UserTells ==
  ASSUME TypeOK, User, \A a \in Action : ~PlaceCall(a)
  PROVE  /\ call.id \in DaemonId => Tells(ring, ring', call.id)
         /\ call.id \notin DaemonId => ring' = ring
<1>1. ring \in RingRecord /\ Accepted(ring, call.id) \in RingRecord
  BY RequestsType DEF TypeOK
<1>2. CASE call.id \in DaemonId
  BY <1>1, <1>2, UserRequests, RequestTells
<1>3. CASE call.id \notin DaemonId
  BY <1>3, UserRequests, RequestIsVain
<1> QED
  BY <1>2, <1>3

-----------------------------------------------------------------------------
(* What the user makes of the object.                                      *)

\* An action takes the call where the table says; or, when the daemon does not know
\* the call, to its end; or the call is not placed.
Performed(a) ==
  LET s == call.state
      f == actionPerformedFunctionMap[s][a]
  IN  /\ a \in Offered[s]
      /\ \/ /\ call'.id = call.id /\ call'.state = actionPerformedStateMap[s][a]
            /\ \/ call'.hold = call.hold
               \/ f = "hold" /\ ring' = Held(ring, call.id)
               \/ f = "unhold" /\ ring' = Unheld(ring, call.id)
         \/ /\ call'.id = call.id /\ call'.state \in {"OVER", "ERROR"}
            /\ ~Known(ring, call.id) \/ Finished(call)
         \/ /\ LifeCycle(call) = "CREATION" /\ call'.id \in {call.id, "failed"}
            /\ call'.state \in {"ABORTED", "ERROR", "FAILURE"}
      /\ f = "cancel" => ring' = HungUp(ring, call.id)

\* A call is placed, or not, from DIALING.
LEMMA CallIsDialed ==
  ASSUME AcceptedOnce, call.state \in State, NEW a \in Action, Performs(a, {"call"})
  PROVE  call.state = "DIALING" /\ LifeCycle(call) = "CREATION"
<1>1. call.state = "DIALING"
  BY DEF Performs, AcceptedOnce, actionPerformedFunctionMap, OnAccept, OnRefuse,
         OnTransfer, OnHold
<1> QED
  BY <1>1 DEF LifeCycle, metaStateMap, State

LEMMA PerformShows ==
  ASSUME TypeOK, TypeOK', AcceptedOnce, NEW a \in Action, Perform(a), ~PlaceCall(a)
  PROVE  Performed(a)
<1> DEFINE to == actionPerformedStateMap[call.state][a]
           f  == actionPerformedFunctionMap[call.state][a]
           e  == Entered(a)
<1>1. call \in CallRecord /\ call' \in CallRecord /\ call.state \in State
  BY DEF TypeOK, CallRecord
<1>2. /\ e \in CallRecord /\ e.state = to /\ e.id = call.id /\ e.hold = call.hold
  BY <1>1, ActionTotal, ChangeKeeps DEF Entered
<1>3. a \in Offered[call.state]
  BY DEF Perform, PerformNothing, Accept, Refuse, AcceptTransfer, AcceptHold, HangUp,
         Remove, Cancel, Hold, Unhold, Transfer, ToggleRecord, CallNobody,
         CallWithoutAccount, PlaceCallFails, Performs
<1>4. {"OVER", "ERROR", "ABORTED", "FAILURE"} \subseteq State
  BY DEF State
<1>5. ASSUME NEW c, Like(e, c), call' = c, f # "cancel" PROVE Performed(a)
  BY <1>2, <1>3, <1>5 DEF Performed, Like
<1>6. ASSUME NEW c, Like(e, c), NEW s \in {"OVER", "ERROR"},
             call' = changeCurrentState(c, s), ~Known(ring, call.id) \/ Finished(call),
             f = "cancel" => ring' = HungUp(ring, call.id)
      PROVE  Performed(a)
  <2>1. c \in CallRecord /\ c.id = call.id /\ s \in State
    BY <1>2, <1>4, <1>6 DEF Like
  <2>2. call'.state = s /\ call'.id = call.id
    BY <1>6, <2>1, ChangeKeeps
  <2> QED
    BY <1>3, <1>6, <2>2 DEF Performed
<1>7. Like(e, e) /\ Like(e, stop(e))
  BY <1>2, NotesKeep DEF Like
<1> HIDE DEF to, e
<1>8. CASE PerformNothing(a) \/ AcceptTransfer(a) \/ ToggleRecord(a) \/ Transfer(a)
  <2>1. f # "cancel"
    BY <1>8 DEF PerformNothing, AcceptTransfer, ToggleRecord, Transfer, Performs
  <2>2. \/ call' = e \/ call' = stop(e) \/ \E r : call' = [e EXCEPT !.recording = r]
    BY <1>8 DEF PerformNothing, AcceptTransfer, ToggleRecord, Transfer, e
  <2>3. Like(e, call')
    BY <1>1, <1>2, <1>7, <2>2 DEF Like, CallRecord
  <2> QED
    BY <1>5, <2>1, <2>3
<1>9. CASE Accept(a) \/ AcceptHold(a)
  <2>1. f # "cancel"
    BY <1>9 DEF Accept, AcceptHold, Performs
  <2>2. \/ call' = [e EXCEPT !.start = TRUE, !.outgoing = FALSE]
        \/ call' = [e EXCEPT !.outgoing = FALSE]
    BY <1>9 DEF Accept, AcceptHold, e
  <2>3. call'.state = e.state /\ call'.id = e.id /\ call'.hold = e.hold
    BY <1>2, <2>2 DEF CallRecord
  <2> QED
    BY <1>1, <1>5, <2>1, <2>3 DEF Like
<1>10. CASE Refuse(a)
  <2> DEFINE c == [e EXCEPT !.start = TRUE, !.missed = TRUE, !.reason = "REFUSED"]
  <2>1. f # "cancel"
    BY <1>10 DEF Refuse, Performs
  <2>2. call' = IF Known(ring, call.id) THEN c ELSE changeCurrentState(c, "ERROR")
    BY <1>10 DEF Refuse, e
  <2>3. c.state = e.state /\ c.id = e.id /\ c.hold = e.hold
    BY <1>2 DEF CallRecord
  <2>4. c \in CallRecord
    <3>1. e \in CallRecord
      BY <1>2
    <3> QED
      BY <3>1, ZenonT(40) DEF CallRecord
  <2> HIDE DEF c
  <2>5. Like(e, c)
    BY <2>3, <2>4 DEF Like
  <2> QED
    BY <1>5, <1>6, <2>1, <2>2, <2>5
<1>11. CASE HangUp(a)
  <2> DEFINE c == IF Known(ring, call.id) THEN stop(e)
                  ELSE changeCurrentState(stop(e), "OVER")
             t == IF c.timer = "none" THEN c.timer ELSE "stopped"
  <2>1. f # "cancel"
    BY <1>11 DEF HangUp, Performs
  <2>2. call' = [c EXCEPT !.timer = t]
    BY <1>11 DEF HangUp, e
  <2>3. /\ c \in CallRecord /\ c.id = e.id /\ c.hold = e.hold
        /\ c.state = IF Known(ring, call.id) THEN e.state ELSE "OVER"
    BY <1>4, <1>7, ChangeKeeps DEF Like
  <2> HIDE DEF c, t
  <2>4. call'.id = c.id /\ call'.hold = c.hold /\ call'.state = c.state
    BY <2>2, <2>3 DEF CallRecord
  <2> QED
    BY <1>2, <1>3, <2>1, <2>3, <2>4 DEF Performed, to
<1>12. CASE Remove(a)
  <2>1. f = "remove"
    BY <1>12 DEF Remove, Performs
  <2>2. call.state \in {"FAILURE", "ERROR"}
    BY <1>1, <2>1 DEF actionPerformedFunctionMap, OnAccept, OnRefuse, OnTransfer, OnHold
  <2>3. Finished(call)
    BY <2>2 DEF Finished, LifeCycle, metaStateMap, State
  <2>4. call' = e \/ call' = changeCurrentState(e, "ERROR")
    BY <1>12 DEF Remove, e
  <2> QED
    BY <1>5, <1>6, <1>7, <2>1, <2>3, <2>4
<1>13. CASE Cancel(a)
  <2>1. /\ call' = IF Known(ring, call.id) THEN e ELSE changeCurrentState(e, "OVER")
        /\ ring' = HungUp(ring, call.id)
    BY <1>13 DEF Cancel, e
  <2>2. CASE Known(ring, call.id)
    BY <1>2, <1>3, <2>1, <2>2 DEF Performed, to
  <2> QED
    BY <1>6, <1>7, <2>1, <2>2
<1>14. CASE Hold(a) \/ Unhold(a)
  <2>1. \/ /\ call' = [e EXCEPT !.hold = @ \cup {"OUT"}]
           /\ f = "hold" /\ ring' = Held(ring, call.id)
        \/ /\ call' = [e EXCEPT !.hold = @ \ {"OUT"}]
           /\ f = "unhold" /\ ring' = Unheld(ring, call.id)
    BY <1>14 DEF Hold, Unhold, Performs, e
  <2>2. call'.id = e.id /\ call'.state = e.state
    BY <1>2, <2>1 DEF CallRecord
  <2> HIDE DEF f
  <2>3. f # "cancel"
    BY <2>1
  <2> QED
    BY <1>2, <1>3, <2>1, <2>2, <2>3 DEF Performed, to, f
<1>15. CASE CallNobody(a) \/ CallWithoutAccount(a)
  <2>1. f # "cancel" /\ LifeCycle(call) = "CREATION"
    BY <1>1, <1>15, CallIsDialed DEF CallNobody, CallWithoutAccount, Performs
  <2>2. \/ call' = changeCurrentState(e, "ERROR")
        \/ call' = DropDialNumber(changeCurrentState(e, "ABORTED"))
    BY <1>15 DEF CallNobody, CallWithoutAccount, e
  <2>3. \A s \in {"ERROR", "ABORTED"} :
          /\ changeCurrentState(e, s) \in CallRecord
          /\ changeCurrentState(e, s).state = s /\ changeCurrentState(e, s).id = e.id
    BY <1>2, <1>4, ChangeKeeps
  <2>4. call'.state \in {"ERROR", "ABORTED"} /\ call'.id = e.id
    BY <2>2, <2>3, ReplaceKeeps DEF Like
  <2> QED
    BY <1>2, <1>3, <2>1, <2>4 DEF Performed
<1>16. CASE PlaceCallFails(a)
  <2> DEFINE c == changeCurrentState(Placed(a), "FAILURE")
  <2>1. f # "cancel" /\ LifeCycle(call) = "CREATION"
    BY <1>1, <1>16, CallIsDialed DEF PlaceCallFails, Performs
  <2>2. call' = [c EXCEPT !.id = "failed"]
    BY <1>16 DEF PlaceCallFails
  <2>3. Placed(a) \in CallRecord
    BY <1>1, PlacedType
  <2>4. c \in CallRecord /\ c.state = "FAILURE"
    BY <1>4, <2>3, ChangeKeeps
  <2> HIDE DEF c
  <2>5. call'.state = "FAILURE" /\ call'.id = "failed"
    BY <2>2, <2>4 DEF CallRecord
  <2> QED
    BY <1>3, <2>1, <2>5 DEF Performed
<1> QED
  BY <1>8, <1>9, <1>10, <1>11, <1>12, <1>13, <1>14, <1>15, <1>16 DEF Perform

\* Editing leaves the call in CREATION, or as it was; the keyboard may abort it.
LEMMA EditShows ==
  ASSUME TypeOK,
         \/ \E n \in Number : SetDialNumber(n) \/ Backspace(n)
         \/ \E p \in Peer : SetPeerContactMethod(p) \/ AppendText(p)
         \/ \E known \in BOOLEAN : SetAccount(known)
         \/ \E n \in {"empty", "set"} : SetTransferNumber(n)
         \/ BackspaceNothing \/ BackspaceCrashes \/ Reset
  PROVE  /\ call'.id = call.id /\ call'.hold = call.hold
         /\ \/ call'.state = call.state
            \/ LifeCycle(call) = "CREATION" /\ call'.state \in {"NEW", "DIALING"}
            \/ call'.state = "ABORTED" /\ "edit" \in Feature
<1> DEFINE Fine(c) ==
             /\ c \in CallRecord /\ c.id = call.id /\ c.hold = call.hold
             /\ \/ c.state = call.state
                \/ LifeCycle(call) = "CREATION" /\ c.state \in {"NEW", "DIALING"}
<1>1. call \in CallRecord /\ Fine(call)
  BY DEF TypeOK
<1>2. /\ {"NEW", "DIALING", "ABORTED"} \subseteq State
      /\ "empty" \in Number /\ Peer \subseteq Number /\ call.dial \in Number \cup {"null"}
  BY <1>1 DEF State, Number, CallRecord
<1>3. ASSUME NEW c, Fine(c), NEW n \in Number \cup {"null"}
      PROVE  Fine([c EXCEPT !.dial = n])
  <2> DEFINE d == [c EXCEPT !.dial = n]
  <2>1. d \in CallRecord /\ d.id = c.id /\ d.hold = c.hold /\ d.state = c.state
    BY <1>3 DEF CallRecord
  <2> HIDE DEF d
  <2>2. Fine(d)
    BY <1>3, <2>1
  <2> QED
    BY <2>2 DEF d
<1>4. ASSUME NEW c, Fine(c), LifeCycle(call) = "CREATION", NEW s \in {"NEW", "DIALING"}
      PROVE  Fine(changeCurrentState(c, s))
  BY <1>2, <1>4, ChangeKeeps
<1>5. ASSUME NEW t, \/ call' = [call EXCEPT !.transferTo = t]
                    \/ call' = [call EXCEPT !.account = t]
                    \/ call' = [call EXCEPT !.crashed = t]
      PROVE  call'.id = call.id /\ call'.hold = call.hold /\ call'.state = call.state
  BY <1>1, <1>5 DEF CallRecord
<1>6. Crash => call'.id = call.id /\ call'.hold = call.hold /\ call'.state = call.state
  BY <1>5 DEF Crash
<1>7. ASSUME NEW p \in Peer PROVE Fine([call EXCEPT !.peer = p])
  <2> DEFINE d == [call EXCEPT !.peer = p]
  <2>1. /\ d \in CallRecord /\ d.id = call.id /\ d.hold = call.hold
        /\ d.state = call.state
    BY <1>1 DEF CallRecord
  <2> HIDE DEF d
  <2>2. Fine(d)
    BY <2>1
  <2> QED
    BY <2>2 DEF d
<1> HIDE DEF Fine
<1>8. ASSUME NEW c, Fine(c), LifeCycle(call) = "CREATION", NEW n \in Number
      PROVE  Fine(WithDialNumber(c, n))
  BY <1>3, <1>4, <1>8 DEF WithDialNumber
<1>9. CASE Fine(call')
  BY <1>9 DEF Fine
<1>10. CASE /\ call'.id = call.id /\ call'.hold = call.hold
            /\ call'.state = call.state
  BY <1>10
<1>11. ASSUME NEW n \in Number, SetDialNumber(n) PROVE Fine(call') \/ Crash
  BY <1>1, <1>8, <1>11 DEF SetDialNumber
<1>12. ASSUME NEW p \in Peer, SetPeerContactMethod(p) PROVE Fine(call') \/ Crash
  BY <1>2, <1>7, <1>8, <1>12 DEF SetPeerContactMethod
<1>13. ASSUME NEW p \in Peer, AppendText(p)
       PROVE  Fine(call') \/ \E t : call' = [call EXCEPT !.transferTo = t]
  <2> DEFINE n == IF call.dial = "null" THEN call.dial ELSE p
             c == [call EXCEPT !.dial = n]
  <2>1. CASE LifeCycle(call) = "CREATION" /\ call' = changeCurrentState(c, "DIALING")
    <3>1. n \in Number \cup {"null"}
      BY <1>2
    <3> HIDE DEF n
    <3>2. Fine(c)
      BY <1>1, <1>3, <3>1
    <3> HIDE DEF c
    <3> QED
      BY <1>4, <2>1, <3>2
  <2> QED
    BY <1>13, <2>1 DEF AppendText, EditsDial
<1>14. ASSUME NEW n \in Number, Backspace(n)
       PROVE  Fine(call') \/ \E t : call' = [call EXCEPT !.transferTo = t]
  <2>1. CASE /\ LifeCycle(call) = "CREATION"
             /\ call' = [changeCurrentState(call, "DIALING") EXCEPT !.dial = n]
    BY <1>1, <1>3, <1>4, <2>1
  <2> QED
    BY <1>14, <2>1 DEF Backspace, EditsDial
<1>15. ASSUME Reset
       PROVE  Fine(call') \/ \E t : call' = [call EXCEPT !.transferTo = t]
  <2> DEFINE c == changeCurrentState(call, "NEW")
             n == IF c.dial = "null" THEN c.dial ELSE "empty"
  <2>1. CASE LifeCycle(call) = "CREATION" /\ call' = [c EXCEPT !.dial = n]
    <3>1. Fine(c)
      BY <1>1, <1>4, <2>1
    <3>2. n \in Number \cup {"null"}
      BY <1>2, <3>1 DEF Fine, CallRecord
    <3> HIDE DEF c, n
    <3> QED
      BY <1>3, <2>1, <3>1, <3>2
  <2> QED
    BY <1>15, <2>1 DEF Reset, EditsDial
<1>16. CASE BackspaceNothing
  <2>1. call' = changeCurrentState(call, "ABORTED") /\ "edit" \in Feature
    BY <1>16 DEF BackspaceNothing, EditsTransfer, EditsDial, Edits
  <2> QED
    BY <1>1, <1>2, <2>1, ChangeKeeps
<1>17. CASE \/ \E known \in BOOLEAN : SetAccount(known)
            \/ \E n \in {"empty", "set"} : SetTransferNumber(n)
  BY <1>5, <1>17 DEF SetAccount, SetTransferNumber
<1> QED
  BY <1>5, <1>6, <1>9, <1>11, <1>12, <1>13, <1>14, <1>15, <1>16, <1>17
     DEF BackspaceCrashes

\* A transfer ends the call, whatever the daemon makes of it.
LEMMA TransferShows ==
  ASSUME TypeOK, AttendedTransfer \/ UnattendedTransfer
  PROVE  /\ call'.id = call.id /\ call'.state = "OVER"
         /\ Feature \cap {"attended", "transfer"} # {}
<1>1. call \in CallRecord /\ {"OVER", "TRANSFERRED"} \subseteq State
  BY DEF TypeOK, State
<1>2. CASE AttendedTransfer
  <2>1. call' = changeCurrentState(call, "OVER") /\ "attended" \in Feature
    BY <1>2 DEF AttendedTransfer
  <2> QED
    BY <1>1, <2>1, ChangeKeeps
<1>3. CASE UnattendedTransfer
  <2> DEFINE named == [call EXCEPT !.transferTo = "set"]
             to    == actionPerformedStateMap[call.state]["TRANSFER"]
             left  == changeCurrentState(named, to)
             after == IF OnTransfer(call.state) = "transfer" THEN stop(left)
                      ELSE left
             shown == changeCurrentState(after, "TRANSFERRED")
  <2>1. named \in CallRecord /\ named.id = call.id
    BY <1>1 DEF CallRecord
  <2>2. to \in State
    BY <1>1, ActionTotal DEF CallRecord, Action
  <2> HIDE DEF named, to
  <2>3. left \in CallRecord /\ left.id = call.id
    BY <2>1, <2>2, ChangeKeeps
  <2> HIDE DEF left
  <2>4. after \in CallRecord /\ after.id = call.id
    BY <2>3, NotesKeep DEF Like
  <2> HIDE DEF after
  <2>5. shown \in CallRecord /\ shown.id = call.id
    BY <1>1, <2>4, ChangeKeeps
  <2> HIDE DEF shown
  <2>6. Like(shown, stop(shown))
    BY <2>5, NotesKeep
  <2>7. call' = changeCurrentState(stop(shown), "OVER") /\ "transfer" \in Feature
    BY <1>3 DEF UnattendedTransfer, shown, after, left, to, named
  <2> QED
    BY <1>1, <2>5, <2>6, <2>7, ChangeKeeps DEF Like
<1> QED
  BY <1>2, <1>3

-----------------------------------------------------------------------------
(* The object and the daemon stay in step.                                 *)

\* InStep, of an object and a daemon that a step is about to store.
Agree(c, d) ==
  IF c.id \in DaemonId
    THEN /\ d.calls[c.id] # "free"
         /\ \E g \in View(c.state) : Seen(d, c.id, g)
    ELSE Idle(d)

LEMMA AgreeIsEnough == Agree(call', ring') => InStep'
BY DEF Agree, InStep, Seen, Path, Idle

LEMMA InStepAgrees == InStep <=> Agree(call, ring)
BY DEF Agree, InStep

\* The states that have been seen are states of a daemon call.
LEMMA ViewType == \A s \in State : View(s) \subseteq DaemonCall
BY DEF View, DaemonCall, Alive, Unanswered, Established, State

\* A call that has events is one that the daemon gave an identifier to.
LEMMA NotIdle ==
  ASSUME InStep, \/ ring.queue # <<>>
                 \/ \E i \in DaemonId : ring.calls[i] # "free"
  PROVE  /\ call.id \in DaemonId /\ ring.calls[call.id] # "free"
         /\ \E g \in View(call.state) : Seen(ring, call.id, g)
BY DEF InStep, Idle, NoCall

LEMMA InitInStep == OwnCall /\ Init => InStep
<1> SUFFICES ASSUME OwnCall, Init PROVE InStep
  OBVIOUS
<1>1. ASSUME NEW s \in State, NEW i, NEW p, call = Built(s, i, p, TRUE, {})
                                         \/ call = Built(s, i, p, FALSE, {})
      PROVE  call.state = s /\ call.id = i
  BY <1>1 DEF Built, initTimer
<1>2. CASE InitDialing
  <2>1. call.id = "none"
    BY <1>1, <1>2 DEF InitDialing, State
  <2>2. Idle(ring)
    BY <1>2 DEF InitDialing, Idle
  <2> QED
    BY <2>1, <2>2, DaemonIdAssumption DEF InStep
<1>3. CASE InitIncoming
  <2>1. PICK i \in DaemonId, p \in Peer :
          /\ call = Built("INCOMING", i, p, FALSE, {})
          /\ ring = [calls |-> [NoCall EXCEPT ![i] = "incoming"],
                     queue |-> <<[id |-> i, state |-> "INCOMING",
                                  code |-> "none"]>>]
    BY <1>3 DEF InitIncoming
  <2>2. call.state = "INCOMING" /\ call.id = i
    BY <1>1, <2>1 DEF State
  <2>3. /\ ring.calls[i] = "incoming" /\ Len(ring.queue) = 1
        /\ ring.queue[1].state = "INCOMING" /\ ring.queue[1].code = "none"
    BY <2>1 DEF NoCall
  <2> DEFINE r == [k \in 0..1 |-> "incoming"]
  <2>4. r \in [0..1 -> DaemonCall] /\ r[0] = "incoming" /\ r[1] = "incoming"
    BY DEF DaemonCall, Alive, Unanswered
  <2> HIDE DEF r
  <2>5. Path(ring, i, r)
    <3>1. ASSUME NEW k \in 1..1
          PROVE  Said(r[k - 1], ring.queue[k].state, ring.queue[k].code, r[k])
      <4>1. k = 1 /\ k - 1 = 0
        OBVIOUS
      <4> QED
        BY <2>3, <2>4, <4>1 DEF Said
    <3> QED
      BY <2>3, <2>4, <3>1 DEF Path
  <2>6. Seen(ring, i, "incoming")
    BY <2>3, <2>4, <2>5 DEF Seen
  <2> QED
    BY <2>2, <2>3, <2>6 DEF InStep, View
<1> QED
  BY <1>2, <1>3 DEF Init, OwnCall, InitExisting

LEMMA PlacedInStep ==
  ASSUME RegistrationInv, TypeOK', AcceptedOnce, NEW a \in Action, PlaceCall(a)
  PROVE  /\ Agree(call', ring') /\ call'.state = "INITIALIZATION"
         /\ ring'.queue # <<>>
<1>1. /\ call \in CallRecord /\ call.state \in State /\ ring \in RingRecord
      /\ TypeOK
  BY DEF RegistrationInv, TypeOK, CallRecord
<1>2. PICK i \in DaemonId :
        /\ call' = [Placed(a) EXCEPT !.id = i]
        /\ ring' = Post([ring EXCEPT !.calls[i] = "connecting"], i, "CONNECTING",
                        "none")
  BY DEF PlaceCall
<1>3. /\ LifeCycle(call) = "CREATION"
      /\ actionPerformedStateMap[call.state][a] = "INITIALIZATION"
  BY <1>1, CallIsDialed, CallIsPlaced DEF PlaceCall, Performs
<1>4. Idle(ring)
  BY <1>3 DEF RegistrationInv, Unplaced
<1>5. call'.state = "INITIALIZATION" /\ call'.id = i
  <2> DEFINE e == Entered(a)
             x == [e EXCEPT !.account = TRUE, !.outgoing = TRUE, !.start = TRUE]
  <2>1. e \in CallRecord /\ e.state = "INITIALIZATION"
    BY <1>1, <1>3, ChangeKeeps DEF Entered, State
  <2>2. Placed(a) = ReplaceDialNumber(x)
    BY DEF Placed
  <2> HIDE DEF e
  <2>3. x.state = e.state
    BY <2>1 DEF CallRecord
  <2>4. x \in CallRecord
    <3>1. e \in CallRecord
      BY <2>1
    <3> QED
      BY <3>1, ZenonT(40) DEF CallRecord
  <2> HIDE DEF x
  <2>5. Placed(a) \in CallRecord /\ Placed(a).state = "INITIALIZATION"
    BY <2>1, <2>2, <2>3, <2>4, ReplaceKeeps DEF Like
  <2> QED
    BY <1>2, <2>5 DEF CallRecord
<1>6. Seen(ring, i, "free")
  <2> DEFINE r == [k \in 0..0 |-> "free"]
  <2>1. r \in [0..0 -> DaemonCall] /\ r[0] = "free"
    BY DEF DaemonCall
  <2> HIDE DEF r
  <2>2. ring.calls[i] = "free" /\ Len(ring.queue) = 0
    BY <1>4 DEF Idle, NoCall
  <2>3. Path(ring, i, r)
    BY <2>1, <2>2 DEF Path
  <2> QED
    BY <2>1, <2>2, <2>3 DEF Seen
<1>7. /\ Said(ring.calls[i], "CONNECTING", "none", "connecting")
      /\ "connecting" \in DaemonCall /\ "CONNECTING" \in StateEvent /\ "none" \in Code
      /\ ring.calls \in [DaemonId -> DaemonCall]
  BY <1>1, <1>4 DEF Idle, NoCall, Said, DaemonCall, Alive, Unanswered, StateEvent, Code,
       RingRecord
<1>8. /\ Seen(ring', i, "free") /\ ring'.queue # <<>>
      /\ ring'.calls = [ring.calls EXCEPT ![i] = "connecting"]
  BY <1>1, <1>2, <1>6, <1>7, PostSeen
<1>9. ring'.calls[i] = "connecting" /\ "free" \in View("INITIALIZATION")
  BY <1>7, <1>8 DEF View
<1> QED
  BY <1>5, <1>8, <1>9 DEF Agree

\* A call that is over may have seen anything.
LEMMA EndView ==
  ASSUME NEW s \in {"OVER", "ERROR", "ABORTED", "FAILURE"}
  PROVE  View(s) = DaemonCall
BY DEF View

LEMMA UserInStep ==
  ASSUME RegistrationInv, TypeOK', InStep, NoRecordColumn, AcceptedOnce, User
  PROVE  Agree(call', ring')
<1>1. TypeOK /\ call.state \in State
  BY DEF RegistrationInv, TypeOK, CallRecord
<1>2. CASE \E a \in Action : PlaceCall(a)
  BY <1>2, PlacedInStep
<1>3. CASE \A a \in Action : ~PlaceCall(a)
  <2>1. /\ call.id \in DaemonId => Tells(ring, ring', call.id)
        /\ call.id \notin DaemonId => ring' = ring
    BY <1>1, <1>3, UserTells
  <2>2. \/ LifeCycle(call) = "CREATION" /\ call'.id \in {call.id, "failed"}
        \/ call'.id = call.id /\ View(call.state) \subseteq View(call'.state)
    <3>1. ASSUME NEW a \in Action, Perform(a)
          PROVE  \/ LifeCycle(call) = "CREATION" /\ call'.id \in {call.id, "failed"}
                 \/ call'.id = call.id /\ View(call.state) \subseteq View(call'.state)
      <4>1. Performed(a) /\ a \in Action \ {"RECORD_VIDEO", "RECORD_TEXT"}
        BY <1>1, <1>3, <3>1, PerformShows DEF Performed, NoRecordColumn
      <4>2. View(call.state) \subseteq View(actionPerformedStateMap[call.state][a])
        BY <1>1, <4>1, ActionView
      <4>3. \A s \in {"OVER", "ERROR"} : View(call.state) \subseteq View(s)
        BY <1>1, EndView, ViewType
      <4> QED
        BY <4>1, <4>2, <4>3 DEF Performed
    <3>2. ASSUME \/ \E n \in Number : SetDialNumber(n) \/ Backspace(n)
                 \/ \E p \in Peer : SetPeerContactMethod(p) \/ AppendText(p)
                 \/ \E known \in BOOLEAN : SetAccount(known)
                 \/ \E n \in {"empty", "set"} : SetTransferNumber(n)
                 \/ BackspaceNothing \/ BackspaceCrashes \/ Reset
          PROVE  \/ LifeCycle(call) = "CREATION" /\ call'.id \in {call.id, "failed"}
                 \/ call'.id = call.id /\ View(call.state) \subseteq View(call'.state)
      BY <1>1, <3>2, EditShows, EndView, ViewType
    <3>3. ASSUME AttendedTransfer \/ UnattendedTransfer
          PROVE  call'.id = call.id /\ View(call.state) \subseteq View(call'.state)
      BY <1>1, <3>3, TransferShows, EndView, ViewType
    <3> QED
      BY <3>1, <3>2, <3>3 DEF User
  <2>3. CASE call.id \in DaemonId
    <3>1. PICK g \in View(call.state) : Seen(ring, call.id, g)
      BY <2>3 DEF InStep
    <3>2. LifeCycle(call) # "CREATION"
      BY <1>1, <3>1 DEF LifeCycle, metaStateMap, View
    <3>3. g \in View(call'.state) /\ g \in DaemonCall /\ call'.id = call.id
      BY <1>1, <2>2, <3>1, <3>2, ViewType
    <3>4. Seen(ring', call.id, g) /\ ring'.calls[call.id] # "free"
      BY <2>1, <2>3, <3>1, <3>3 DEF Tells, InStep
    <3> QED
      BY <2>3, <3>3, <3>4 DEF Agree
  <2>4. CASE call.id \notin DaemonId
    <3>1. ring' = ring /\ Idle(ring) /\ call'.id \notin DaemonId
      BY <2>1, <2>2, <2>4, DaemonIdAssumption DEF InStep
    <3> QED
      BY <3>1 DEF Agree
  <2> QED
    BY <2>3, <2>4
<1> QED
  BY <1>2, <1>3

\* What the next event tells: where the daemon call went, and that the table follows.
LEMMA NextEvent ==
  ASSUME TypeOK, InStep, ring.queue # <<>>
  PROVE  LET e == Head(ring.queue)
             d == Reported(e)
             r == stateChangedStateMap[call.state][d]
         IN  /\ call.id \in DaemonId /\ e \in Event /\ d \in DaemonState
             /\ metaStateMap[call.state] \in metaStateTransitionValidationMap[r]
             /\ metaStateMap[r] = "FINISHED" => Finished(call) \/ e.state \in Ending
             /\ stateChangedFunctionMap[call.state][d] = "error" => Finished(call)
             /\ \E to \in View(r) : \A n :
                  n.queue = Tail(ring.queue) /\ n.calls = ring.calls =>
                    Seen(n, call.id, to)
<1> DEFINE e == Head(ring.queue)
           d == Reported(e)
<1>1. ring \in RingRecord /\ call.state \in State /\ e \in Event
  BY DEF TypeOK, RingRecord, CallRecord
<1>2. call.id \in DaemonId /\ \E g \in View(call.state) : Seen(ring, call.id, g)
  BY NotIdle
<1>3. PICK g \in View(call.state) : Seen(ring, call.id, g)
  BY <1>2
<1>4. g \in DaemonCall
  BY <1>1, ViewType
<1> DEFINE m == [queue |-> Tail(ring.queue), calls |-> ring.calls]
<1>5. m.queue = Tail(ring.queue) /\ m.calls = ring.calls
  OBVIOUS
<1> HIDE DEF m
<1>6. PICK to \in DaemonCall : Said(g, e.state, e.code, to) /\ Seen(m, call.id, to)
  BY <1>1, <1>2, <1>3, <1>4, <1>5, TailSeen
<1>7. \A n : n.queue = Tail(ring.queue) /\ n.calls = ring.calls => Seen(n, call.id, to)
  BY <1>5, <1>6 DEF Seen, Path
<1>8. /\ e.state \in StateEvent /\ e.code \in Code
      /\ \/ d = toDaemonCallState(e.state)
         \/ d = "BUSY" /\ e.state = "HUNGUP" /\ e.code = "ECONNREFUSED"
  BY <1>1 DEF Event, Reported
<1>9. d \in DaemonState
  BY <1>8 DEF toDaemonCallState, DaemonState, StateEvent
<1> HIDE DEF e, d
<1>10. LET r == stateChangedStateMap[call.state][d]
       IN  /\ metaStateMap[call.state] \in metaStateTransitionValidationMap[r]
           /\ to \in View(r)
           /\ metaStateMap[r] = "FINISHED" =>
                metaStateMap[call.state] = "FINISHED" \/ e.state \in Ending
           /\ stateChangedFunctionMap[call.state][d] = "error" =>
                metaStateMap[call.state] = "FINISHED"
  BY <1>1, <1>6, <1>8, EventView
<1> QED
  BY <1>1, <1>2, <1>7, <1>9, <1>10 DEF d, e, Finished, LifeCycle

LEMMA DeliverInStep ==
  ASSUME TypeOK, InStep, Deliver
  PROVE  Agree(call', ring')
<1> DEFINE d == Reported(Head(ring.queue))
           r == stateChangedStateMap[call.state][d]
<1>1. /\ ring.queue # <<>> /\ ring \in RingRecord
      /\ ring'.queue = Tail(ring.queue) /\ ring'.calls = ring.calls
  BY DEF Deliver, TypeOK, RingRecord
<1>2. call.id \in DaemonId /\ ring.calls[call.id] # "free"
  BY <1>1, NotIdle
<1>3. call'.id = call.id /\ call'.state \in {r, "ERROR"}
  BY DeliverMoves
<1>4. d \in DaemonState /\ \E to \in View(r) : Seen(ring', call.id, to)
  BY <1>1, NextEvent
<1>5. r \in State
  BY <1>4, EventTotal DEF TypeOK, CallRecord
<1> HIDE DEF r
<1>6. PICK to \in View(r) : Seen(ring', call.id, to)
  BY <1>4
<1>7. to \in View(call'.state)
  BY <1>3, <1>5, <1>6, EndView, ViewType
<1> QED
  BY <1>1, <1>2, <1>3, <1>6, <1>7 DEF Agree

LEMMA RingInStep ==
  ASSUME TypeOK, InStep, OneCall(ring), RingMoves
  PROVE  Agree(call', ring')
<1>1. ring \in RingRecord /\ ring.calls \in [DaemonId -> DaemonCall]
  BY DEF TypeOK, RingRecord
<1>2. ASSUME NEW from \in SUBSET (DaemonCall \ {"free"}),
             NEW to \in DaemonCall \ {"free"}, NEW s \in StateEvent,
             NEW codes \in SUBSET Code,
             \A g \in from, c \in codes : Said(g, s, c, to),
             Ring(from, to, s, codes)
      PROVE  Agree(call', ring')
  <2>1. PICK i \in DaemonId, c \in codes :
          /\ ring.calls[i] \in from
          /\ ring' = Post([ring EXCEPT !.calls[i] = to], i, s, c)
    BY <1>2 DEF Ring
  <2>2. ring.calls[i] # "free" /\ call' = call
    BY <1>2, <2>1 DEF Ring
  <2>3. /\ call.id \in DaemonId /\ ring.calls[call.id] # "free"
        /\ \E g \in View(call.state) : Seen(ring, call.id, g)
    BY <2>2, NotIdle
  <2>4. i = call.id
    BY <2>2, <2>3 DEF OneCall
  <2>5. PICK g \in View(call.state) : Seen(ring, i, g)
    BY <2>3, <2>4
  <2>6. Said(ring.calls[i], s, c, to) /\ c \in Code
    BY <1>2, <2>1
  <2>7. Seen(ring', i, g) /\ ring'.calls = [ring.calls EXCEPT ![i] = to]
    BY <1>1, <1>2, <2>1, <2>5, <2>6, PostSeen
  <2>8. ring'.calls[i] # "free"
    BY <1>1, <1>2, <2>7
  <2> QED
    BY <2>2, <2>3, <2>4, <2>5, <2>7, <2>8 DEF Agree
<1>3. /\ {"connecting", "ringing", "current", "ended", "gone"} \subseteq DaemonCall \ {"free"}
      /\ {"CONNECTING", "RINGING", "CURRENT", "HUNGUP", "FAILURE", "BUSY", "OVER"}
           \subseteq StateEvent
      /\ {"none"} \in SUBSET Code /\ {"ECONNREFUSED", "ECONNABORTED"} \in SUBSET Code
      /\ {"ringing"} \in SUBSET (DaemonCall \ {"free"})
      /\ {"connecting"} \in SUBSET (DaemonCall \ {"free"})
      /\ {"connecting", "ringing"} \in SUBSET (DaemonCall \ {"free"})
      /\ {"ended"} \in SUBSET (DaemonCall \ {"free"})
      /\ Alive \in SUBSET (DaemonCall \ {"free"})
      /\ Unanswered \in SUBSET (DaemonCall \ {"free"})
  BY DEF DaemonCall, Alive, Unanswered, Established, StateEvent, Code
<1>4. /\ \A g \in {"ringing"}, c \in {"none"} : Said(g, "CONNECTING", c, "connecting")
      /\ \A g \in {"connecting"}, c \in {"none"} : Said(g, "RINGING", c, "ringing")
      /\ \A g \in {"connecting", "ringing"}, c \in {"none"} :
           Said(g, "CURRENT", c, "current")
      /\ \A g \in Alive, c \in {"none"} : Said(g, "HUNGUP", c, "ended")
      /\ \A g \in Unanswered, c \in {"ECONNREFUSED", "ECONNABORTED"} :
           Said(g, "HUNGUP", c, "ended")
      /\ \A g \in Alive, c \in {"none"} : Said(g, "FAILURE", c, "ended")
      /\ \A g \in {"connecting", "ringing"}, c \in {"none"} : Said(g, "BUSY", c, "ended")
      /\ \A g \in {"ended"}, c \in {"none"} : Said(g, "OVER", c, "gone")
  BY DEF Said, Alive, Unanswered, Established
<1>5. CASE RingConnects
  BY <1>2, <1>3, <1>4, <1>5 DEF RingConnects
<1>6. CASE RingRings
  BY <1>2, <1>3, <1>4, <1>6 DEF RingRings
<1>7. CASE RingAnswers
  BY <1>2, <1>3, <1>4, <1>7 DEF RingAnswers
<1>8. CASE RingHangsUp
  BY <1>2, <1>3, <1>4, <1>8 DEF RingHangsUp
<1>9. CASE RingFails
  BY <1>2, <1>3, <1>4, <1>9 DEF RingFails
<1>10. CASE RingIsBusy
  BY <1>2, <1>3, <1>4, <1>10 DEF RingIsBusy
<1>11. CASE RingIsOver
  BY <1>2, <1>3, <1>4, <1>11 DEF RingIsOver
<1> QED
  BY <1>5, <1>6, <1>7, <1>8, <1>9, <1>10, <1>11 DEF RingMoves

LEMMA InStepStep ==
  ASSUME RegistrationInv, RefinementInv, InStep, NoRecordColumn, AcceptedOnce,
         [Next]_vars
  PROVE  InStep'
<1>1. TypeOK /\ TypeOK' /\ OneCall(ring)
  BY RegistrationStep DEF RegistrationInv, RefinementInv, Orderly
<1>2. CASE User
  BY <1>1, <1>2, UserInStep, AgreeIsEnough
<1>3. CASE Deliver
  BY <1>1, <1>3, DeliverInStep, AgreeIsEnough
<1>4. CASE RingMoves
  BY <1>1, <1>4, RingInStep, AgreeIsEnough
<1>5. CASE PeerHold \/ \E on \in BOOLEAN : RecordStateChanged(on)
  <2>1. \/ \E h : call' = [call EXCEPT !.hold = h]
        \/ \E r : call' = [call EXCEPT !.recording = r]
    BY <1>5 DEF PeerHold, RecordStateChanged
  <2>2. ring' = ring /\ call'.id = call.id /\ call'.state = call.state
    BY <1>1, <1>5, <2>1 DEF PeerHold, RecordStateChanged, TypeOK, CallRecord
  <2>3. Agree(call', ring')
    BY <2>2, InStepAgrees DEF Agree
  <2> QED
    BY <2>3, AgreeIsEnough
<1>6. CASE UNCHANGED vars
  BY <1>6, InStepAgrees, AgreeIsEnough DEF vars
<1> QED
  BY <1>2, <1>3, <1>4, <1>5, <1>6 DEF Next

\* The invariant of a call of this client, for every instance.
LEMMA ConvergenceCorrect ==
  ASSUME NoRecordColumn, OwnCall, AcceptedOnce
  PROVE  Spec => [](TypeOK /\ RefinementInv /\ InStep)
<1>1. Init => RegistrationInv /\ RefinementInv /\ InStep
  BY InitKept, InitRefines, InitInStep
<1>2. RegistrationInv /\ RefinementInv /\ InStep /\ [Next]_vars
        => RegistrationInv' /\ RefinementInv' /\ InStep'
  BY RegistrationStep, RefinementStep, InStepStep
<1>3. RegistrationInv => TypeOK
  BY DEF RegistrationInv
<1> QED
  BY <1>1, <1>2, <1>3, PTL DEF Spec

\* The assertion of stateChanged() holds: whatever is in flight, the event that comes
\* next takes the object by a transition that metaStateTransitionValidationMap allows.
THEOREM TransitionIsExpectedCorrect ==
  ASSUME NoRecordColumn, OwnCall, AcceptedOnce
  PROVE  Spec => []TransitionIsExpected
<1>1. TypeOK /\ RefinementInv /\ InStep => TransitionIsExpected
  BY NextEvent DEF TransitionIsExpected, Quiet, LifeCycle
<1> QED
  BY <1>1, ConvergenceCorrect, PTL

-----------------------------------------------------------------------------
(* Who is held.                                                            *)

\* The interface does not offer to leave a transfer by asking for one again: the
\* events clear the flag of a call in TRANSF_HOLD, which would go back to HOLD without.
TransferOnce ==
  "TRANSFER" \notin Offered["TRANSFERRED"] \cup Offered["TRANSF_HOLD"]

Flagged(c, d) ==
  d.queue = <<>> /\ c.id \in DaemonId /\ c.state \in {"CURRENT", "HOLD"} =>
    ("OUT" \in c.hold <=> c.state = "HOLD")

LEMMA ActionStays ==
  ASSUME NEW s \in State, NEW a \in Action \ {"RECORD_VIDEO", "RECORD_TEXT"},
         actionPerformedStateMap[s][a] \in {"CURRENT", "HOLD"}
  PROVE  \/ s = actionPerformedStateMap[s][a]
         \/ s \in {"CONFERENCE", "CONFERENCE_HOLD"}
         \/ s \in {"TRANSFERRED", "TRANSF_HOLD"} /\ a = "TRANSFER"
<1>1. s \in {"CURRENT", "HOLD", "TRANSFERRED", "TRANSF_HOLD", "CONFERENCE",
             "CONFERENCE_HOLD"}
  BY DEF actionPerformedStateMap, ActionRow, State, Action
<1>2. CASE s \in {"CURRENT", "HOLD"}
  BY <1>2 DEF actionPerformedStateMap, ActionRow, State, Action
<1>3. CASE s \in {"TRANSFERRED", "TRANSF_HOLD"}
  BY <1>3 DEF actionPerformedStateMap, ActionRow, State, Action
<1> QED
  BY <1>1, <1>2, <1>3

LEMMA HoldIsAsked ==
  ASSUME NEW s \in {"CURRENT", "HOLD"}, NEW a \in Action
  PROVE  /\ actionPerformedFunctionMap[s][a] = "hold" => s = "CURRENT"
         /\ actionPerformedFunctionMap[s][a] = "unhold" => s = "HOLD"
BY DEF actionPerformedFunctionMap, OnAccept, OnRefuse, OnTransfer, OnHold, State

\* The daemon says something of each move.
LEMMA PostSpeaks ==
  ASSUME NEW d \in RingRecord, NEW i \in DaemonId, NEW to \in DaemonCall,
         NEW s \in StateEvent, NEW code \in Code
  PROVE  Post([d EXCEPT !.calls[i] = to], i, s, code).queue # <<>>
<1> DEFINE e == [id |-> i, state |-> s, code |-> code]
           n == Post([d EXCEPT !.calls[i] = to], i, s, code)
<1>1. d.queue \in Seq(Event) /\ e \in Event
  BY DEF RingRecord, Event
<1>2. n.queue = Append(d.queue, e)
  BY DEF Post, RingRecord
<1> HIDE DEF e, n
<1>3. n.queue # <<>>
  BY <1>1, <1>2
<1> QED
  BY <1>3 DEF n

LEMMA HeldSpeaks ==
  ASSUME NEW d \in RingRecord, NEW i \in DaemonId
  PROVE  /\ d.calls[i] = "current" => Held(d, i).queue # <<>>
         /\ d.calls[i] = "held" => Unheld(d, i).queue # <<>>
<1>1. /\ {"held", "current"} \subseteq DaemonCall
      /\ {"HOLD", "UNHOLD"} \subseteq StateEvent /\ "none" \in Code
  BY DEF DaemonCall, Alive, Established, StateEvent, Code
<1> QED
  BY <1>1, PostSpeaks DEF Held, Unheld, Request

LEMMA RingSpeaks ==
  ASSUME TypeOK, RingMoves
  PROVE  ring'.queue # <<>> /\ call' = call
<1>1. ring \in RingRecord
  BY DEF TypeOK
<1>2. ASSUME NEW from, NEW to \in DaemonCall, NEW s \in StateEvent,
             NEW codes \in SUBSET Code, Ring(from, to, s, codes)
      PROVE  ring'.queue # <<>> /\ call' = call
  BY <1>1, <1>2, PostSpeaks DEF Ring
<1>3. /\ {"connecting", "ringing", "current", "ended", "gone"} \subseteq DaemonCall
      /\ {"CONNECTING", "RINGING", "CURRENT", "HUNGUP", "FAILURE", "BUSY", "OVER"}
           \subseteq StateEvent
      /\ {"none"} \in SUBSET Code /\ {"ECONNREFUSED", "ECONNABORTED"} \in SUBSET Code
  BY DEF DaemonCall, Alive, Unanswered, Established, StateEvent, Code
<1> QED
  BY <1>2, <1>3 DEF RingMoves, RingConnects, RingRings, RingAnswers,
       RingHangsUp, RingFails, RingIsBusy, RingIsOver

\* What the object has seen when nothing is in flight is what is.
LEMMA QuietView ==
  ASSUME InStep, ring.queue = <<>>, call.id \in DaemonId
  PROVE  ring.calls[call.id] \in View(call.state)
<1>1. PICK g \in View(call.state) : Seen(ring, call.id, g)
  BY DEF InStep
<1>2. Len(ring.queue) = 0
  OBVIOUS
<1> QED
  BY <1>1, <1>2 DEF Seen, Path

LEMMA UserFlagged ==
  ASSUME RegistrationInv, TypeOK', InStep, Flagged(call, ring), NoRecordColumn,
         AcceptedOnce, TransferOnce, User
  PROVE  Flagged(call', ring')
<1> SUFFICES ASSUME ring'.queue = <<>>, call'.id \in DaemonId,
                    call'.state \in {"CURRENT", "HOLD"}
             PROVE  "OUT" \in call'.hold <=> call'.state = "HOLD"
  BY DEF Flagged
<1>1. TypeOK /\ call.state \in State /\ ring \in RingRecord
  BY DEF RegistrationInv, TypeOK, CallRecord
<1>2. \A a \in Action : ~PlaceCall(a)
  BY PlacedInStep
<1>3. ASSUME call'.id = call.id, call'.state = call.state
      PROVE  /\ ring' = ring /\ call.id \in DaemonId /\ ring.queue = <<>>
             /\ "OUT" \in call.hold <=> call.state = "HOLD"
  <2>1. ring' = ring
    BY <1>1, <1>2, <1>3, UserTells DEF Tells
  <2> QED
    BY <1>3, <2>1 DEF Flagged
<1>4. ASSUME NEW a \in Action, Perform(a)
      PROVE  "OUT" \in call'.hold <=> call'.state = "HOLD"
  <2> DEFINE f == actionPerformedFunctionMap[call.state][a]
  <2>1. Performed(a) /\ a \in Action \ {"RECORD_VIDEO", "RECORD_TEXT"}
    BY <1>1, <1>2, <1>4, PerformShows DEF Performed, NoRecordColumn
  <2>2. /\ call'.id = call.id /\ call'.state = actionPerformedStateMap[call.state][a]
        /\ \/ call'.hold = call.hold
           \/ f = "hold" /\ ring' = Held(ring, call.id)
           \/ f = "unhold" /\ ring' = Unheld(ring, call.id)
    BY <2>1 DEF Performed
  <2>3. call.state \notin {"CONFERENCE", "CONFERENCE_HOLD"}
    BY <2>2 DEF InStep, View
  <2>4. ~(call.state \in {"TRANSFERRED", "TRANSF_HOLD"} /\ a = "TRANSFER")
    BY <2>1 DEF Performed, TransferOnce
  <2>5. call'.state = call.state
    BY <1>1, <2>1, <2>2, <2>3, <2>4, ActionStays
  <2>6. /\ ring' = ring /\ call.id \in DaemonId /\ ring.queue = <<>>
        /\ "OUT" \in call.hold <=> call.state = "HOLD"
    BY <1>3, <2>2, <2>5
  <2>7. ring.calls[call.id] \in View(call.state)
    BY <2>6, QuietView
  <2>8. /\ call.state = "CURRENT" => ring.calls[call.id] = "current"
        /\ call.state = "HOLD" => ring.calls[call.id] = "held"
    BY <2>7 DEF View
  <2>9. f = "hold" => Held(ring, call.id) # ring
    BY <1>1, <2>5, <2>6, <2>8, HoldIsAsked, HeldSpeaks
  <2>10. f = "unhold" => Unheld(ring, call.id) # ring
    BY <1>1, <2>5, <2>6, <2>8, HoldIsAsked, HeldSpeaks
  <2> QED
    BY <2>2, <2>5, <2>6, <2>9, <2>10
<1>5. ASSUME \/ \E n \in Number : SetDialNumber(n) \/ Backspace(n)
             \/ \E p \in Peer : SetPeerContactMethod(p) \/ AppendText(p)
             \/ \E known \in BOOLEAN : SetAccount(known)
             \/ \E n \in {"empty", "set"} : SetTransferNumber(n)
             \/ BackspaceNothing \/ BackspaceCrashes \/ Reset
      PROVE  "OUT" \in call'.hold <=> call'.state = "HOLD"
  <2>1. call'.id = call.id /\ call'.hold = call.hold /\ call'.state = call.state
    BY <1>1, <1>5, EditShows
  <2> QED
    BY <1>3, <2>1
<1>6. ~(AttendedTransfer \/ UnattendedTransfer)
  BY <1>1, TransferShows
<1> QED
  BY <1>4, <1>5, <1>6 DEF User

LEMMA FlaggedStep ==
  ASSUME RegistrationInv, InStep, Flagged(call, ring), NoRecordColumn, AcceptedOnce,
         TransferOnce, [Next]_vars
  PROVE  Flagged(call', ring')
<1>1. TypeOK /\ TypeOK'
  BY RegistrationStep DEF RegistrationInv
<1>2. CASE User
  BY <1>1, <1>2, UserFlagged
<1>3. CASE Deliver
  BY <1>1, <1>3, DeliverMoves DEF Flagged
<1>4. CASE RingMoves
  BY <1>1, <1>4, RingSpeaks DEF Flagged
<1>5. CASE PeerHold
  <2>1. /\ ring' = ring /\ call'.id = call.id /\ call'.state = call.state
        /\ call'.hold = IF "IN" \in call.hold THEN call.hold \ {"IN"}
                                              ELSE call.hold \cup {"IN"}
    BY <1>1, <1>5 DEF PeerHold, TypeOK, CallRecord
  <2>2. "OUT" \in call'.hold <=> "OUT" \in call.hold
    BY <2>1
  <2> QED
    BY <2>1, <2>2 DEF Flagged
<1>6. CASE \E on \in BOOLEAN : RecordStateChanged(on)
  <2>1. PICK r : call' = [call EXCEPT !.recording = r] /\ ring' = ring
    BY <1>6 DEF RecordStateChanged
  <2>2. /\ call'.id = call.id /\ call'.state = call.state
        /\ call'.hold = call.hold
    BY <1>1, <2>1 DEF TypeOK, CallRecord
  <2> QED
    BY <2>1, <2>2 DEF Flagged
<1>7. CASE UNCHANGED vars
  BY <1>7 DEF vars, Flagged
<1> QED
  BY <1>2, <1>3, <1>4, <1>5, <1>6, <1>7 DEF Next

\* However fast the user holds and resumes a call, and whatever the peer does at the
\* same time, the state, the flag and the daemon agree on who is held as soon as
\* nothing is in flight.
THEOREM HoldAgreesCorrect ==
  ASSUME NoRecordColumn, OwnCall, AcceptedOnce, TransferOnce
  PROVE  Spec => []HoldAgrees
<1> DEFINE Inv == RegistrationInv /\ RefinementInv /\ InStep /\ Flagged(call, ring)
<1>1. Init => Inv
  <2>1. Init => InStep /\ RegistrationInv /\ RefinementInv
    BY InitKept, InitRefines, InitInStep
  <2>2. ASSUME Init PROVE Flagged(call, ring)
    <3>1. CASE InitDialing
      <4>1. call.id = "none"
        BY <3>1 DEF InitDialing, Built, initTimer
      <4> QED
        BY <4>1, DaemonIdAssumption DEF Flagged
    <3>2. CASE InitIncoming
      BY <3>2 DEF InitIncoming, Flagged
    <3> QED
      BY <2>2, <3>1, <3>2 DEF Init, OwnCall, InitExisting
  <2> QED
    BY <2>1, <2>2
<1>2. Inv /\ [Next]_vars => Inv'
  <2> SUFFICES ASSUME Inv, [Next]_vars PROVE Inv'
    OBVIOUS
  <2>1. RegistrationInv' /\ RefinementInv' /\ InStep' /\ Flagged(call', ring')
    BY RegistrationStep, RefinementStep, InStepStep, FlaggedStep
  <2>2. Flagged(call, ring)'
    BY <2>1 DEF Flagged
  <2> QED
    BY <2>1, <2>2
<1>3. Inv => HoldAgrees
  <2> SUFFICES ASSUME Inv, Quiet, call.id \in DaemonId, call.state \in {"CURRENT", "HOLD"}
               PROVE  /\ call.state = "HOLD" <=> ring.calls[call.id] = "held"
                      /\ "OUT" \in call.hold <=> call.state = "HOLD"
    BY DEF HoldAgrees
  <2>1. ring.calls[call.id] \in View(call.state)
    BY QuietView DEF Quiet
  <2> QED
    BY <2>1 DEF Flagged, Quiet, View
<1> HIDE DEF Inv
<1> QED
  BY <1>1, <1>2, <1>3, PTL DEF Spec

-----------------------------------------------------------------------------
(* A call that is over.                                                    *)

\* The user ends a call that the daemon has by asking the daemon: nothing is edited or
\* transferred, and the only cell that ends a started call and is offered is
\* that of cancel().
EndedByRequest ==
  /\ Feature \cap {"edit", "attended", "transfer"} = {}
  /\ \A s \in State : \A a \in Offered[s] :
       metaStateMap[actionPerformedStateMap[s][a]] = "FINISHED" =>
         \/ metaStateMap[s] \in {"CREATION", "FINISHED"}
         \/ actionPerformedFunctionMap[s][a] = "cancel"

NoneLeft(c, d) == Finished(c) => NoneAlive(d)

\* The daemon has no call but that of the object.
LEMMA OnlyCall ==
  ASSUME TypeOK, InStep, OneCall(ring)
  PROVE  /\ ~Known(ring, call.id) => NoneAlive(ring)
         /\ NoneAlive(HungUp(ring, call.id))
<1>1. ring.calls \in [DaemonId -> DaemonCall] /\ ring \in RingRecord
  BY DEF TypeOK, RingRecord
<1>2. "free" \notin Alive /\ "ended" \notin Alive
  BY DEF Alive, Unanswered, Established
<1>3. CASE call.id \in DaemonId
  <2>1. ring.calls[call.id] # "free"
    BY <1>3 DEF InStep
  <2>2. \A j \in DaemonId \ {call.id} : ring.calls[j] = "free"
    BY <1>3, <2>1 DEF OneCall
  <2>3. ring.calls[call.id] \notin Alive => NoneAlive(ring)
    BY <1>2, <2>2 DEF NoneAlive
  <2>4. CASE ring.calls[call.id] \in Alive
    <3>1. HungUp(ring, call.id).calls = [ring.calls EXCEPT ![call.id] = "ended"]
      BY <1>1, <1>3, <2>4 DEF HungUp, Request, Post, RingRecord
    <3>2. NoneAlive(HungUp(ring, call.id))
      BY <1>1, <1>2, <2>2, <3>1 DEF NoneAlive
    <3> QED
      BY <1>3, <2>4, <3>2 DEF Known
  <2>5. CASE ring.calls[call.id] \notin Alive
    BY <2>3, <2>5 DEF HungUp, Request
  <2> QED
    BY <2>4, <2>5
<1>4. CASE call.id \notin DaemonId
  <2>1. NoneAlive(ring)
    BY <1>2, <1>4 DEF InStep, Idle, NoCall, NoneAlive
  <2> QED
    BY <1>4, <2>1, RequestIsVain
<1> QED
  BY <1>3, <1>4

LEMMA UserLeavesNone ==
  ASSUME RegistrationInv, RefinementInv, TypeOK', InStep, NoneLeft(call, ring),
         NoRecordColumn, AcceptedOnce, EndedByRequest, User, Finished(call')
  PROVE  NoneAlive(ring')
<1>1. TypeOK /\ call.state \in State /\ Orderly(ring) /\ OneCall(ring)
  BY DEF RegistrationInv, RefinementInv, TypeOK, CallRecord, Orderly
<1>2. \A a \in Action : ~PlaceCall(a)
  <2>1. metaStateMap["INITIALIZATION"] # "FINISHED"
    BY DEF metaStateMap, State
  <2> QED
    BY <2>1, PlacedInStep DEF Finished, LifeCycle
<1>3. NoneAlive(ring) => ring' = ring
  BY <1>1, <1>2, UserRequests, RequestOrderly
<1>4. LifeCycle(call) = "CREATION" => NoneAlive(ring)
  BY DEF RegistrationInv, Unplaced, Idle, NoCall, NoneAlive, Alive, Unanswered,
         Established
<1>5. NoneAlive(ring) => NoneAlive(ring')
  BY <1>3
<1>6. Finished(call) => NoneAlive(ring)
  BY DEF NoneLeft
<1>7. ASSUME NEW a \in Action, Perform(a) PROVE NoneAlive(ring')
  <2>1. Performed(a)
    BY <1>1, <1>2, <1>7, PerformShows
  <2>2. CASE call'.state = actionPerformedStateMap[call.state][a]
    <3>1. metaStateMap[actionPerformedStateMap[call.state][a]] = "FINISHED"
      BY <2>2 DEF Finished, LifeCycle
    <3>2. \/ LifeCycle(call) = "CREATION" \/ Finished(call)
          \/ ring' = HungUp(ring, call.id)
      BY <1>1, <2>1, <3>1 DEF Performed, EndedByRequest, LifeCycle, Finished
    <3> QED
      BY <1>1, <1>4, <1>5, <1>6, <3>2, OnlyCall
  <2>3. CASE ~Known(ring, call.id) \/ Finished(call) \/ LifeCycle(call) = "CREATION"
    BY <1>1, <1>4, <1>5, <1>6, <2>3, OnlyCall
  <2> QED
    BY <2>1, <2>2, <2>3 DEF Performed
<1>8. ASSUME \/ \E n \in Number : SetDialNumber(n) \/ Backspace(n)
             \/ \E p \in Peer : SetPeerContactMethod(p) \/ AppendText(p)
             \/ \E known \in BOOLEAN : SetAccount(known)
             \/ \E n \in {"empty", "set"} : SetTransferNumber(n)
             \/ BackspaceNothing \/ BackspaceCrashes \/ Reset
      PROVE  NoneAlive(ring')
  <2>1. call'.state = call.state \/ LifeCycle(call) = "CREATION"
    BY <1>1, <1>8, EditShows DEF EndedByRequest
  <2> QED
    BY <1>4, <1>5, <1>6, <2>1 DEF Finished, LifeCycle
<1>9. ~(AttendedTransfer \/ UnattendedTransfer)
  BY <1>1, TransferShows DEF EndedByRequest
<1> QED
  BY <1>7, <1>8, <1>9 DEF User

\* An event ends a call that the daemon has ended.
LEMMA DeliverLeavesNone ==
  ASSUME TypeOK, RefinementInv, InStep, NoneLeft(call, ring), Deliver, Finished(call')
  PROVE  NoneAlive(ring')
<1> DEFINE e == Head(ring.queue)
           d == Reported(e)
           r == stateChangedStateMap[call.state][d]
<1>1. /\ ring.queue # <<>> /\ ring.queue \in Seq(Event) /\ ring'.calls = ring.calls
  BY DEF Deliver, TypeOK, RingRecord
<1>2. 1 \in 1..Len(ring.queue) /\ e = ring.queue[1]
  BY <1>1
<1>3. /\ metaStateMap[r] = "FINISHED" => Finished(call) \/ e.state \in Ending
      /\ stateChangedFunctionMap[call.state][d] = "error" => Finished(call)
  BY <1>1, NextEvent
<1>4. stateChangedFunctionMap[call.state][d] # "error" => call'.state = r
  BY DeliverMoves
<1>5. Finished(call) \/ e.state \in Ending
  BY <1>3, <1>4 DEF Finished, LifeCycle
<1>6. NoneAlive(ring)
  BY <1>2, <1>5 DEF NoneLeft, RefinementInv, Orderly
<1> QED
  BY <1>1, <1>6 DEF NoneAlive

LEMMA RingLeavesNone ==
  ASSUME TypeOK, NoneAlive(ring), RingMoves
  PROVE  NoneAlive(ring')
<1>1. ring.calls \in [DaemonId -> DaemonCall] /\ ring \in RingRecord
  BY DEF TypeOK, RingRecord
<1>2. ASSUME NEW from \in SUBSET Alive, NEW to, NEW s, NEW codes
      PROVE  ~Ring(from, to, s, codes)
  BY <1>2 DEF Ring, NoneAlive
<1>3. /\ {"ringing"} \in SUBSET Alive /\ {"connecting"} \in SUBSET Alive
      /\ {"connecting", "ringing"} \in SUBSET Alive
      /\ Alive \in SUBSET Alive /\ Unanswered \in SUBSET Alive
  BY DEF Alive, Unanswered
<1>4. RingIsOver
  BY <1>2, <1>3 DEF RingMoves, RingConnects, RingRings, RingAnswers, RingHangsUp,
       RingFails, RingIsBusy
<1>5. PICK i \in DaemonId : ring' = Post([ring EXCEPT !.calls[i] = "gone"], i, "OVER", "none")
  BY <1>4 DEF RingIsOver, Ring
<1>6. ring'.calls = [ring.calls EXCEPT ![i] = "gone"]
  BY <1>1, <1>5 DEF Post, RingRecord
<1> QED
  BY <1>1, <1>6 DEF NoneAlive, Alive, Unanswered, Established

LEMMA NoneLeftStep ==
  ASSUME RegistrationInv, RefinementInv, InStep, NoneLeft(call, ring),
         NoRecordColumn, AcceptedOnce, EndedByRequest, [Next]_vars
  PROVE  NoneLeft(call', ring')
<1>1. TypeOK /\ TypeOK'
  BY RegistrationStep DEF RegistrationInv
<1>2. CASE User
  BY <1>1, <1>2, UserLeavesNone DEF NoneLeft
<1>3. CASE Deliver
  BY <1>1, <1>3, DeliverLeavesNone DEF NoneLeft
<1>4. CASE RingMoves
  BY <1>1, <1>4, RingSpeaks, RingLeavesNone DEF NoneLeft
<1>5. CASE PeerHold \/ \E on \in BOOLEAN : RecordStateChanged(on)
  <2>1. \/ \E h : call' = [call EXCEPT !.hold = h]
        \/ \E r : call' = [call EXCEPT !.recording = r]
    BY <1>5 DEF PeerHold, RecordStateChanged
  <2>2. ring' = ring /\ call'.state = call.state
    BY <1>1, <1>5, <2>1 DEF PeerHold, RecordStateChanged, TypeOK, CallRecord
  <2> QED
    BY <2>2 DEF NoneLeft, Finished, LifeCycle
<1>6. CASE UNCHANGED vars
  BY <1>6 DEF vars
<1> QED
  BY <1>2, <1>3, <1>4, <1>5, <1>6 DEF Next

\* A call that is over for the user is not running in the daemon: hangUp(), refuse(),
\* cancel() and the error paths end both, or find that the daemon has ended its own.
THEOREM NoForgottenDaemonCallCorrect ==
  ASSUME NoRecordColumn, OwnCall, AcceptedOnce, EndedByRequest
  PROVE  Spec => []NoForgottenDaemonCall
<1> DEFINE Inv == RegistrationInv /\ RefinementInv /\ InStep /\ NoneLeft(call, ring)
<1>1. Init => Inv
  <2>1. Init => InStep /\ RegistrationInv /\ RefinementInv
    BY InitKept, InitRefines, InitInStep
  <2>2. ASSUME Init PROVE ~Finished(call)
    <3>1. CASE InitDialing
      <4>1. call.state = "NEW"
        BY <3>1 DEF InitDialing, Built, initTimer
      <4> QED
        BY <4>1 DEF Finished, LifeCycle, metaStateMap, State
    <3>2. CASE InitIncoming
      <4>1. call.state = "INCOMING"
        BY <3>2 DEF InitIncoming, Built, initTimer
      <4> QED
        BY <4>1 DEF Finished, LifeCycle, metaStateMap, State
    <3> QED
      BY <2>2, <3>1, <3>2 DEF Init, InitExisting, OwnCall
  <2> QED
    BY <2>1, <2>2 DEF NoneLeft
<1>2. Inv /\ [Next]_vars => Inv'
  <2> SUFFICES ASSUME Inv, [Next]_vars PROVE Inv'
    OBVIOUS
  <2>1. RegistrationInv' /\ RefinementInv' /\ InStep' /\ NoneLeft(call', ring')
    BY RegistrationStep, RefinementStep, InStepStep, NoneLeftStep
  <2>2. NoneLeft(call, ring)'
    BY <2>1 DEF NoneLeft, Finished, LifeCycle, NoneAlive
  <2> QED
    BY <2>1, <2>2
<1>3. Inv => NoForgottenDaemonCall
  BY DEF NoneLeft, NoneAlive, NoForgottenDaemonCall
<1> HIDE DEF Inv
<1> QED
  BY <1>1, <1>2, <1>3, PTL DEF Spec
=============================================================================
