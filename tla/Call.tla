------------------------------- MODULE Call -------------------------------
(***************************************************************************)
(* One Call object and the daemon call it stands for (src/src/call.cpp and *)
(* the part of src/src/callmodel.cpp that feeds it).                       *)
(*                                                                         *)
(* The user acts on the object at once: performAction() moves the state    *)
(* with a table and then runs a member function, which may send a request  *)
(* to the daemon.  What the daemon does comes back later, through a Qt     *)
(* queued connection, as a state name which the object maps with another   *)
(* table.  Between the two the object shows a state that the daemon may    *)
(* have left: every action below can happen with events in flight.         *)
(***************************************************************************)
EXTENDS CallStates, Naturals, Sequences

CONSTANTS
  Peer,         \* the contact methods, each also standing for its number
  DaemonId,     \* the identifiers the daemon may give to a call
  Offered,      \* Offered[s]: the actions that may be performed in state s
  Feature,      \* which of the optional operations the run includes
  Start,        \* how the call may come to exist
  HasProfile,   \* the account has a profile to send when the call starts
  RingAccount,  \* the account is a Ring account (SIP otherwise)
  MaxQueue      \* no request or daemon move with that many events in flight

ASSUME PeerAssumption ==
  Peer \cap {"none", "null", "empty", "blank", "temporary"} = {}
ASSUME DaemonIdAssumption == DaemonId \cap {"none", "failed"} = {}
ASSUME OfferedAssumption == Offered \in [State -> SUBSET Action]
ASSUME SwitchesAssumption ==
  /\ HasProfile \in BOOLEAN /\ RingAccount \in BOOLEAN /\ MaxQueue \in Nat
  /\ Feature \subseteq {"edit", "attended", "transfer", "no account",
                 "place fails"}
  /\ Start \subseteq {"dialing", "incoming", "existing"}

VARIABLES
  call,         \* the fields of CallPrivate
  ring          \* the daemon: its calls, and the events it has emitted

vars == <<call, ring>>

-----------------------------------------------------------------------------
(* The daemon.  It is external: what is written here is what the code under*)
(* src/ relies on.  A call that ended is known to it until it emits OVER.  *)

\* The state names carried by the callStateChanged signal.
StateEvent == {"INCOMING", "CONNECTING", "RINGING", "CURRENT", "UNHOLD",
               "HOLD", "BUSY", "HUNGUP", "FAILURE", "INACTIVE", "OVER"}

\* The error codes that the handlers tell apart.
Code == {"none", "ECONNREFUSED", "ECONNABORTED"}

Event == [id : DaemonId, state : StateEvent, code : Code]

Unanswered == {"incoming", "connecting", "ringing"}
Established == {"current", "held"}
Alive == Unanswered \cup Established
DaemonCall == Alive \cup {"free", "ended", "gone"}

Known(d, i) == i \in DaemonId /\ d.calls[i] \in Alive \cup {"ended"}

Post(d, i, s, code) ==
  [d EXCEPT !.queue = Append(@, [id |-> i, state |-> s, code |-> code])]

\* Call i moves from one of the states `from' to `to' and says s; a request
\* that finds it elsewhere, or that names no call, changes nothing.
Request(d, i, from, to, s) ==
  IF i \in DaemonId /\ d.calls[i] \in from
  THEN Post([d EXCEPT !.calls[i] = to], i, s, "none")
  ELSE d

Accepted(d, i)    == Request(d, i, {"incoming"}, "current", "CURRENT")
Refused(d, i)     == Request(d, i, {"incoming"}, "ended", "HUNGUP")
HungUp(d, i)      == Request(d, i, Alive, "ended", "HUNGUP")
Held(d, i)        == Request(d, i, {"current"}, "held", "HOLD")
Unheld(d, i)      == Request(d, i, {"held"}, "current", "UNHOLD")
Transferred(d, i) == Request(d, i, Established, "ended", "HUNGUP")

\* A transfer is attempted by the daemon and may fail, in silence.
AfterTransfer(d, i) == {d, Transferred(d, i)}

Ring(from, to, s, codes) ==
  /\ Len(ring.queue) < MaxQueue
  /\ \E i \in DaemonId, c \in codes :
       /\ ring.calls[i] \in from
       /\ ring' = Post([ring EXCEPT !.calls[i] = to], i, s, c)
  /\ UNCHANGED call

\* The progress of an outgoing call, the peer answering, renegotiating.
RingConnects == Ring({"ringing"}, "connecting", "CONNECTING", {"none"})
RingRings    == Ring({"connecting"}, "ringing", "RINGING", {"none"})
RingAnswers  == Ring({"connecting", "ringing"}, "current", "CURRENT", {"none"})

\* The ways a call ends.  A peer that declines is reported by a Ring account
\* as a hang up with a code, before the call is answered.
RingHangsUp  == \/ Ring(Alive, "ended", "HUNGUP", {"none"})
                \/ Ring(Unanswered, "ended", "HUNGUP",
                        {"ECONNREFUSED", "ECONNABORTED"})
RingFails    == Ring(Alive, "ended", "FAILURE", {"none"})
RingIsBusy   == Ring({"connecting", "ringing"}, "ended", "BUSY", {"none"})
RingIsOver   == Ring({"ended"}, "gone", "OVER", {"none"})

RingMoves == RingConnects \/ RingRings \/ RingAnswers \/ RingHangsUp
               \/ RingFails \/ RingIsBusy \/ RingIsOver

-----------------------------------------------------------------------------
(* The object.                                                             *)

Number == Peer \cup {"empty"}

CallRecord ==
  [ state      : State,                    \* m_CurrentState
    hold       : SUBSET {"IN", "OUT"},     \* m_fHoldFlags
    dial       : Number \cup {"null"},     \* m_pDialNumber and its URI
    peer       : Peer \cup {"none", "blank"},  \* m_pPeerContactMethod
    transferTo : {"null", "empty", "set"}, \* m_pTransferNumber
    account    : BOOLEAN,                  \* m_Account is not null
    id         : DaemonId \cup {"none", "failed"},   \* m_DringId
    outgoing   : BOOLEAN,                  \* m_Direction
    timer      : {"none", "running", "stopped"},     \* m_pTimer
    start      : BOOLEAN,                  \* m_pStartTimeStamp was set
    stop       : BOOLEAN,                  \* m_pStopTimeStamp was set
    missed     : BOOLEAN,                  \* m_Missed
    reason     : {"UNSPECIFIED", "MISSED", "REFUSED"},  \* m_FailureReason
    code       : Code,                     \* m_LastErrorCode
    recording  : SUBSET {"AUDIO", "VIDEO"},     \* m_mIsRecording
    audio      : 0..2,                     \* audio media, per direction
    text       : 0..2,                     \* text media
    active     : SUBSET (Peer \cup {"temporary", "blank"}),
    init       : SUBSET (Peer \cup {"temporary", "blank"}),
                        \* contact methods that list it as active, starting
    logged     : BOOLEAN,                  \* it has an event in the calendar
    crashed    : BOOLEAN ]                 \* a null pointer was dereferenced

LifeCycle(c) == metaStateMap[c.state]
Finished(c) == LifeCycle(c) = "FINISHED"

\* Faulty: m_pPeerContactMethod is used where peerContactMethod() is meant.
TargetUnchecked(c) == c.peer

\* peerContactMethod(): the object itself, and the URI it has.
Target(c) == IF c.peer # "none" THEN c.peer
             ELSE IF c.dial # "null" THEN "temporary" ELSE "blank"
TargetUri(c) == IF c.peer # "none" THEN c.peer
                ELSE IF c.dial # "null" THEN c.dial ELSE "empty"

\* IndividualDirectory: the contact method that has a number.
WithNumber(n) == IF n \in Peer THEN n ELSE "blank"

\* Media are appended to lists; two stands for two or more.
OneMore(n) == IF n = 0 THEN 1 ELSE 2

\* Faulty: addActiveCall() does not call removeInitCall().
initMediaOnly(c) == [c EXCEPT !.audio  = OneMore(@),
                              !.active = @ \cup {Target(c)}]

initMedia(c)  == [c EXCEPT !.audio  = OneMore(@),
                           !.active = @ \cup {Target(c)},
                           !.init   = @ \ {Target(c)}]
notifyInit(c) == [c EXCEPT !.init = @ \cup {Target(c)}]
\* Faulty: the audio media are kept, and the active call with them.
terminateText(c) == [c EXCEPT !.text = 0, !.init = @ \ {Target(c)}]

terminateMedia(c) == [c EXCEPT !.audio = 0, !.text = 0,
                               !.init   = @ \ {Target(c)},
                               !.active = @ \ {Target(c)}]

\* m_mLifeCycleStateChanges: the callback of the life cycle state reached.
LifeCycleCallback(c) ==
  CASE LifeCycle(c) = "CREATION"       -> c
    [] LifeCycle(c) = "INITIALIZATION" -> notifyInit(c)
    [] LifeCycle(c) = "PROGRESS"       -> initMedia(c)
    [] LifeCycle(c) = "FINISHED"       -> terminateMedia(c)

\* Faulty: the timer is not deleted when the call is over.
startTimer(c) ==
  [c EXCEPT !.timer = IF LifeCycle(c) \in {"PROGRESS", "INITIALIZATION"}
                      THEN "running" ELSE @]

initTimer(c) ==
  [c EXCEPT !.timer = IF LifeCycle(c) \in {"PROGRESS", "INITIALIZATION"}
                      THEN "running" ELSE "none"]

\* Faulty: the life cycle callback is run at each change of state.
changeAndNotify(c, s) ==
  IF c.state = s THEN c ELSE initTimer(LifeCycleCallback([c EXCEPT !.state = s]))

changeCurrentState(c, s) ==
  LET moved == [c EXCEPT !.state = s]
  IN  CASE c.state = s -> c
        [] c.state # s /\ LifeCycle(moved) = LifeCycle(c) -> initTimer(moved)
        [] c.state # s /\ LifeCycle(moved) # LifeCycle(c)
             -> initTimer(LifeCycleCallback(moved))

\* Deleting the temporary contact method deletes what was registered on it.
DropDialNumber(c) ==
  [c EXCEPT !.dial = "null", !.active = @ \ {"temporary"},
            !.init = @ \ {"temporary"}]

\* The peer replaces the temporary contact method, which is deleted.
ReplaceDialNumber(c) ==
  IF c.dial = "null" THEN c
  ELSE DropDialNumber([c EXCEPT !.peer = IF @ = "none" THEN WithNumber(c.dial)
                                                       ELSE @])

sendProfile(c) == IF HasProfile THEN [c EXCEPT !.text = OneMore(@)] ELSE c

-----------------------------------------------------------------------------
(* The functions that only change the object.                              *)

start(c) == sendProfile(initTimer([ReplaceDialNumber(c) EXCEPT !.start = TRUE]))
startWeird(c) == sendProfile([c EXCEPT !.start = TRUE])
failure(c) == start([c EXCEPT !.missed = TRUE])
stop(c) == [c EXCEPT !.stop = TRUE]
\* m_FailureReason: MISSED also stands for DO_NOT_DISTURB, which only differs
\* by the account's auto answer setting.
startStop(c) ==
  [c EXCEPT !.start = TRUE, !.stop = TRUE, !.missed = TRUE,
            !.reason = IF c.code = "ECONNABORTED" THEN "REFUSED" ELSE "MISSED"]
warning(c) == IF c.state \in {"FAILURE", "ERROR"} THEN stop(c) ELSE c

\* What stateChanged() runs; "error" throws, and the handler forces ERROR.
DaemonCallback(f, c) ==
  CASE f = "start"      -> start(c)
    [] f = "startWeird" -> startWeird(c)
    [] f = "failure"    -> failure(c)
    [] f = "stop"       -> stop(c)
    [] f = "startStop"  -> startStop(c)
    [] f = "warning"    -> warning(c)
    [] f = "error"      -> changeCurrentState(c, "ERROR")
    [] OTHER            -> c

-----------------------------------------------------------------------------
(* How a call comes to exist.                                              *)

\* startStateFromDaemonCallState(): a call connecting is shown by its direction.
startStateFromDaemonCallState(d) ==
  CASE d = "incoming"   -> {"INCOMING"}
    [] d = "connecting" -> {"RINGING"}
    [] d = "ringing"    -> {"RINGING"}
    [] d = "current"    -> {"CURRENT"}
    [] d = "held"       -> {"HOLD"}
    [] d = "ended"      -> {"BUSY", "FAILURE"}

\* buildCall(), for a call that the daemon already has.  A dialing call, which
\* it has not, only knows that the user is the caller.
Built(s, i, p, outgoing, recording) ==
  LET known == i # "none" IN
  initTimer(
    [state |-> s, hold |-> {}, dial |-> "empty", transferTo |-> "null",
     peer |-> p, account |-> known, id |-> i, outgoing |-> outgoing,
     timer |-> "none", start |-> known, stop |-> FALSE, missed |-> FALSE,
     reason |-> "UNSPECIFIED", code |-> "none", recording |-> recording,
     audio |-> 0, text |-> 0, active |-> {}, init |-> {},
     logged |-> FALSE, crashed |-> FALSE])

NoCall == [i \in DaemonId |-> "free"]

\* buildDialingCall().
InitDialing ==
  /\ "dialing" \in Start
  /\ call = Built("NEW", "none", "none", TRUE, {})
  /\ ring = [calls |-> NoCall, queue |-> <<>>]

\* buildIncomingCall(), with the state change that announces the call queued.
InitIncoming ==
  /\ "incoming" \in Start
  /\ \E i \in DaemonId, p \in Peer :
       /\ call = Built("INCOMING", i, p, FALSE, {})
       /\ ring = [calls |-> [NoCall EXCEPT ![i] = "incoming"],
                  queue |-> <<[id |-> i, state |-> "INCOMING",
                               code |-> "none"]>>]

\* buildExistingCall(): a call that another client of the daemon has made.
InitExisting ==
  /\ "existing" \in Start
  /\ \E i \in DaemonId, p \in Peer, outgoing \in BOOLEAN,
        recording \in {{}, {"AUDIO", "VIDEO"}}, d \in Alive \cup {"ended"} :
       /\ \E s \in startStateFromDaemonCallState(d) :
            call = Built(s, i, p, outgoing, recording)
       /\ d = "incoming" => ~outgoing
       /\ d \in {"connecting", "ringing"} => outgoing
       /\ d \notin Established => recording = {}
       /\ ring = [calls |-> [NoCall EXCEPT ![i] = d], queue |-> <<>>]

Init == InitDialing \/ InitIncoming \/ InitExisting

-----------------------------------------------------------------------------
(* What the user performs.  performAction() changes the state, then runs   *)
(* the function of the state it left; there is one action per function.    *)

\* The object after the table has been followed for action a.
Entered(a) == changeCurrentState(call, actionPerformedStateMap[call.state][a])

Performs(a, fs) ==
  /\ ~call.crashed
  /\ Len(ring.queue) < MaxQueue
  /\ a \in Offered[call.state]
  /\ actionPerformedFunctionMap[call.state][a] \in fs

\* abort() is empty: a call that was never placed is only moved.
PerformNothing(a) ==
  /\ Performs(a, {"nothing", "abort"})
  /\ call' = Entered(a)
  /\ UNCHANGED ring

Accept(a) ==
  /\ Performs(a, {"accept"})
  /\ call' = [Entered(a) EXCEPT !.start = TRUE, !.outgoing = FALSE]
  /\ ring' = Accepted(ring, call.id)

\* The daemon refuses to refuse a call that it has forgotten.
Refuse(a) ==
  /\ Performs(a, {"refuse"})
  /\ LET refused == [Entered(a) EXCEPT !.start = TRUE, !.missed = TRUE,
                                       !.reason = "REFUSED"]
     IN  call' = IF Known(ring, call.id) THEN refused
                 ELSE changeCurrentState(refused, "ERROR")
  /\ ring' = Refused(ring, call.id)

AcceptTransfer(a) ==
  /\ Performs(a, {"acceptTransf"})
  /\ call' = Entered(a)
  /\ IF call.transferTo = "null" THEN UNCHANGED ring
     ELSE ring' \in AfterTransfer(Accepted(ring, call.id), call.id)

AcceptHold(a) ==
  /\ Performs(a, {"acceptHold"})
  /\ call' = [Entered(a) EXCEPT !.outgoing = FALSE]
  /\ ring' = Held(Accepted(ring, call.id), call.id)

HangUp(a) ==
  /\ Performs(a, {"hangUp"})
  /\ LET ended == IF Known(ring, call.id) THEN stop(Entered(a))
                  ELSE changeCurrentState(stop(Entered(a)), "OVER")
     IN  call' = [ended EXCEPT !.timer = IF @ = "none" THEN @ ELSE "stopped"]
  /\ ring' = HungUp(ring, call.id)

\* remove(): hang up again, to stop the busy tone.  The states it is run from
\* are FINISHED ones, which its own check requires.
Remove(a) ==
  /\ Performs(a, {"remove"})
  /\ call' = IF Finished(Entered(a)) THEN Entered(a)
             ELSE changeCurrentState(Entered(a), "ERROR")
  /\ ring' = HungUp(ring, call.id)

\* Faulty: the daemon is not asked to hang up.
CancelSilently(a) ==
  /\ Performs(a, {"cancel"})
  /\ call' = Entered(a)
  /\ UNCHANGED ring

Cancel(a) ==
  /\ Performs(a, {"cancel"})
  /\ call' = IF Known(ring, call.id) THEN Entered(a)
             ELSE changeCurrentState(Entered(a), "OVER")
  /\ ring' = HungUp(ring, call.id)

\* Faulty: the daemon is not asked to hold.
HoldSilently(a) ==
  /\ Performs(a, {"hold"})
  /\ call' = [Entered(a) EXCEPT !.hold = @ \cup {"OUT"}]
  /\ UNCHANGED ring

Hold(a) ==
  /\ Performs(a, {"hold"})
  /\ call' = [Entered(a) EXCEPT !.hold = @ \cup {"OUT"}]
  /\ ring' = Held(ring, call.id)

Unhold(a) ==
  /\ Performs(a, {"unhold"})
  /\ call' = [Entered(a) EXCEPT !.hold = @ \ {"OUT"}]
  /\ ring' = Unheld(ring, call.id)

Transfer(a) ==
  /\ Performs(a, {"transfer"})
  /\ IF call.transferTo = "null"
     THEN call' = Entered(a) /\ UNCHANGED ring
     ELSE /\ call' = stop(Entered(a))
          /\ ring' \in AfterTransfer(ring, call.id)

\* toggleAudioRecord() and toggleVideoRecord(): the daemon answers whether it
\* is now recording.
ToggleRecord(a) ==
  /\ Performs(a, {"toggleAudioRecord", "toggleVideoRecord"})
  /\ LET medium == IF a = "RECORD_AUDIO" THEN "AUDIO" ELSE "VIDEO"
     IN  \E on \in BOOLEAN :
           call' = [Entered(a) EXCEPT
                      !.recording = IF on THEN @ \cup {medium}
                                          ELSE @ \ {medium}]
  /\ UNCHANGED ring

\* call(): without a number to call, the call is aborted.
CallNobody(a) ==
  /\ Performs(a, {"call"})
  /\ TargetUri(Entered(a)) \notin Peer
  /\ call' = DropDialNumber(changeCurrentState(Entered(a), "ABORTED"))
  /\ UNCHANGED ring

\* call(): without an account to call with, it throws.
CallWithoutAccount(a) ==
  /\ Performs(a, {"call"})
  /\ "no account" \in Feature
  /\ TargetUri(Entered(a)) \in Peer
  /\ ~call.account
  /\ call' = changeCurrentState(Entered(a), "ERROR")
  /\ UNCHANGED ring

\* Faulty: the state is changed when the daemon answers, not before it is asked.
PlacedUnmoved(a) ==
  ReplaceDialNumber([call EXCEPT !.account = TRUE, !.outgoing = TRUE,
                                 !.start = TRUE])

\* The object when call() asks the daemon: the peer takes the place of the
\* temporary contact method.
Placed(a) ==
  ReplaceDialNumber([Entered(a) EXCEPT !.account = TRUE, !.outgoing = TRUE,
                                       !.start = TRUE])

\* call(): the daemon accepts the call and gives it an identifier, under which
\* the object is registered.
PlaceCall(a) ==
  /\ Performs(a, {"call"})
  /\ TargetUri(Entered(a)) \in Peer
  /\ \E i \in DaemonId :
       /\ ring.calls[i] = "free"
       /\ call' = [Placed(a) EXCEPT !.id = i]
       /\ ring' = Post([ring EXCEPT !.calls[i] = "connecting"], i,
                       "CONNECTING", "none")

\* call(): the daemon cannot create the call.
PlaceCallFails(a) ==
  /\ Performs(a, {"call"})
  /\ "place fails" \in Feature
  /\ TargetUri(Entered(a)) \in Peer
  /\ call' = [changeCurrentState(Placed(a), "FAILURE") EXCEPT !.id = "failed"]
  /\ UNCHANGED ring

Perform(a) ==
  \/ PerformNothing(a) \/ Accept(a) \/ Refuse(a) \/ AcceptTransfer(a)
  \/ AcceptHold(a) \/ HangUp(a) \/ Remove(a) \/ Cancel(a) \/ Hold(a)
  \/ Unhold(a) \/ Transfer(a) \/ ToggleRecord(a) \/ CallNobody(a)
  \/ CallWithoutAccount(a) \/ PlaceCall(a) \/ PlaceCallFails(a)

-----------------------------------------------------------------------------
(* Editing the numbers.                                                    *)

Edits == ~call.crashed /\ "edit" \in Feature

\* An operation through a null pointer.
Crash == call' = [call EXCEPT !.crashed = TRUE]

\* setDialNumber() once the call is known to be in CREATION.
WithDialNumber(c, n) ==
  LET typed == [c EXCEPT !.dial = n]
  IN  CASE n # "empty" /\ c.state = "NEW"     -> changeCurrentState(typed, "DIALING")
        [] n = "empty" /\ c.state = "DIALING" -> changeCurrentState(typed, "NEW")
        [] OTHER -> typed

SetDialNumber(n) ==
  /\ ~call.crashed /\ LifeCycle(call) = "CREATION"
  /\ IF call.dial = "null" THEN Crash ELSE call' = WithDialNumber(call, n)
  /\ UNCHANGED ring

SetPeerContactMethod(p) ==
  /\ ~call.crashed /\ LifeCycle(call) = "CREATION"
  /\ IF call.dial = "null" THEN Crash
     ELSE call' = WithDialNumber([call EXCEPT !.peer = p], p)
  /\ UNCHANGED ring

SetAccount(known) ==
  /\ ~call.crashed /\ LifeCycle(call) = "CREATION"
  /\ call' = [call EXCEPT !.account = known]
  /\ UNCHANGED ring

SetTransferNumber(n) ==
  /\ Edits
  /\ call' = [call EXCEPT !.transferTo = n]
  /\ UNCHANGED ring

\* The keyboard edits the number to transfer to, or the number to dial.
EditsTransfer == Edits /\ call.state \in {"TRANSFERRED", "TRANSF_HOLD"}
EditsDial     == Edits /\ LifeCycle(call) = "CREATION"

\* appendText() of something: the state a first character leads to is reached
\* whatever the number was.
AppendText(n) ==
  /\ \/ /\ EditsTransfer
        /\ call' = [call EXCEPT !.transferTo = IF @ = "null" THEN @ ELSE "set"]
     \/ /\ EditsDial
        /\ call' = changeCurrentState(
                     [call EXCEPT !.dial = IF @ = "null" THEN @ ELSE n],
                     "DIALING")
  /\ UNCHANGED ring

\* backspaceItemText() of an empty number: the call is aborted.
BackspaceNothing ==
  /\ \/ EditsTransfer /\ call.transferTo = "empty"
     \/ EditsDial /\ call.dial = "empty"
  /\ call' = changeCurrentState(call, "ABORTED")
  /\ UNCHANGED ring

\* backspaceItemText(): m_pDialNumber is read, also when it is the number to
\* transfer to that is edited.
BackspaceCrashes ==
  /\ call.dial = "null"
  /\ EditsDial \/ (EditsTransfer /\ call.transferTo = "set")
  /\ Crash
  /\ UNCHANGED ring

\* backspaceItemText(): the number that is left is n, empty or not.
Backspace(n) ==
  /\ call.dial # "null"
  /\ \/ /\ EditsTransfer /\ call.transferTo = "set"
        /\ call' = [call EXCEPT !.transferTo = IF n = "empty" THEN n ELSE "set"]
     \/ /\ EditsDial /\ call.dial \in Peer
        /\ call' = [changeCurrentState(call, "DIALING") EXCEPT !.dial = n]
  /\ UNCHANGED ring

\* reset().
Reset ==
  /\ \/ /\ EditsTransfer
        /\ call' = [call EXCEPT
                      !.transferTo = IF @ = "null" THEN @ ELSE "empty"]
     \/ /\ EditsDial
        /\ call' = [changeCurrentState(call, "NEW") EXCEPT
                      !.dial = IF @ = "null" THEN @ ELSE "empty"]
  /\ UNCHANGED ring

-----------------------------------------------------------------------------
(* What CallModel does to a call.                                          *)

\* attendedTransfer(): one of the two calls.
AttendedTransfer ==
  /\ ~call.crashed /\ "attended" \in Feature
  /\ Known(ring, call.id) /\ Len(ring.queue) < MaxQueue
  /\ call' = changeCurrentState(call, "OVER")
  /\ ring' \in AfterTransfer(ring, call.id)

\* transfer(): the whole sequence, from whatever state the call is in.
UnattendedTransfer ==
  /\ ~call.crashed /\ "transfer" \in Feature
  /\ Known(ring, call.id) /\ Len(ring.queue) < MaxQueue
  /\ LET named   == [call EXCEPT !.transferTo = "set"]
         f       == OnTransfer(call.state)
         left    == changeCurrentState(named,
                      actionPerformedStateMap[call.state]["TRANSFER"])
         shown   == changeCurrentState(IF f = "transfer" THEN stop(left)
                                       ELSE left, "TRANSFERRED")
     IN  /\ call' = changeCurrentState(stop(shown), "OVER")
         /\ ring' \in AfterTransfer(
              IF f = "acceptTransf" THEN Accepted(ring, call.id) ELSE ring,
              call.id)

-----------------------------------------------------------------------------
(* What the daemon reports.                                                *)

toDaemonCallState(s) ==
  CASE s = "HUNGUP"                 -> "HUNG_UP"
    [] s \in {"RINGING", "INCOMING"} -> "RINGING"
    [] s \in {"CURRENT", "UNHOLD"}   -> "CURRENT"
    [] OTHER                        -> s

\* Faulty: the error code of the hang up is ignored.
ReportedBusy(e) ==
  IF RingAccount /\ call.account /\ e.state = "HUNGUP"
  THEN "BUSY" ELSE toDaemonCallState(e.state)

\* The event as slotCallStateChanged() passes it on: a Ring account says BUSY
\* with a hang up that carries a code.
Reported(e) ==
  IF RingAccount /\ call.account /\ e.state = "HUNGUP"
       /\ e.code = "ECONNREFUSED"
  THEN "BUSY" ELSE toDaemonCallState(e.state)

\* The OUT flag follows the state, whatever hold() and unhold() did.
SyncHoldFlag(c) ==
  [c EXCEPT !.hold = IF c.state = "HOLD" THEN @ \cup {"OUT"} ELSE @ \ {"OUT"}]

\* CallPrivate::stateChanged(), on the object c.
stateChanged(c, d) ==
  LET moved == SyncHoldFlag(
                 changeCurrentState(c, stateChangedStateMap[c.state][d]))
      f     == stateChangedFunctionMap[c.state][d]
      done  == DaemonCallback(f, moved)
  IN  IF f = "error" \/ LifeCycle(done) = "CREATION" THEN done
      ELSE ReplaceDialNumber(done)

\* Faulty: only a call that this event has ended enters the calendar.
DeliverOnce ==
  /\ ring.queue # <<>> /\ ~call.crashed
  /\ LET changed == stateChanged(call, Reported(Head(ring.queue)))
     IN  call' = [changed EXCEPT
                    !.logged = @ \/ (Finished(changed) /\ ~Finished(call))]
  /\ ring' = [ring EXCEPT !.queue = Tail(@)]

\* slotCallStateChanged() for a call that is known: all the identifiers the
\* daemon gave to this object lead to it.
Deliver ==
  /\ ring.queue # <<>> /\ ~call.crashed
  /\ LET e       == Head(ring.queue)
         coded   == [call EXCEPT !.code = IF e.code = "none" THEN @ ELSE e.code]
         changed == stateChanged(coded, Reported(e))
     IN  call' = [changed EXCEPT !.logged = @ \/ Finished(changed)]
  /\ ring' = [ring EXCEPT !.queue = Tail(@)]

\* slotPeerHold() and peerHoldChanged(): a flag that only differs is toggled.
PeerHold ==
  /\ ~call.crashed /\ call.id \in DaemonId /\ ring.calls[call.id] \in Established
  /\ call' = [call EXCEPT !.hold = IF "IN" \in @ THEN @ \ {"IN"}
                                                ELSE @ \cup {"IN"}]
  /\ UNCHANGED ring

\* slotRecordStateChanged(): the daemon has one recorder, reported as audio.
RecordStateChanged(on) ==
  /\ ~call.crashed /\ call.id \in DaemonId /\ ring.calls[call.id] \in Established
  /\ call' = [call EXCEPT !.recording = IF on THEN @ \cup {"AUDIO"}
                                              ELSE @ \ {"AUDIO"}]
  /\ UNCHANGED ring

User ==
  \/ \E a \in Action : Perform(a)
  \/ \E n \in Number : SetDialNumber(n) \/ Backspace(n)
  \/ \E p \in Peer : SetPeerContactMethod(p) \/ AppendText(p)
  \/ \E known \in BOOLEAN : SetAccount(known)
  \/ \E n \in {"empty", "set"} : SetTransferNumber(n)
  \/ BackspaceNothing \/ BackspaceCrashes \/ Reset
  \/ AttendedTransfer \/ UnattendedTransfer

Next ==
  \/ User \/ Deliver \/ RingMoves \/ PeerHold
  \/ \E on \in BOOLEAN : RecordStateChanged(on)

Spec == Init /\ [][Next]_vars

\* The event loop runs and the daemon finishes what it has started; neither the
\* user nor the peer has to do anything.
LiveSpec == Spec /\ WF_vars(Deliver) /\ WF_vars(RingIsOver)
=============================================================================
