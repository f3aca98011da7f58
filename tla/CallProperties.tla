--------------------------- MODULE CallProperties ---------------------------
(***************************************************************************)
(* What should be true of a call and of the daemon call it stands for.     *)
(***************************************************************************)
EXTENDS Call, FiniteSets

\* The fields have the values that CallRecord gives them, and the daemon only
\* emits events that the handlers know.
RingRecord == [calls : [DaemonId -> DaemonCall], queue : Seq(Event)]
TypeOK == call \in CallRecord /\ ring \in RingRecord

-----------------------------------------------------------------------------
(* The two sides of the state: the object and the daemon.                  *)

\* Every event has been delivered.
Quiet == ring.queue = <<>>

\* A call that is over for the user is not still running in the daemon: once
\* the events in flight are delivered, no daemon call of an object in a
\* FINISHED state is alive (hangUp(), refuse(), cancel() and the error paths).
NoForgottenDaemonCall ==
  Finished(call) /\ Quiet => \A i \in DaemonId : ring.calls[i] \notin Alive

\* The optimistic update of hold() and unhold() always converges: when nothing
\* is in flight, the state, the OUT flag and the daemon agree on who is held,
\* however fast the user pressed the button.
HoldAgrees ==
  Quiet /\ call.id \in DaemonId /\ call.state \in {"CURRENT", "HOLD"} =>
    /\ call.state = "HOLD" <=> ring.calls[call.id] = "held"
    /\ "OUT" \in call.hold <=> call.state = "HOLD"

\* Whatever way it ended, a call that the daemon has forgotten is over and in
\* the calendar (the last lines of slotCallStateChanged()).
EndedCallIsLogged ==
  Quiet /\ (\E i \in DaemonId : ring.calls[i] = "gone") =>
    Finished(call) /\ call.logged

\* The Q_ASSERT of stateChanged(): the transition that the next daemon event
\* takes is allowed by metaStateTransitionValidationMap.  "It should
\* technically never happen" that it is not (call_p.h).
TransitionIsExpected ==
  ~Quiet =>
    LET to == stateChangedStateMap[call.state][Reported(Head(ring.queue))]
    IN  LifeCycle(call) \in metaStateTransitionValidationMap[to]

\* A call is placed once: performAction() leaves the state in which ACCEPT
\* places it before the daemon is asked.
PlacedOnce == Cardinality({i \in DaemonId : ring.calls[i] # "free"}) <= 1

-----------------------------------------------------------------------------
(* The object and what depends on it.                                      *)

\* The contact methods that list the object c are those that should.
RegisteredOn(c) ==
  CASE LifeCycle(c) = "CREATION"       -> c.active = {} /\ c.init = {}
    [] LifeCycle(c) = "INITIALIZATION" -> c.active = {} /\ c.init \subseteq {Target(c)}
    [] LifeCycle(c) = "PROGRESS"       -> c.active = {Target(c)} /\ c.init = {}
    [] LifeCycle(c) = "FINISHED"       -> c.active = {} /\ c.init = {}

\* The call is registered on its contact method, and only there, for as long
\* as it is starting or active: the contact method, which may be replaced while
\* the call starts, must be the same one when the call is removed from it.
Registered == RegisteredOn(call)

\* What holds of every call, also of one that another client started: once it
\* is over no contact method lists it and no audio is left.
NothingLingers ==
  LifeCycle(call) \in {"CREATION", "FINISHED"} =>
    call.active = {} /\ call.init = {} /\ call.audio = 0

\* The media exist for as long as the call is in progress: they are created on
\* the way in and deleted on the way out, once.
AudioFollowsProgress ==
  call.audio = IF LifeCycle(call) = "PROGRESS" THEN 1 ELSE 0

\* The clock of the call runs until the call ends or is hung up, and a stopped
\* clock means that the time it stopped is known.
ClockIsKept ==
  /\ LifeCycle(call) \in {"INITIALIZATION", "PROGRESS"} <=> call.timer # "none"
  /\ call.timer = "stopped" => call.stop

\* The forward only life cycle, as the rest of the library sees it.
LifeCycles == INSTANCE CallLifeCycle
                WITH stage   <- LifeCycle(call),
                     audio   <- call.audio # 0,
                     history <- call.logged
ImplementsLifeCycle == LifeCycles!Spec

-----------------------------------------------------------------------------
(* What must happen, under the fairness of LiveSpec.                       *)

\* The object catches up with the daemon: a call that is answered is shown in
\* progress, unless it ends first, and one that ended is shown finished.
CatchesUp ==
  \A i \in DaemonId :
    /\ ring.calls[i] = "current" ~> LifeCycle(call) \in {"PROGRESS", "FINISHED"}
    /\ ring.calls[i] = "ended" ~> Finished(call) /\ call.logged
=============================================================================
