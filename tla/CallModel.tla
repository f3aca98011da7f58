----------------------------- MODULE CallModel -----------------------------
(***************************************************************************)
(* The list of calls and conferences, src/src/callmodel.cpp.               *)
(*                                                                         *)
(* The model keeps a list of rows; a row is a call, or a conference whose  *)
(* children are calls.  It learns of calls and conferences from daemon     *)
(* signals that are queued, and of their ends from the objects themselves, *)
(* whose removal it puts off twice with timers.  A handler reads the daemon*)
(* as it is when the signal is handled, not as it was when it was emitted. *)
(*                                                                         *)
(* What a call does is reduced to the tables of CallStates and to the      *)
(* missed flag, which is what decides whether it stays in the list; Call   *)
(* is the detailed model of it.                                            *)
(***************************************************************************)
EXTENDS CallStates, Naturals, Sequences, SequencesExt, FiniteSets

CONSTANTS
  CallId,       \* the identifiers the daemon may give to a call
  ConfId,       \* the identifiers the daemon may give to a conference
  Running,      \* the calls that are established when the library starts
  Source,       \* where the other calls come from
  Endings,      \* the states in which the daemon ends a call
  AutoAnswers,  \* the values that autoAnswerStatus() of the account may have
  EarlySignals, \* whether the daemon may act before its calls are listed
  MaxCalls,     \* no call is dialed when there are that many objects
  MaxQueue      \* no request or daemon move with that many signals and timers
                \* pending

ASSUME CallIdAssumption ==
  /\ IsFiniteSet(CallId) /\ IsFiniteSet(ConfId)
  /\ CallId \cap ConfId = {} /\ "" \notin CallId \cup ConfId
ASSUME RunningAssumption == Running \subseteq CallId
ASSUME SourceAssumption == Source \subseteq {"dialed", "received", "foreign"}
ASSUME EndingsAssumption == Endings \subseteq {"HUNGUP", "FAILURE"}
ASSUME AutoAnswersAssumption ==
  AutoAnswers \subseteq {"MANUAL", "AUTO_ANSWER", "DO_NOT_DISTURB"}
ASSUME EarlySignalsAssumption == EarlySignals \in BOOLEAN
ASSUME BoundsAssumption == MaxCalls \in Nat /\ MaxQueue \in Nat

VARIABLES
  model,        \* CallModelPrivate and the objects it holds
  ring          \* the daemon: calls, conferences, signals not yet delivered

vars == <<model, ring>>

-----------------------------------------------------------------------------
(* The daemon, which is external.                                          *)

Alive == {"incoming", "connecting", "ringing", "current"}
DaemonCall == Alive \cup {"free", "ended", "gone"}

Known(d, i) == i \in CallId /\ d.calls[i] \in Alive \cup {"ended"}

Emit(d, signal, i, state) ==
  [d EXCEPT !.queue = Append(@, [signal |-> signal, id |-> i, state |-> state])]

\* getParticipantList().
Participants(d, f) == SetToSeq(d.parts[f])

\* The conferences that call i takes part in.
ConferencesOf(d, i) == {f \in ConfId : i \in d.parts[f]}

\* Call i leaves its conference, which is reported.
Leaves(d, i) ==
  IF ConferencesOf(d, i) = {} THEN d
  ELSE LET f == CHOOSE f \in ConferencesOf(d, i) : TRUE
       IN  Emit([d EXCEPT !.parts[f] = @ \ {i}], "conferenceChanged", f, "")

Moved(d, i, to, state) ==
  Emit([d EXCEPT !.calls[i] = to], "callStateChanged", i, state)

Ended(d, i, state) == Moved(Leaves(d, i), i, "ended", state)

Accepted(d, i) ==
  IF Known(d, i) /\ d.calls[i] = "incoming" THEN Moved(d, i, "current", "CURRENT")
                                            ELSE d
HungUp(d, i) ==
  IF Known(d, i) /\ d.calls[i] \in Alive THEN Ended(d, i, "HUNGUP") ELSE d

HungUpConference(d, f) ==
  FoldLeft(LAMBDA done, i : Moved(done, i, "ended", "HUNGUP"),
           [d EXCEPT !.parts[f] = {}], SetToSeq(d.parts[f]))

\* Two calls that are in no conference are joined.
Joined(d, i, j) ==
  IF /\ \A k \in {i, j} : d.calls[k] = "current" /\ ConferencesOf(d, k) = {}
     /\ \E f \in ConfId : d.confs[f] = "free"
  THEN LET f == CHOOSE f \in ConfId : d.confs[f] = "free"
       IN  Emit([d EXCEPT !.confs[f] = "live", !.parts[f] = {i, j}],
                "conferenceCreated", f, "")
  ELSE d

\* The participants of f become participants of g.
Merged(d, f, g) ==
  IF \A h \in {f, g} : d.confs[h] = "live" /\ d.parts[h] # {}
  THEN Emit(Emit([d EXCEPT !.confs[f] = "removed", !.parts[f] = {},
                           !.parts[g] = @ \cup d.parts[f]],
                 "conferenceChanged", g, ""),
            "conferenceRemoved", f, "")
  ELSE d

\* The bound: signals and timers pending when the user or the daemon acts.
RoomInQueue ==
  /\ model.started \/ EarlySignals
  /\ Len(ring.queue) + Len(model.checks) + Len(model.removals) < MaxQueue

\* A call comes in.  The two signals that announce it race.
RingReceives ==
  /\ RoomInQueue /\ "received" \in Source
  /\ \E i \in CallId :
       /\ ring.calls[i] = "free"
       /\ LET announced == Emit([ring EXCEPT !.calls[i] = "incoming"],
                                "incomingCall", i, "")
          IN  ring' \in {Moved(announced, i, "incoming", "INCOMING"),
                         [Moved(ring, i, "incoming", "INCOMING")
                            EXCEPT !.late = @ \cup {i}]}
  /\ UNCHANGED model

RingAnnouncesLate ==
  /\ RoomInQueue
  /\ \E i \in ring.late :
       ring' = Emit([ring EXCEPT !.late = @ \ {i}], "incomingCall", i, "")
  /\ UNCHANGED model

\* Another client of the daemon makes a call.
RingDials ==
  /\ RoomInQueue /\ "foreign" \in Source
  /\ \E i \in CallId : ring.calls[i] = "free" /\ ring' = Moved(ring, i, "connecting", "CONNECTING")
  /\ UNCHANGED model

\* A call goes on, ends, or is forgotten.
RingMoves ==
  /\ RoomInQueue
  /\ \E i \in CallId :
       \/ ring.calls[i] = "connecting" /\ ring' = Moved(ring, i, "ringing", "RINGING")
       \/ ring.calls[i] = "ringing" /\ ring' = Moved(ring, i, "current", "CURRENT")
       \/ ring.calls[i] \in Alive
            /\ \E s \in Endings : ring' = Ended(ring, i, s)
  /\ UNCHANGED model

RingForgets ==
  /\ RoomInQueue
  /\ \E i \in CallId : ring.calls[i] = "ended" /\ ring' = Moved(ring, i, "gone", "OVER")
  /\ UNCHANGED model

\* A conference that has one participant left, or none, is over.
RingDissolves ==
  /\ RoomInQueue
  /\ \E f \in ConfId :
       /\ ring.confs[f] = "live" /\ Cardinality(ring.parts[f]) < 2
       /\ ring' = Emit([ring EXCEPT !.confs[f] = "removed", !.parts[f] = {}],
                       "conferenceRemoved", f, "")
  /\ UNCHANGED model

\* Another client adds a call to a conference that is not empty.
RingAdds ==
  /\ RoomInQueue /\ "foreign" \in Source
  /\ \E i \in CallId, f \in ConfId :
       /\ ring.calls[i] = "current" /\ ConferencesOf(ring, i) = {}
       /\ ring.confs[f] = "live" /\ ring.parts[f] # {}
       /\ ring' = Emit([ring EXCEPT !.parts[f] = @ \cup {i}],
                       "conferenceChanged", f, "")
  /\ UNCHANGED model

-----------------------------------------------------------------------------
(* The objects and the rows.  Zero is the null pointer.                    *)

LifeCycle(m, o) == metaStateMap[m.call[o].state]
IsConference(m, o) == m.call[o].type = "CONFERENCE"

\* The elements of s that are in T, in their order.
Among(s, T) ==
  FoldLeft(LAMBDA kept, x : IF x \in T THEN Append(kept, x) ELSE kept, <<>>, s)

NewCall(type, id, state) ==
  [type |-> type, id |-> id, state |-> state, missed |-> FALSE,
   parent |-> 0, children |-> <<>>]

\* getActiveCalls().
Listed(m) ==
  ToSet(m.rows) \cup UNION {ToSet(m.call[o].children) : o \in ToSet(m.rows)}

\* addCall2(): a call that is already over is known, but not listed.
addCall(m, c) ==
  LET o == Len(m.call) + 1
  IN  [m EXCEPT !.call = Append(@, c),
                !.rows = IF metaStateMap[c.state] = "FINISHED" THEN @
                         ELSE Append(@, o),
                !.known = IF c.id = "" THEN @ ELSE [@ EXCEPT ![c.id] = o]]

removeInternal(m, o) == [m EXCEPT !.rows = RemoveFirst(@, o)]

\* A row removed, its children put back "if they are not really over".
Restored(m, o) ==
  LET left == removeInternal(m, o)
      back == {c \in DOMAIN m.call : m.call[c].state \notin {"OVER", "ERROR"}}
  IN  [left EXCEPT !.rows = @ \o Among(m.call[o].children, back)]

\* Put off the removal of an object.
Schedule(m, o) == [m EXCEPT !.checks = Append(@, o)]

\* A conference that "the daemon often fail to emit the right signal" for.
Hollow(m, o) ==
  LET kids == m.call[o].children IN
  /\ IsConference(m, o)
  /\ \/ kids = <<>>
     \/ m.call[Head(kids)].state = "ERROR" \/ m.call[Last(kids)].state = "ERROR"

\* changeCurrentState(OVER) of a conference, and slotCallChanged().
EndConference(m, o) ==
  IF m.call[o].state = "OVER" THEN m
  ELSE Schedule([m EXCEPT !.call[o].state = "OVER"], o)

\* The loop of removeCall().  The one it starts for each conference it removes
\* finds the next one, so that one pass removes them all.
Sweep(m) ==
  FoldLeft(LAMBDA done, o : EndConference(Restored(done, o), o),
           m, Among(m.rows, {o \in DOMAIN m.call : Hollow(m, o)}))

removeCall(m, o) == Sweep(Restored(m, o))
removeConference(m, o) == EndConference(removeCall(m, o), o)

\* Faulty: a call that is over is removed at once, missed or not.
slotCallChangedAtOnce(m, o) ==
  IF m.call[o].state \in {"ERROR", "ABORTED", "OVER"} THEN removeCall(m, o) ELSE m

slotCallChanged(m, o) ==
  CASE m.call[o].state = "ERROR"               -> removeCall(m, o)
    [] m.call[o].state \in {"ABORTED", "OVER"} -> Schedule(m, o)
    [] OTHER                                   -> m

\* changeCurrentState(), and the slot that its signal is connected to.
SetState(m, o, s) ==
  IF m.call[o].state = s THEN m
  ELSE slotCallChanged([m EXCEPT !.call[o].state = s], o)

SetMissed(m, o) == [m EXCEPT !.call[o].missed = TRUE]

-----------------------------------------------------------------------------
(* What the user does.                                                     *)

\* What performAction() does to object o of the model m and to the daemon d.
Performed(m, d, o, a) ==
  LET c       == m.call[o]
      f       == actionPerformedFunctionMap[c.state][a]
      entered == SetState(m, o, actionPerformedStateMap[c.state][a])
      found   == IF IsConference(m, o) THEN d.confs[c.id] = "live"
                                       ELSE Known(d, c.id)
      hungUp  == IF IsConference(m, o) THEN HungUpConference(d, c.id)
                                       ELSE HungUp(d, c.id)
  IN  CASE f = "accept" -> [model |-> entered, ring |-> Accepted(d, c.id)]
        [] f = "refuse" ->
             [model |-> IF found THEN SetMissed(entered, o)
                        ELSE SetState(SetMissed(entered, o), o, "ERROR"),
              ring  |-> IF Known(d, c.id) /\ d.calls[c.id] = "incoming"
                        THEN hungUp ELSE d]
        [] f \in {"hangUp", "cancel"} ->
             [model |-> IF found THEN entered ELSE SetState(entered, o, "OVER"),
              ring  |-> hungUp]
        [] f = "remove" ->
             [model |-> slotCallChanged(entered, o), ring |-> hungUp]
        [] OTHER -> [model |-> entered, ring |-> d]

\* dialingCall() of a contact method: a call that is being dialed is reused.
DialingCall ==
  /\ ~model.crashed /\ "dialed" \in Source
  /\ Len(model.call) < MaxCalls
  /\ \A o \in Listed(model) : LifeCycle(model, o) # "CREATION"
  /\ model' = addCall(model, NewCall("CALL", "", "DIALING"))
  /\ UNCHANGED ring

\* Faulty: the call is not registered under the identifier it is given.
PlaceCallUnregistered(o) ==
  /\ ~model.crashed /\ RoomInQueue
  /\ model.call[o].state = "DIALING"
  /\ \E i \in CallId :
       /\ ring.calls[i] = "free"
       /\ model' = [SetState(model, o, "INITIALIZATION") EXCEPT !.call[o].id = i]
       /\ ring' = Moved(ring, i, "connecting", "CONNECTING")

\* ACCEPT of a dialing call: call(), then registerCall().
PlaceCall(o) ==
  /\ ~model.crashed /\ RoomInQueue
  /\ model.call[o].state = "DIALING"
  /\ \E i \in CallId :
       /\ ring.calls[i] = "free"
       /\ model' = [SetState(model, o, "INITIALIZATION")
                      EXCEPT !.call[o].id = i, !.known[i] = o]
       /\ ring' = Moved(ring, i, "connecting", "CONNECTING")

\* ACCEPT of an incoming call, and hanging up a call or a conference.
PerformAction(o, a) ==
  /\ ~model.crashed /\ RoomInQueue
  /\ \/ a = "ACCEPT" /\ model.call[o].state = "INCOMING"
     \/ a = "REFUSE" /\ model.call[o].state \notin {"OVER", "ABORTED"}
  /\ LET done == Performed(model, ring, o, a)
     IN  model' = done.model /\ ring' = done.ring

\* createJoinOrMergeConferenceFromCall(), of two calls.
JoinCalls(o, p) ==
  /\ ~model.crashed /\ RoomInQueue
  /\ o # p
  /\ \A c \in {o, p} : ~IsConference(model, c) /\ model.call[c].id # ""
                       /\ LifeCycle(model, c) # "CREATION"
  /\ ring' = Joined(ring, model.call[o].id, model.call[p].id)
  /\ UNCHANGED model

DetachParticipant(o) ==
  /\ ~model.crashed /\ RoomInQueue
  /\ model.call[o].id \in CallId
  /\ ring' = Leaves(ring, model.call[o].id)
  /\ UNCHANGED model

MergeConferences(o, p) ==
  /\ ~model.crashed /\ RoomInQueue
  /\ o # p /\ IsConference(model, o) /\ IsConference(model, p)
  /\ ring' = Merged(ring, model.call[o].id, model.call[p].id)
  /\ UNCHANGED model

-----------------------------------------------------------------------------
(* What the daemon reports.                                                *)

\* addIncomingCall(): the object is built unless it exists, and answered.
addIncomingCall(m, d, i) ==
  LET unknown == m.known[i] = 0
      built   == IF unknown THEN addCall(m, NewCall("CALL", i, "INCOMING")) ELSE m
      action  == IF m.answer = "AUTO_ANSWER" THEN "ACCEPT" ELSE "REFUSE"
  IN  IF unknown /\ ~Known(d, i) THEN [model |-> m, ring |-> d]
      ELSE IF m.answer = "MANUAL" THEN [model |-> built, ring |-> d]
      ELSE Performed(built, d, built.known[i], action)

\* startStateFromDaemonCallState().
StartState(d, i) ==
  CASE d.calls[i] = "incoming"                 -> "INCOMING"
    [] d.calls[i] \in {"connecting", "ringing"} -> "RINGING"
    [] d.calls[i] = "current"                  -> "CURRENT"
    [] d.calls[i] = "ended"                    -> "FAILURE"

addExistingCall(m, d, i) ==
  IF Known(d, i) THEN addCall(m, NewCall("CALL", i, StartState(d, i))) ELSE m

toDaemonCallState(s) ==
  CASE s = "HUNGUP"   -> "HUNG_UP"
    [] s = "INCOMING" -> "RINGING"
    [] OTHER          -> s

\* CallPrivate::stateChanged(): the table, the callbacks that mark the call as
\* missed, and the signal that it has changed.
stateChanged(m, o, s) ==
  LET d     == toDaemonCallState(s)
      f     == stateChangedFunctionMap[m.call[o].state][d]
      moved == SetState(m, o, stateChangedStateMap[m.call[o].state][d])
  IN  CASE f = "error" -> SetState(moved, o, "ERROR")
        [] f \in {"failure", "startStop"} -> slotCallChanged(SetMissed(moved, o), o)
        [] OTHER -> slotCallChanged(moved, o)

\* slotCallStateChanged() of a call that is known.
CallStateChanged(m, o, s) ==
  LET was  == m.call[o].state
      done == stateChanged(m, o, s)
      over == done.call[o].state = "OVER"
  IN  IF s = "HUNGUP" \/ (over /\ (was = "OVER" \/ metaStateMap[was] # "FINISHED"))
      THEN Schedule(done, o) ELSE done

\* Faulty: a call that was not announced is ignored, however it changes.
slotKnownCallStateChanged(m, d, i, s) ==
  IF m.known[i] # 0 THEN [model |-> CallStateChanged(m, m.known[i], s), ring |-> d]
                    ELSE [model |-> m, ring |-> d]

slotCallStateChanged(m, d, i, s) ==
  CASE m.known[i] # 0 -> [model |-> CallStateChanged(m, m.known[i], s), ring |-> d]
    [] m.known[i] = 0 /\ s = "CONNECTING" -> [model |-> m, ring |-> d]
    [] m.known[i] = 0 /\ s \in {"INCOMING", "RINGING"} -> addIncomingCall(m, d, i)
    [] OTHER -> [model |-> addExistingCall(m, d, i), ring |-> d]

\* Faulty: the participant is not told its parent.
AdoptUnknowing(m, o, c) ==
  [removeInternal(m, c) EXCEPT !.call[o].children = Append(Remove(@, c), c)]

\* Faulty: the participant and its conference are swapped.
AdoptBackwards(m, o, c) ==
  [removeInternal(m, c) EXCEPT !.call[o].parent = c, !.call[c].children = Append(@, o)]

\* A participant becomes a child of its conference, and of no other.
Adopt(m, o, c) ==
  LET from == m.call[c].parent
      left == IF from \in {0, o} THEN m
              ELSE [m EXCEPT !.call[from].children = Among(@, DOMAIN m.call \ {c})]
      kids == left.call[o].children
  IN  [removeInternal(left, c) EXCEPT
         !.call[c].parent = o,
         !.call[o].children = IF Contains(kids, c) THEN kids ELSE Append(kids, c)]

\* The participants that the model knows become the children of o.
AdoptAll(m, o, ids) ==
  FoldLeft(LAMBDA done, i : IF done.known[i] = 0 THEN done
                            ELSE Adopt(done, o, done.known[i]), m, ids)

Crash(m) == [m EXCEPT !.crashed = TRUE]

\* addConference() returns a null pointer when there is no first participant to
\* take the account from.
NoAccount(m, d, f) ==
  Participants(d, f) = <<>> \/ m.known[Head(Participants(d, f))] = 0

addConference(m, d, f) ==
  IF NoAccount(m, d, f) THEN m
  ELSE LET added == addCall(m, NewCall("CONFERENCE", f, "CONFERENCE"))
       IN  AdoptAll(added, added.known[f], Participants(d, f))

slotIncomingConference(m, d, f) ==
  CASE m.known[f] # 0                      -> m
    [] m.known[f] = 0 /\ NoAccount(m, d, f) -> Crash(m)
    [] OTHER                               -> addConference(m, d, f)

\* Faulty: the old participants are not put back.
DropChildrenSilently(m, o, ids) == [m EXCEPT !.call[o].children = <<>>]

\* "First remove old participants, add them back to the top level list".
DropChildren(m, o, ids) ==
  LET back == Among(m.call[o].children,
                    {c \in DOMAIN m.call : m.call[c].id \notin ToSet(ids)
                                             /\ LifeCycle(m, c) # "FINISHED"})
      freed == FoldLeft(LAMBDA done, c : [done EXCEPT !.call[c].parent = 0], m, back)
  IN  [freed EXCEPT !.rows = @ \o back, !.call[o].children = <<>>]

\* "Test if there is no inconsistencies between the daemon and the client".
Reconcile(m, d, i) ==
  LET c    == m.known[i]
      fs   == ConferencesOf(d, i)
      conf == IF fs = {} THEN 0 ELSE m.known[CHOOSE f \in fs : TRUE]
      kids == m.call[conf].children
  IN  CASE c = 0 \/ ~Known(d, i) -> m
        [] c # 0 /\ Known(d, i) /\ m.call[c].parent # 0 ->
             IF fs = {} THEN [m EXCEPT !.call[c].parent = 0] ELSE m
        [] OTHER ->
             IF conf = 0 THEN m
             ELSE [removeInternal(m, c) EXCEPT !.call[conf].children =
                     IF Contains(kids, c) THEN kids ELSE Append(kids, c)]

slotChangingConference(m, d, f) ==
  LET o       == m.known[f]
      ids     == Participants(d, f)
      changed == DropChildren([m EXCEPT !.call[o].state = "CONFERENCE"], o, ids)
      adopted == AdoptAll(changed, o, ids)
      swept   == IF \E r \in ToSet(adopted.rows) :
                      IsConference(adopted, r) /\ adopted.call[r].children = <<>>
                 THEN Sweep(adopted) ELSE adopted
  IN  IF o = 0 \/ ~Contains(m.rows, o) THEN m
      ELSE FoldLeft(LAMBDA done, i : Reconcile(done, d, i), swept, SetToSeq(CallId))

slotConferenceRemoved(m, f) ==
  IF m.known[f] = 0 THEN Crash(m) ELSE removeConference(m, m.known[f])

Delivered(m, d, e) ==
  CASE e.signal = "callStateChanged"  -> slotCallStateChanged(m, d, e.id, e.state)
    [] e.signal = "incomingCall"      -> addIncomingCall(m, d, e.id)
    [] e.signal = "conferenceCreated" ->
         [model |-> slotIncomingConference(m, d, e.id), ring |-> d]
    [] e.signal = "conferenceChanged" ->
         [model |-> slotChangingConference(m, d, e.id), ring |-> d]
    [] e.signal = "conferenceRemoved" ->
         [model |-> slotConferenceRemoved(m, e.id), ring |-> d]

\* The timer of init() lists what the daemon already has.
Start ==
  /\ ~model.started /\ ~model.crashed
  /\ LET calls == SetToSeq({i \in CallId : Known(ring, i)})
         confs == SetToSeq({f \in ConfId : ring.confs[f] = "live"})
         added == FoldLeft(LAMBDA m, i : addExistingCall(m, ring, i), model, calls)
         done  == FoldLeft(LAMBDA m, f : addConference(m, ring, f), added, confs)
     IN  model' = [done EXCEPT !.started = TRUE]
  /\ UNCHANGED ring

Deliver ==
  /\ ~model.crashed /\ ring.queue # <<>>
  /\ LET done == Delivered(model, [ring EXCEPT !.queue = Tail(@)], Head(ring.queue))
     IN  model' = done.model /\ ring' = done.ring

\* Faulty: the second timer is not started.
CheckOnce ==
  /\ ~model.crashed /\ model.checks # <<>>
  /\ LET o    == Head(model.checks)
         rest == [model EXCEPT !.checks = Tail(@)]
     IN  model' = IF rest.call[o].state = "ABORTED" THEN removeCall(rest, o) ELSE rest
  /\ UNCHANGED ring

\* The first of the two timers: a missed call stays in the list.
Check ==
  /\ ~model.crashed /\ model.checks # <<>>
  /\ LET o    == Head(model.checks)
         rest == [model EXCEPT !.checks = Tail(@)]
     IN  model' = CASE rest.call[o].state = "ABORTED" -> removeCall(rest, o)
                    [] rest.call[o].state # "ABORTED" /\ ~rest.call[o].missed
                         -> [rest EXCEPT !.removals = Append(@, o)]
                    [] OTHER -> rest
  /\ UNCHANGED ring

\* The second one, after m_AutoCleanDelay.
AutoClean ==
  /\ ~model.crashed /\ model.removals # <<>>
  /\ model' = removeCall([model EXCEPT !.removals = Tail(@)], Head(model.removals))
  /\ UNCHANGED ring

-----------------------------------------------------------------------------

Init ==
  /\ \E answer \in AutoAnswers :
       model = [call |-> <<>>, rows |-> <<>>,
                known |-> [i \in CallId \cup ConfId |-> 0],
                checks |-> <<>>, removals |-> <<>>,
                answer |-> answer, started |-> FALSE, crashed |-> FALSE]
  /\ ring = [calls |-> [i \in CallId |->
                          IF i \in Running THEN "current" ELSE "free"],
             confs |-> [f \in ConfId |-> "free"],
             parts |-> [f \in ConfId |-> {}],
             late |-> {}, queue |-> <<>>]

User ==
  \/ DialingCall
  \/ \E o \in Listed(model) :
       \/ PlaceCall(o) \/ DetachParticipant(o)
       \/ \E a \in {"ACCEPT", "REFUSE"} : PerformAction(o, a)
       \/ \E p \in Listed(model) : JoinCalls(o, p) \/ MergeConferences(o, p)

Ring == \/ RingReceives \/ RingAnnouncesLate \/ RingDials \/ RingMoves
        \/ RingForgets \/ RingDissolves \/ RingAdds

Next == Start \/ User \/ Ring \/ Deliver \/ Check \/ AutoClean

Spec == Init /\ [][Next]_vars
=============================================================================
