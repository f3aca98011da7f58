------------------------------ MODULE Selection ------------------------------
(***************************************************************************)
(* What a QML client shows: an individual, one of its contact methods and  *)
(* a call, kept together by SharedModelLocker                              *)
(* (src/libringqtquick/src/sharedmodellocker.cpp).  The user selects any   *)
(* of the three; the call model asks for attention when a call is placed   *)
(* or received; calls come and go on their own.                            *)
(*                                                                         *)
(* The handlers call each other, and selecting one thing may change the    *)
(* others several times: each handler is a function from a selection to    *)
(* the next, with the name it has in the code, given the calls.            *)
(***************************************************************************)
EXTENDS Naturals, Sequences

CONSTANTS
  Individual,    \* the people
  ContactMethod, \* their addresses
  IndividualOf,  \* whose address a contact method is
  Call,          \* the calls of a session
  PeerOf,        \* the contact method that a call is made with
  AutoAnswered,  \* the calls of an account that accepts or refuses by itself
  None           \* a null pointer

ASSUME IndividualOfAll == IndividualOf \in [ContactMethod -> Individual]
ASSUME PeerOfAll == PeerOf \in [Call -> ContactMethod]
ASSUME AutoAnsweredAreCalls == AutoAnswered \subseteq Call
ASSUME NoneIsNothing == None \notin Individual \cup ContactMethod \cup Call

\* The life of a call, as far as the selection can tell; NONE is not made yet.
CallState == {"NONE", "DIALING", "INITIALIZATION", "PROGRESS", "FINISHED"}

VARIABLES
  calls,    \* the CallModel: the state of each call, those listed, in their order, and those
            \* whose incomingCall signal is late
  followed, \* the calls whose stateChanged is connected to slotCallRemoved
  selected  \* the selection, see Init

vars == <<calls, followed, selected>>

Caller(c) == IndividualOf[PeerOf[c]]

IsActive(cs, c) == cs.state[c] \in {"INITIALIZATION", "PROGRESS"}
-----------------------------------------------------------------------------
\* CallModel::firstActiveCall(): the first listed call with i that is neither over nor
\* dialing.
FaultyfirstActiveCall(cs, i) == \* Faulty: a call that is over is active too.
  LET With(c) == cs.state[c] # "DIALING" /\ Caller(c) = i
      first   == {k \in 1..Len(cs.list) :
                    With(cs.list[k]) /\ \A j \in 1..(k - 1) : ~With(cs.list[j])}
  IN  IF first = {} THEN None ELSE cs.list[CHOOSE k \in first : TRUE]

firstActiveCall(cs, i) ==
  LET With(c) == IsActive(cs, c) /\ Caller(c) = i
      first   == {k \in 1..Len(cs.list) :
                    With(cs.list[k]) /\ \A j \in 1..(k - 1) : ~With(cs.list[j])}
  IN  IF first = {} THEN None ELSE cs.list[CHOOSE k \in first : TRUE]

replaceContactMethod(s, cm) == [s EXCEPT !.contactMethod = cm]

\* The contact method follows a call of somebody else than the selected individual,
\* or stands in if there is none.
replaceCall(s, c) ==
  LET called == [s EXCEPT !.call = c]
  IN  IF c # None /\ (Caller(c) # s.individual \/ s.contactMethod = None)
        THEN replaceContactMethod(called, PeerOf[c])
        ELSE called

\* Its test for the same individual compares a private object with a public one, and
\* never succeeds.
replaceIndividual(cs, s, i) ==
  LET chosen == [s EXCEPT !.individual = i]
      active == firstActiveCall(cs, i)
  IN  IF active = None THEN chosen ELSE replaceCall(chosen, active)

\* The call is compared with the individual that was selected; without one, by a null
\* pointer.
FaultysetIndividual(cs, s, i) == \* Faulty: the contact method of the last one stays.
  replaceIndividual(cs, [s EXCEPT !.timeline = i], i)

setIndividual(cs, s, i) ==
  LET addressed == IF s.contactMethod # None /\ IndividualOf[s.contactMethod] # i
                     THEN replaceContactMethod(s, None) ELSE s
      shared    == [addressed EXCEPT !.timeline = i]
      hungUp    == IF s.call # None /\ Caller(s.call) # s.individual
                     THEN replaceCall(shared, None) ELSE shared
  IN  IF s.call # None /\ s.individual = None
        THEN [shared EXCEPT !.crashed = TRUE]
        ELSE replaceIndividual(cs, hungUp, i)

FaultysetContactMethod(cs, s, cm) == \* Faulty: the timeline of the last one stays.
  IF cm = s.contactMethod THEN s
  ELSE replaceContactMethod(replaceIndividual(cs, s, IndividualOf[cm]), cm)

setContactMethod(cs, s, cm) ==
  LET i      == IndividualOf[cm]
      hungUp == IF s.call # None /\ PeerOf[s.call] # cm THEN replaceCall(s, None) ELSE s
      shared == [hungUp EXCEPT !.timeline = i]
  IN  IF cm = s.contactMethod THEN s
      ELSE replaceContactMethod(replaceIndividual(cs, shared, i), cm)

setPerson(cs, s, i) == replaceContactMethod(replaceIndividual(cs, s, i), None)

setCall(cs, s, c) ==
  LET called == replaceCall(s, c)
      shown  == IF called.individual # Caller(c) THEN setIndividual(cs, called, Caller(c))
                ELSE called
  IN  IF shown.crashed THEN shown ELSE setContactMethod(cs, shown, PeerOf[c])

\* slotCallAdded(): the selected individual has a new call.
slotCallAdded(cs, s, c) ==
  IF IsActive(cs, c) /\ (s.call # None => cs.state[s.call] # "PROGRESS")
    THEN replaceCall(s, c) ELSE s

\* slotCallRemoved(): a call that is followed has changed its state.
slotCallRemoved(cs, s) ==
  IF s.call # None /\ cs.state[s.call] = "FINISHED" THEN replaceCall(s, None) ELSE s
-----------------------------------------------------------------------------
Init ==
  /\ calls = [state |-> [c \in Call |-> "NONE"], list |-> <<>>, late |-> {}]
  /\ followed = {}
  /\ selected = [individual    |-> None,   \* m_pIndividual
                 contactMethod |-> None,   \* m_pContactMethod
                 call          |-> None,   \* m_pCall
                 timeline      |-> None,   \* whose m_TimelineModel
                 views         |-> None,   \* whose m_CallsModel
                 crashed       |-> FALSE]  \* a null pointer was used

\* The user selects an individual, or, while there is none, the constructor's timer and
\* what it waits for (the most recent individual) do.
SelectIndividual(i) ==
  /\ selected' = setIndividual(calls, selected, i)
  /\ UNCHANGED <<calls, followed>>

SelectContactMethod(cm) ==
  /\ selected' = setContactMethod(calls, selected, cm)
  /\ UNCHANGED <<calls, followed>>

SelectPerson(i) ==
  /\ selected' = setPerson(calls, selected, i)
  /\ UNCHANGED <<calls, followed>>

\* The client selects a call, in any state (the property that it writes refuses none).
SelectCall(c) ==
  /\ calls.state[c] # "NONE"
  /\ selected' = setCall(calls, selected, c)
  /\ UNCHANGED <<calls, followed>>

\* unsortedListView() is read, and what it gives is kept from then on.
FaultyReadViews == \* Faulty: the view of the contact method.
  /\ selected.individual # None
  /\ selected.views = None
  /\ selected' = [selected EXCEPT !.views = selected.contactMethod]
  /\ UNCHANGED <<calls, followed>>

ReadViews ==
  /\ selected.individual # None
  /\ selected.views = None
  /\ selected' = [selected EXCEPT !.views = selected.individual]
  /\ UNCHANGED <<calls, followed>>
-----------------------------------------------------------------------------
\* CallModel::dialingCall() and Call::setPeerContactMethod(); one at a time.
Dial(c) ==
  /\ calls.state[c] = "NONE"
  /\ \A d \in Call : calls.state[d] # "DIALING"
  /\ calls' = [calls EXCEPT !.state[c] = "DIALING", !.list = Append(@, c)]
  /\ UNCHANGED <<followed, selected>>

\* ContactMethod::addCall(): the new call is followed if its individual is selected.
Follows(s, c) == Caller(c) = s.individual

\* Call::performAction(ACCEPT): attention is requested when the state changes, then the
\* call is placed and added to its contact method.
Place(c) ==
  /\ calls.state[c] = "DIALING"
  /\ calls' = [calls EXCEPT !.state[c] = "INITIALIZATION"]
  /\ LET shown == setCall(calls', selected, c)
     IN  IF Follows(shown, c) /\ ~shown.crashed
           THEN /\ followed' = followed \cup {c}
                /\ selected' = slotCallAdded(calls', shown, c)
           ELSE selected' = shown /\ UNCHANGED followed

\* CallPrivate::buildCall() and CallModelPrivate::addCall2(): the call is added to its
\* contact method, and listed unless it is over.
Built(c, st) ==
  [calls EXCEPT !.state[c] = st, !.list = IF st = "FINISHED" THEN @ ELSE Append(@, c)]

Added(cs, c) == IF Follows(selected, c) THEN slotCallAdded(cs, selected, c) ELSE selected

AddFollowed(c) == IF Follows(selected, c) THEN followed \cup {c} ELSE followed

\* What slotCallRemoved() makes of s when the state of c changes.
Told(f, cs, s, c) == IF c \in f THEN slotCallRemoved(cs, s) ELSE s

\* The automatic answer, which may end the call (in ERROR).
Answered(cs, c) ==
  {cs} \cup IF c \in AutoAnswered THEN {[cs EXCEPT !.state[c] = "FINISHED"]} ELSE {}

\* What selects c when it is built, and when its answer makes cs of the calls.
Entered(built, cs, c) ==
  IF cs = built THEN Added(built, c) ELSE Told(AddFollowed(c), cs, Added(built, c), c)

\* CallModelPrivate::slotCallStateChanged() of a call that is not known: addIncomingCall()
\* builds and answers it, and its own signal is still to come,
AppearIncoming(c) ==
  /\ calls.state[c] = "NONE"
  /\ LET built == [Built(c, "INITIALIZATION") EXCEPT !.late = @ \cup {c}]
     IN  \E cs \in Answered(built, c) :
           /\ calls' = cs
           /\ selected' = Entered(built, cs, c)
  /\ followed' = AddFollowed(c)

\* or addExistingCall() builds it in the state that it has in the daemon.
AppearExisting(c) ==
  /\ calls.state[c] = "NONE"
  /\ \E st \in {"INITIALIZATION", "PROGRESS", "FINISHED"} :
       /\ calls' = Built(c, st)
       /\ selected' = Added(calls', c)
  /\ followed' = AddFollowed(c)

\* CallModelPrivate::slotIncomingCall(): the call is built, unless a state signal came
\* first, and answered; then attention is requested, whatever has become of it.
Receive(c) ==
  /\ calls.state[c] = "NONE"
  /\ LET built == Built(c, "INITIALIZATION")
     IN  \E cs \in Answered(built, c) :
           /\ calls' = cs
           /\ selected' = setCall(cs, Entered(built, cs, c), c)
  /\ followed' = AddFollowed(c)

ReceiveLate(c) ==
  /\ c \in calls.late
  /\ \E cs \in Answered([calls EXCEPT !.late = @ \ {c}], c) :
       /\ calls' = cs
       /\ selected' = setCall(cs, Told(followed, cs, selected, c), c)
  /\ UNCHANGED followed

\* The states that stateChanged() and performAction() lead to; hold or transfer, for
\* instance, change the state within PROGRESS, and REFUSE that of a failure.
Onward(st) ==
  CASE st = "DIALING"        -> {"FINISHED"}
    [] st = "INITIALIZATION" -> {"INITIALIZATION", "PROGRESS", "FINISHED"}
    [] st = "PROGRESS"       -> {"PROGRESS", "FINISHED"}
    [] st = "FINISHED"       -> {"FINISHED"}
    [] OTHER                 -> {}

\* A call changes its state, or it ends; what is over is not looked for in the list.
Moves(c) ==
  /\ \E st \in Onward(calls.state[c]) : calls' = [calls EXCEPT !.state[c] = st]
  /\ selected' = Told(followed, calls', selected, c)
  /\ UNCHANGED followed
-----------------------------------------------------------------------------
Next ==
  /\ ~selected.crashed
  /\ \/ \E i \in Individual : SelectIndividual(i) \/ SelectPerson(i)
     \/ \E cm \in ContactMethod : SelectContactMethod(cm)
     \/ ReadViews
     \/ \E c \in Call :
          SelectCall(c) \/ Dial(c) \/ Place(c) \/ AppearIncoming(c) \/ AppearExisting(c)
            \/ Receive(c) \/ ReceiveLate(c) \/ Moves(c)

Spec == Init /\ [][Next]_vars
=============================================================================
