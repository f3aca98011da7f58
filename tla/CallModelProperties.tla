------------------------ MODULE CallModelProperties ------------------------
(***************************************************************************)
(* What should be true of the list of calls.                               *)
(***************************************************************************)
EXTENDS CallModel

Objects == DOMAIN model.call
Over(o) == LifeCycle(model, o) = "FINISHED"

\* Nothing is on its way from the daemon and no timer is pending.
Quiet ==
  /\ model.started /\ ~model.crashed
  /\ ring.queue = <<>> /\ model.checks = <<>> /\ model.removals = <<>>

\* Nor is there a conference that the daemon is about to dissolve.
Settled ==
  Quiet /\ \A f \in ConfId : ring.confs[f] = "live" => Cardinality(ring.parts[f]) > 1

CallRecord ==
  [type : {"CALL", "CONFERENCE"}, id : CallId \cup ConfId \cup {""}, state : State,
   missed : BOOLEAN, parent : Objects \cup {0}, children : Seq(Objects)]

Signal ==
  [signal : {"callStateChanged", "incomingCall", "conferenceCreated",
             "conferenceChanged", "conferenceRemoved"},
   id : CallId \cup ConfId, state : {"", "INCOMING", "CONNECTING", "RINGING",
                                    "CURRENT", "HUNGUP", "FAILURE", "OVER"}]

\* The type invariant.  The list is two levels deep: what has children is a
\* conference and what has a parent is a call, and an identifier leads to the object
\* that has it.
TypeOK ==
  /\ model.call \in Seq(CallRecord)
  /\ {model.rows, model.checks, model.removals} \subseteq Seq(Objects)
  /\ \A o \in Objects :
       /\ IsConference(model, o) <=> model.call[o].id \in ConfId
       /\ IsConference(model, o) => model.call[o].parent = 0
       /\ ~IsConference(model, o) => model.call[o].children = <<>>
  /\ \A i \in CallId \cup ConfId :
       model.known[i] # 0 => model.known[i] \in Objects /\ model.call[model.known[i]].id = i
  /\ model.answer \in AutoAnswers /\ {model.started, model.crashed} \subseteq BOOLEAN
  /\ ring.calls \in [CallId -> DaemonCall]
  /\ ring.confs \in [ConfId -> {"free", "live", "removed"}]
  /\ ring.parts \in [ConfId -> SUBSET CallId]
  /\ ring.late \subseteq CallId /\ ring.queue \in Seq(Signal)

\* The conferences that the daemon has, or whose end the list has still to hear of.
Standing(d) ==
  {f \in ConfId :
     \/ d.confs[f] = "live"
     \/ \E k \in DOMAIN d.queue :
          d.queue[k].signal = "conferenceRemoved" /\ d.queue[k].id = f}

\* No order of conference signals loses a call that is not over: it is in the list, on
\* a row of its own or below its conference, or else it is a child of a conference that
\* left the list before the daemon said so, and that puts it back when the daemon does.
LiveCallIsKept ==
  \A o \in Objects :
    ~IsConference(model, o) /\ ~Over(o) =>
      \/ o \in Listed(model)
      \/ \E f \in Standing(ring) :
           model.known[f] # 0 /\ o \in ToSet(model.call[model.known[f]].children)

\* A call that the daemon has established is known under its identifier and
\* listed once the signals are handled, whoever made it, whichever of the two
\* signals that announce it came first and whenever the second one came.
EstablishedIsListed ==
  Quiet => \A i \in CallId :
    ring.calls[i] = "current" =>
      model.known[i] # 0 /\ model.known[i] \in Listed(model)

\* No daemon call is shown by two objects: a call that was dialed here, or that
\* a state change already declared, is not built again.
OneObject ==
  \A o, p \in Objects :
    model.call[o].id = model.call[p].id /\ model.call[o].id # "" => o = p

\* A call that ended normally leaves the list for good: once nothing is pending,
\* a call that is over is only still there when it was missed or has failed.
EndedCallLeaves ==
  Quiet => \A o \in Listed(model) :
    Over(o) => model.call[o].missed \/ model.call[o].state \in {"FAILURE", "BUSY"}

\* "Remove call when they end normally, keep errors and failure one": no timer
\* that was set before a call was marked as missed takes it away.
MissedCallStays ==
  \A o \in Objects :
    Over(o) /\ model.call[o].missed /\ model.call[o].state # "ERROR"
      => o \in Listed(model)

\* When the daemon and the event loop have come to rest, the rows of a conference are
\* the participants the daemon has, each of them knows it as its parent, and a conference
\* that the daemon removed is not listed.  One that it has is listed too, unless the list
\* ended it itself, when it had no participant left for a while.
ConferencesAgree ==
  Settled =>
    \A f \in ConfId :
      LET o    == model.known[f]
          kids == ToSet(model.call[o].children)
      IN  CASE ring.confs[f] # "live"    -> o \notin ToSet(model.rows)
            [] ring.confs[f] = "live" /\ o \in ToSet(model.rows) ->
                 /\ {model.call[c].id : c \in kids} = ring.parts[f]
                 /\ \A c \in kids : model.call[c].parent = o
            [] OTHER -> o # 0 /\ model.call[o].state = "OVER"

\* No slot uses the null pointer that a conference which is gone leaves:
\* "Prevent a race condition between call and conference" (callmodel.cpp:1541).
ConferenceIsNotNull == ~model.crashed
=============================================================================
