------------------------ MODULE SelectionProperties ------------------------
(***************************************************************************)
(* What Selection promises.                                                *)
(***************************************************************************)
EXTENDS Selection

Calls == [state : [Call -> CallState], list : Seq(Call), late : SUBSET Call]

Selected == [individual    : Individual \cup {None},
             contactMethod : ContactMethod \cup {None},
             call          : Call \cup {None},
             timeline      : Individual \cup {None},
             views         : Individual \cup {None},
             crashed       : BOOLEAN]

\* The types, and only calls that are there are followed.
TypeOK ==
  /\ calls \in Calls
  /\ followed \in SUBSET {c \in Call : calls.state[c] # "NONE"}
  /\ selected \in Selected

\* A message or a call to what is selected goes to the individual that is shown: the
\* contact method is one of its own, however the two, and the calls, were selected
\* (replaceContactMethod() runs in the middle of setCall(), setIndividual() and the
\* slots, with the individual of before).
OwnContactMethod ==
  ~selected.crashed /\ selected.contactMethod # None =>
    selected.individual = IndividualOf[selected.contactMethod]

\* No handler brings back a call that is over, however the handlers call each other: one
\* that is shown was asked for when it was over already (by the client or by a late
\* incomingCall), or was shown before and is not followed.  So a call that began while its
\* individual was selected is dropped when it ends (slotCallAdded(), slotCallRemoved()),
\* and neither a change of individual nor another call brings it back.
EndedCallIsDropped ==
  [][ \A c \in Call :
        selected'.call = c /\ calls'.state[c] = "FINISHED" =>
          \/ selected.call = c /\ (calls.state[c] = "FINISHED" \/ c \notin followed)
          \/ SelectCall(c) \/ Receive(c) \/ ReceiveLate(c) ]_vars

\* The timeline changes with the individual (setSharedModel() in each handler); only
\* setPerson() leaves that of the last one.
TimelineFollows ==
  [][ selected'.individual # selected.individual =>
        \/ selected'.timeline = selected'.individual
        \/ \E i \in Individual : SelectPerson(i) ]_vars
=============================================================================
