--------------------------- MODULE SelectionProofs ---------------------------
(***************************************************************************)
(* The properties of Selection, for any people, addresses and calls.       *)
(*                                                                         *)
(* The handlers are functions that call each other, and each goes through  *)
(* selections that break what is to be proved.  So there is a lemma for    *)
(* each of them, on what it returns of whatever it is given; the steps     *)
(* only put them together.                                                 *)
(***************************************************************************)
EXTENDS SelectionProperties, TLAPS

\* The contact method is one of the selected individual.
Own(s) == s.contactMethod # None => s.individual = IndividualOf[s.contactMethod]

\* The call that is selected is the one of before, or none, or one that is not over.
Live(cs, s, r) == r.call \in {s.call, None} \/ (r.call \in Call /\ IsActive(cs, r.call))

\* So it is when c was asked for.
Shows(cs, c, r) == r.call \in {c, None} \/ (r.call \in Call /\ IsActive(cs, r.call))

\* An individual comes with its timeline.
Follow(s, r) == r.individual # s.individual => r.timeline = r.individual

LEMMA Domains ==
  /\ \A c \in Call : PeerOf[c] \in ContactMethod /\ Caller(c) \in Individual
  /\ \A m \in ContactMethod : IndividualOf[m] \in Individual
  /\ None \notin Individual /\ None \notin ContactMethod /\ None \notin Call
  BY IndividualOfAll, PeerOfAll, NoneIsNothing DEF Caller
-----------------------------------------------------------------------------
(* What each handler returns.                                              *)

LEMMA FirstActiveIs ==
  ASSUME NEW cs \in Calls, NEW i
  PROVE  \/ firstActiveCall(cs, i) = None
         \/ /\ firstActiveCall(cs, i) \in Call
            /\ IsActive(cs, firstActiveCall(cs, i))
            /\ Caller(firstActiveCall(cs, i)) = i
<1> DEFINE With(c) == IsActive(cs, c) /\ Caller(c) = i
           first == {k \in 1..Len(cs.list) :
                       With(cs.list[k]) /\ \A j \in 1..(k - 1) : ~With(cs.list[j])}
           k == CHOOSE k \in first : TRUE
<1>1. CASE first = {}
  BY <1>1 DEF firstActiveCall
<1>2. CASE first # {}
  <2>1. firstActiveCall(cs, i) = cs.list[k]
    BY <1>2 DEF firstActiveCall
  <2>2. k \in first
    BY <1>2
  <2>3. k \in 1..Len(cs.list) /\ With(cs.list[k])
    BY <2>2
  <2>4. cs.list \in Seq(Call)
    BY DEF Calls
  <2> HIDE DEF k
  <2>5. cs.list[k] \in Call
    BY <2>3, <2>4
  <2> QED
    BY <2>1, <2>3, <2>5
<1> QED
  BY <1>1, <1>2

\* replaceCall() keeps the individual, and a contact method of the caller's.
LEMMA ReplaceCallIs ==
  ASSUME NEW s \in Selected, NEW c \in Call \cup {None}
  PROVE  /\ replaceCall(s, c) \in Selected
         /\ replaceCall(s, c).call = c
         /\ replaceCall(s, c).individual = s.individual
         /\ replaceCall(s, c).timeline = s.timeline
         /\ replaceCall(s, c).crashed = s.crashed
         /\ c = None => replaceCall(s, c).contactMethod = s.contactMethod
         /\ c # None /\ Caller(c) = s.individual /\ Own(s) => Own(replaceCall(s, c))
<1>1. c # None => PeerOf[c] \in ContactMethod /\ IndividualOf[PeerOf[c]] = Caller(c)
  BY Domains DEF Caller
<1> QED
  BY <1>1 DEF replaceCall, replaceContactMethod, Selected, Own

\* replaceIndividual() needs a contact method that is gone, or one of i.
LEMMA ReplaceIndividualIs ==
  ASSUME NEW cs \in Calls, NEW s \in Selected, NEW i \in Individual
  PROVE  /\ replaceIndividual(cs, s, i) \in Selected
         /\ replaceIndividual(cs, s, i).individual = i
         /\ replaceIndividual(cs, s, i).timeline = s.timeline
         /\ replaceIndividual(cs, s, i).crashed = s.crashed
         /\ Live(cs, s, replaceIndividual(cs, s, i))
         /\ (s.contactMethod # None => IndividualOf[s.contactMethod] = i)
              => Own(replaceIndividual(cs, s, i))
<1> DEFINE chosen == [s EXCEPT !.individual = i]
           active == firstActiveCall(cs, i)
<1>1. /\ chosen \in Selected
      /\ chosen.individual = i
      /\ chosen.contactMethod = s.contactMethod
      /\ chosen.timeline = s.timeline
      /\ chosen.crashed = s.crashed
      /\ chosen.call = s.call
  BY DEF Selected
<1>2. (s.contactMethod # None => IndividualOf[s.contactMethod] = i) => Own(chosen)
  BY <1>1 DEF Own
<1>3. replaceIndividual(cs, s, i) = IF active = None THEN chosen ELSE replaceCall(chosen, active)
  BY DEF replaceIndividual
<1>4. active = None \/ (active \in Call /\ IsActive(cs, active) /\ Caller(active) = i)
  BY FirstActiveIs
<1> HIDE DEF chosen, active
<1>5. CASE active = None
  BY <1>1, <1>2, <1>3, <1>5 DEF Live
<1>6. CASE active # None
  BY <1>1, <1>2, <1>3, <1>4, <1>6, ReplaceCallIs DEF Live
<1> QED
  BY <1>5, <1>6

\* setIndividual() crashes without an individual to compare the call with, and puts
\* things right otherwise.
LEMMA SetIndividualIs ==
  ASSUME NEW cs \in Calls, NEW s \in Selected, NEW i \in Individual
  PROVE  /\ setIndividual(cs, s, i) \in Selected
         /\ Live(cs, s, setIndividual(cs, s, i))
         /\ \/ /\ setIndividual(cs, s, i).crashed
               /\ setIndividual(cs, s, i).individual = s.individual
               /\ s.call # None /\ s.individual = None
            \/ /\ setIndividual(cs, s, i).individual = i
               /\ setIndividual(cs, s, i).timeline = i
               /\ Own(setIndividual(cs, s, i))
<1> DEFINE addressed == IF s.contactMethod # None /\ IndividualOf[s.contactMethod] # i
                          THEN replaceContactMethod(s, None) ELSE s
           shared    == [addressed EXCEPT !.timeline = i]
           hungUp    == IF s.call # None /\ Caller(s.call) # s.individual
                          THEN replaceCall(shared, None) ELSE shared
<1>1. /\ addressed \in Selected
      /\ addressed.individual = s.individual /\ addressed.call = s.call
      /\ addressed.contactMethod # None => IndividualOf[addressed.contactMethod] = i
  BY DEF replaceContactMethod, Selected
<1>2. setIndividual(cs, s, i) = IF s.call # None /\ s.individual = None
                                  THEN [shared EXCEPT !.crashed = TRUE]
                                  ELSE replaceIndividual(cs, hungUp, i)
  BY DEF setIndividual
<1> HIDE DEF addressed
<1>3. /\ shared \in Selected
      /\ shared.individual = s.individual /\ shared.call = s.call /\ shared.timeline = i
      /\ shared.contactMethod # None => IndividualOf[shared.contactMethod] = i
  BY <1>1 DEF Selected
<1>s. hungUp \in {shared, replaceCall(shared, None)}
  OBVIOUS
<1> HIDE DEF shared
<1>4. /\ replaceCall(shared, None) \in Selected
      /\ replaceCall(shared, None).timeline = i
      /\ replaceCall(shared, None).call = None
      /\ replaceCall(shared, None).contactMethod = shared.contactMethod
  BY <1>3, ReplaceCallIs
<1>5. /\ hungUp \in Selected /\ hungUp.call \in {s.call, None} /\ hungUp.timeline = i
      /\ hungUp.contactMethod # None => IndividualOf[hungUp.contactMethod] = i
  BY <1>3, <1>4, <1>s
<1> HIDE DEF hungUp
<1>6. CASE s.call # None /\ s.individual = None
  <2>1. /\ [shared EXCEPT !.crashed = TRUE] \in Selected
        /\ [shared EXCEPT !.crashed = TRUE].crashed
        /\ [shared EXCEPT !.crashed = TRUE].individual = s.individual
        /\ [shared EXCEPT !.crashed = TRUE].call = s.call
    BY <1>3 DEF Selected
  <2> QED
    BY <1>2, <1>6, <2>1 DEF Live
<1>7. CASE ~(s.call # None /\ s.individual = None)
  <2>1. Live(cs, hungUp, replaceIndividual(cs, hungUp, i))
    BY <1>5, ReplaceIndividualIs
  <2>2. Live(cs, s, replaceIndividual(cs, hungUp, i))
    BY <1>5, <2>1 DEF Live
  <2> QED
    BY <1>2, <1>5, <1>7, <2>2, ReplaceIndividualIs
<1> QED
  BY <1>6, <1>7

\* setContactMethod() does nothing for the one that is selected.
LEMMA SetContactMethodIs ==
  ASSUME NEW cs \in Calls, NEW s \in Selected, NEW m \in ContactMethod
  PROVE  /\ setContactMethod(cs, s, m) \in Selected
         /\ setContactMethod(cs, s, m).crashed = s.crashed
         /\ Live(cs, s, setContactMethod(cs, s, m))
         /\ \/ setContactMethod(cs, s, m) = s
            \/ /\ setContactMethod(cs, s, m).individual = IndividualOf[m]
               /\ setContactMethod(cs, s, m).timeline = IndividualOf[m]
               /\ Own(setContactMethod(cs, s, m))
<1> DEFINE i      == IndividualOf[m]
           hungUp == IF s.call # None /\ PeerOf[s.call] # m THEN replaceCall(s, None) ELSE s
           shared == [hungUp EXCEPT !.timeline = i]
           person == replaceIndividual(cs, shared, i)
           last   == replaceContactMethod(person, m)
<1>0. i \in Individual
  BY Domains
<1>1. /\ hungUp \in Selected
      /\ hungUp.call \in {s.call, None} /\ hungUp.crashed = s.crashed
  BY ReplaceCallIs
<1> HIDE DEF i, hungUp
<1>2. /\ shared \in Selected /\ shared.timeline = i
      /\ shared.call \in {s.call, None} /\ shared.crashed = s.crashed
  BY <1>0, <1>1 DEF Selected
<1> HIDE DEF shared
<1>3. /\ person \in Selected
      /\ person.individual = i /\ person.timeline = i /\ person.crashed = s.crashed
      /\ Live(cs, shared, person)
  BY <1>0, <1>2, ReplaceIndividualIs
<1> HIDE DEF person
<1>4. /\ last \in Selected
      /\ last.individual = i /\ last.timeline = i /\ last.crashed = s.crashed
      /\ last.contactMethod = m /\ last.call = person.call
  BY <1>3 DEF replaceContactMethod, Selected
<1>5. Live(cs, s, last)
  BY <1>2, <1>3, <1>4 DEF Live
<1>6. Own(last)
  BY <1>4 DEF Own, i
<1>7. setContactMethod(cs, s, m) = IF m = s.contactMethod THEN s ELSE last
  BY DEF setContactMethod, last, person, shared, hungUp, i
<1> HIDE DEF last
<1> QED
  BY <1>4, <1>5, <1>6, <1>7 DEF Live, i

LEMMA SetPersonIs ==
  ASSUME NEW cs \in Calls, NEW s \in Selected, NEW i \in Individual
  PROVE  /\ setPerson(cs, s, i) \in Selected
         /\ Live(cs, s, setPerson(cs, s, i))
         /\ Own(setPerson(cs, s, i))
<1> DEFINE person == replaceIndividual(cs, s, i)
<1>1. person \in Selected /\ Live(cs, s, person)
  BY ReplaceIndividualIs
<1>2. setPerson(cs, s, i) = [person EXCEPT !.contactMethod = None]
  BY DEF setPerson, replaceContactMethod
<1> HIDE DEF person
<1> QED
  BY <1>1, <1>2 DEF Selected, Live, Own

LEMMA SetCallIs ==
  ASSUME NEW cs \in Calls, NEW s \in Selected, NEW c \in Call
  PROVE  /\ setCall(cs, s, c) \in Selected
         /\ Shows(cs, c, setCall(cs, s, c))
         /\ Own(s) => setCall(cs, s, c).crashed \/ Own(setCall(cs, s, c))
         /\ Follow(s, setCall(cs, s, c))
<1> DEFINE i      == Caller(c)
           called == replaceCall(s, c)
           shown  == IF called.individual # i THEN setIndividual(cs, called, i) ELSE called
           last   == setContactMethod(cs, shown, PeerOf[c])
<1>0. i \in Individual /\ PeerOf[c] \in ContactMethod /\ c # None
  BY Domains
<1>1. /\ called \in Selected /\ called.call = c
      /\ called.individual = s.individual /\ called.timeline = s.timeline
      /\ called.individual = i /\ Own(s) => Own(called)
  BY <1>0, ReplaceCallIs
<1>2. setCall(cs, s, c) = IF shown.crashed THEN shown ELSE last
  BY DEF setCall
<1>s. shown = IF called.individual # i THEN setIndividual(cs, called, i) ELSE called
  OBVIOUS
<1> HIDE DEF i, called, shown
<1>3. /\ shown \in Selected
      /\ Live(cs, called, shown)
      /\ Own(s) => shown.crashed \/ Own(shown)
      /\ Follow(s, shown)
  <2>1. CASE called.individual = i
    BY <1>1, <1>s, <2>1 DEF Live, Follow
  <2>2. CASE called.individual # i
    BY <1>0, <1>1, <1>s, <2>2, SetIndividualIs DEF Follow
  <2> QED
    BY <2>1, <2>2
<1>4. Shows(cs, c, shown)
  BY <1>1, <1>3 DEF Live, Shows
<1>5. /\ last \in Selected
      /\ Live(cs, shown, last)
      /\ last = shown \/ (last.individual = last.timeline /\ Own(last))
  BY <1>0, <1>3, SetContactMethodIs
<1>6. Shows(cs, c, last)
  BY <1>4, <1>5 DEF Live, Shows
<1> HIDE DEF last
<1> QED
  BY <1>2, <1>3, <1>4, <1>5, <1>6 DEF Follow

\* The slots keep the individual and its timeline.
LEMMA SlotsAre ==
  ASSUME NEW cs \in Calls, NEW s \in Selected, NEW c \in Call
  PROVE  /\ slotCallAdded(cs, s, c) \in Selected
         /\ slotCallAdded(cs, s, c).individual = s.individual
         /\ slotCallAdded(cs, s, c).timeline = s.timeline
         /\ slotCallAdded(cs, s, c).crashed = s.crashed
         /\ Live(cs, s, slotCallAdded(cs, s, c))
         /\ Caller(c) = s.individual /\ Own(s) => Own(slotCallAdded(cs, s, c))
         /\ slotCallRemoved(cs, s) \in Selected
         /\ slotCallRemoved(cs, s).individual = s.individual
         /\ slotCallRemoved(cs, s).timeline = s.timeline
         /\ slotCallRemoved(cs, s).crashed = s.crashed
         /\ slotCallRemoved(cs, s).call = None \/ slotCallRemoved(cs, s) = s
         /\ s.call # None /\ cs.state[s.call] = "FINISHED" => slotCallRemoved(cs, s).call = None
         /\ Own(s) => Own(slotCallRemoved(cs, s))
<1>1. c # None
  BY Domains
<1>2. /\ replaceCall(s, c) \in Selected
      /\ replaceCall(s, c).individual = s.individual
      /\ replaceCall(s, c).timeline = s.timeline
      /\ replaceCall(s, c).crashed = s.crashed
      /\ replaceCall(s, c).call = c
      /\ Caller(c) = s.individual /\ Own(s) => Own(replaceCall(s, c))
  BY <1>1, ReplaceCallIs
<1>3. /\ replaceCall(s, None) \in Selected
      /\ replaceCall(s, None).individual = s.individual
      /\ replaceCall(s, None).timeline = s.timeline
      /\ replaceCall(s, None).crashed = s.crashed
      /\ replaceCall(s, None).call = None
      /\ replaceCall(s, None).contactMethod = s.contactMethod
  BY ReplaceCallIs
<1>4. Own(s) => Own(replaceCall(s, None))
  BY <1>3 DEF Own
<1>5. \/ slotCallAdded(cs, s, c) = s
      \/ slotCallAdded(cs, s, c) = replaceCall(s, c) /\ IsActive(cs, c)
  BY DEF slotCallAdded
<1>6. \/ slotCallRemoved(cs, s) = s /\ ~(s.call # None /\ cs.state[s.call] = "FINISHED")
      \/ slotCallRemoved(cs, s) = replaceCall(s, None)
  BY DEF slotCallRemoved
<1>7. Live(cs, s, slotCallAdded(cs, s, c))
  BY <1>2, <1>5 DEF Live
<1> QED
  BY <1>2, <1>3, <1>4, <1>5, <1>6, <1>7
-----------------------------------------------------------------------------
(* The steps.                                                              *)

LEMMA CallsType ==
  ASSUME calls \in Calls, NEW c \in Call, NEW st \in CallState
  PROVE  /\ [calls EXCEPT !.state[c] = st] \in Calls
         /\ [calls EXCEPT !.state[c] = st].state = [calls.state EXCEPT ![c] = st]
         /\ [calls EXCEPT !.state[c] = st, !.list = Append(@, c)] \in Calls
         /\ [calls EXCEPT !.state[c] = st, !.list = Append(@, c)].state
              = [calls.state EXCEPT ![c] = st]
<1> DEFINE f    == [calls.state EXCEPT ![c] = st]
           n    == Append(calls.list, c)
           once == [calls EXCEPT !.state[c] = st]
<1>1. /\ once \in Calls /\ once.state = f /\ once.list = calls.list
  BY DEF Calls
<1>2. n \in Seq(Call)
  BY DEF Calls
<1>3. [calls EXCEPT !.state[c] = st, !.list = Append(@, c)] = [once EXCEPT !.list = n]
  OBVIOUS
<1> HIDE DEF f, n, once
<1>4. [once EXCEPT !.list = n] \in Calls /\ [once EXCEPT !.list = n].state = f
  BY <1>1, <1>2 DEF Calls
<1>5. /\ [calls EXCEPT !.state[c] = st, !.list = Append(@, c)] \in Calls
      /\ [calls EXCEPT !.state[c] = st, !.list = Append(@, c)].state = f
  BY <1>3, <1>4, Zenon
<1> QED
  BY <1>1, <1>5, Zenon DEF f, once

LEMMA BuiltIs ==
  ASSUME calls \in Calls, NEW c \in Call, NEW st \in CallState
  PROVE  /\ Built(c, st) \in Calls
         /\ Built(c, st).state = [calls.state EXCEPT ![c] = st]
         /\ [Built(c, st) EXCEPT !.late = @ \cup {c}] \in Calls
         /\ [Built(c, st) EXCEPT !.late = @ \cup {c}].state = [calls.state EXCEPT ![c] = st]
<1>1. /\ Built(c, st) \in Calls
      /\ Built(c, st).state = [calls.state EXCEPT ![c] = st]
  <2>1. CASE st = "FINISHED"
    <3>1. Built(c, st) = [[calls EXCEPT !.state[c] = st] EXCEPT !.list = @]
      BY <2>1 DEF Built
    <3>2. [[calls EXCEPT !.state[c] = st] EXCEPT !.list = @] = [calls EXCEPT !.state[c] = st]
      BY CallsType DEF Calls
    <3>3. Built(c, st) = [calls EXCEPT !.state[c] = st]
      BY <3>1, <3>2
    <3> QED
      BY <3>3, CallsType
  <2>2. CASE st # "FINISHED"
    <3>1. Built(c, st) = [calls EXCEPT !.state[c] = st, !.list = Append(@, c)]
      BY <2>2 DEF Built
    <3> QED
      BY <3>1, CallsType, Zenon
  <2> QED
    BY <2>1, <2>2
<1>2. \A cs \in Calls : /\ [cs EXCEPT !.late = @ \cup {c}] \in Calls
                        /\ [cs EXCEPT !.late = @ \cup {c}].state = cs.state
  BY DEF Calls
<1> QED
  BY <1>1, <1>2

LEMMA AnsweredIs ==
  ASSUME NEW b \in Calls, NEW c \in Call, NEW cs \in Answered(b, c)
  PROVE  /\ cs \in Calls
         /\ \A d \in Call \ {c} : cs.state[d] = b.state[d]
         /\ cs.state[c] \in {b.state[c], "FINISHED"}
<1>1. "FINISHED" \in CallState
  BY DEF CallState
<1>2. cs = b \/ cs = [b EXCEPT !.state[c] = "FINISHED"]
  BY DEF Answered
<1>3. /\ [b EXCEPT !.state[c] = "FINISHED"] \in Calls
      /\ [b EXCEPT !.state[c] = "FINISHED"].state = [b.state EXCEPT ![c] = "FINISHED"]
  BY <1>1 DEF Calls
<1>4. b.state \in [Call -> CallState]
  BY DEF Calls
<1> QED
  BY <1>2, <1>3, <1>4

\* The slots that run when c is built, and when it is answered.
LEMMA EnteredIs ==
  ASSUME selected \in Selected, NEW b \in Calls, NEW c \in Call, NEW cs \in Answered(b, c)
  PROVE  /\ Entered(b, cs, c) \in Selected
         /\ Entered(b, cs, c).individual = selected.individual
         /\ Entered(b, cs, c).timeline = selected.timeline
         /\ Own(selected) => Own(Entered(b, cs, c))
         /\ Live(cs, selected, Entered(b, cs, c))
<1> DEFINE added == Added(b, c)
           told  == Told(AddFollowed(c), cs, added, c)
<1>1. /\ slotCallAdded(b, selected, c) \in Selected
      /\ slotCallAdded(b, selected, c).individual = selected.individual
      /\ slotCallAdded(b, selected, c).timeline = selected.timeline
      /\ Follows(selected, c) /\ Own(selected) => Own(slotCallAdded(b, selected, c))
      /\ Live(b, selected, slotCallAdded(b, selected, c))
  BY SlotsAre DEF Follows
<1>2. /\ added \in Selected
      /\ added.individual = selected.individual /\ added.timeline = selected.timeline
      /\ Own(selected) => Own(added)
      /\ Live(b, selected, added)
      /\ ~Follows(selected, c) => added = selected
  BY <1>1 DEF Added, Live
<1> HIDE DEF added
<1>3. cs \in Calls /\ \A d \in Call \ {c} : cs.state[d] = b.state[d]
  BY AnsweredIs
<1>4. /\ slotCallRemoved(cs, added) \in Selected
      /\ slotCallRemoved(cs, added).individual = added.individual
      /\ slotCallRemoved(cs, added).timeline = added.timeline
      /\ Own(added) => Own(slotCallRemoved(cs, added))
      /\ slotCallRemoved(cs, added).call = None \/ slotCallRemoved(cs, added) = added
      /\ added.call # None /\ cs.state[added.call] = "FINISHED"
           => slotCallRemoved(cs, added).call = None
  BY <1>2, <1>3, SlotsAre
<1>5. told \in {added, slotCallRemoved(cs, added)}
  BY DEF Told
<1>6. Entered(b, cs, c) \in {added, told}
  BY DEF Entered, added
<1>7. Live(cs, selected, Entered(b, cs, c))
  <2>1. CASE cs = b
    <3>1. Entered(b, cs, c) = added
      BY <2>1 DEF Entered, added
    <3> QED
      BY <1>2, <2>1, <3>1
  <2>2. CASE cs # b /\ added.call \in {selected.call, None}
    BY <1>4, <1>5, <1>6, <2>2 DEF Live
  <2>3. CASE cs # b /\ added.call \notin {selected.call, None}
    <3>1. added.call \in Call /\ IsActive(b, added.call) /\ Follows(selected, c)
      BY <1>2, <2>3 DEF Live
    <3>2. Entered(b, cs, c) = slotCallRemoved(cs, added)
      BY <2>3, <3>1 DEF Entered, Told, AddFollowed, added
    <3>3. CASE added.call = c
      <4>1. cs = [b EXCEPT !.state[c] = "FINISHED"]
        BY <2>3 DEF Answered
      <4>2. cs.state[c] = "FINISHED"
        BY <4>1 DEF Calls
      <4> QED
        BY <1>4, <3>2, <3>3, <4>2, Domains DEF Live
    <3>4. CASE added.call # c
      <4>1. IsActive(cs, added.call)
        BY <1>3, <3>1, <3>4 DEF IsActive
      <4> QED
        BY <1>4, <3>1, <3>2, <4>1 DEF Live
    <3> QED
      BY <3>3, <3>4
  <2> QED
    BY <2>1, <2>2, <2>3
<1> HIDE DEF told
<1> QED
  BY <1>2, <1>4, <1>5, <1>6, <1>7

\* The client or the daemon asks for a call.
Asks(c) == SelectCall(c) \/ Receive(c) \/ ReceiveLate(c)

\* What each step does to the selection: it keeps the types, it may only put right the
\* contact method, it selects no call that is over but one that is asked for, and it follows
\* the individual.
Preserved ==
  /\ TypeOK'
  /\ Own(selected) => selected'.crashed \/ Own(selected')
  /\ \/ Live(calls', selected, selected')
     \/ \E c \in Call : Asks(c) /\ Shows(calls', c, selected')
  /\ Follow(selected, selected') \/ \E i \in Individual : SelectPerson(i)

\* The calls that are followed stay those that are there.
LEMMA FollowedIs ==
  ASSUME TypeOK, calls' \in Calls, NEW c \in Call,
         \A d \in Call \ {c} : calls'.state[d] = calls.state[d],
         followed' \in {followed, followed \cup {c}},
         c \in followed' => calls'.state[c] # "NONE",
         selected' \in Selected
  PROVE  TypeOK'
<1>1. followed \in SUBSET {d \in Call : calls.state[d] # "NONE"}
  BY DEF TypeOK
<1>2. \A d \in followed : d \in Call /\ calls.state[d] # "NONE"
  BY <1>1
<1>3. \A d \in followed' : d \in Call /\ calls'.state[d] # "NONE"
  BY <1>2
<1> QED
  BY <1>3 DEF TypeOK

LEMMA SelectPreserves ==
  ASSUME TypeOK, ~selected.crashed,
         \/ \E i \in Individual : SelectIndividual(i) \/ SelectPerson(i)
         \/ \E m \in ContactMethod : SelectContactMethod(m)
         \/ \E c \in Call : SelectCall(c)
         \/ ReadViews
  PROVE  Preserved /\ calls' = calls /\ followed' = followed
<1>0. calls \in Calls /\ selected \in Selected
  BY DEF TypeOK
<1>1. calls' = calls /\ followed' = followed
  BY DEF SelectIndividual, SelectPerson, SelectContactMethod, SelectCall, ReadViews
<1>j. ASSUME selected' \in Selected PROVE TypeOK'
  BY <1>1, <1>j DEF TypeOK
<1>k. ASSUME selected' \in Selected, Live(calls, selected, selected'),
             Own(selected) => selected'.crashed \/ Own(selected'),
             Follow(selected, selected') \/ \E i \in Individual : SelectPerson(i)
      PROVE  Preserved
  BY <1>1, <1>j, <1>k DEF Preserved
<1>2. ASSUME NEW i \in Individual, SelectIndividual(i) PROVE Preserved
  <2>1. selected' = setIndividual(calls, selected, i)
    BY <1>2 DEF SelectIndividual
  <2> QED
    BY <1>0, <1>k, <2>1, SetIndividualIs DEF Follow
<1>3. ASSUME NEW i \in Individual, SelectPerson(i) PROVE Preserved
  <2>1. selected' = setPerson(calls, selected, i)
    BY <1>3 DEF SelectPerson
  <2> QED
    BY <1>0, <1>3, <1>k, <2>1, SetPersonIs
<1>4. ASSUME NEW m \in ContactMethod, SelectContactMethod(m) PROVE Preserved
  <2>1. selected' = setContactMethod(calls, selected, m)
    BY <1>4 DEF SelectContactMethod
  <2> QED
    BY <1>0, <1>k, <2>1, SetContactMethodIs DEF Follow
<1>5. ASSUME NEW c \in Call, SelectCall(c) PROVE Preserved
  <2>1. selected' = setCall(calls, selected, c)
    BY <1>5 DEF SelectCall
  <2>2. /\ selected' \in Selected /\ Shows(calls', c, selected')
        /\ Own(selected) => selected'.crashed \/ Own(selected')
        /\ Follow(selected, selected')
    BY <1>0, <1>1, <2>1, SetCallIs
  <2> QED
    BY <1>5, <1>j, <2>2 DEF Preserved, Asks
<1>6. CASE ReadViews
  <2>1. selected' = [selected EXCEPT !.views = selected.individual]
    BY <1>6 DEF ReadViews
  <2>2. /\ selected' \in Selected
        /\ selected'.call = selected.call
        /\ selected'.contactMethod = selected.contactMethod
        /\ selected'.individual = selected.individual
    BY <1>0, <2>1 DEF Selected
  <2> QED
    BY <1>1, <1>k, <2>2 DEF Live, Own, Follow
<1> QED
  BY <1>1, <1>2, <1>3, <1>4, <1>5, <1>6

LEMMA PlacePreserves ==
  ASSUME TypeOK, ~selected.crashed, NEW c \in Call, Place(c)
  PROVE  Preserved
<1>0. calls \in Calls /\ selected \in Selected
  BY DEF TypeOK
<1>1. calls' = [calls EXCEPT !.state[c] = "INITIALIZATION"]
  BY DEF Place
<1>2. /\ calls' \in Calls /\ IsActive(calls', c)
      /\ \A d \in Call \ {c} : calls'.state[d] = calls.state[d]
      /\ calls'.state[c] # "NONE"
  <2>1. "INITIALIZATION" \in CallState
    BY DEF CallState
  <2>2. calls' \in Calls /\ calls'.state = [calls.state EXCEPT ![c] = "INITIALIZATION"]
    BY <1>0, <1>1, <2>1, CallsType
  <2>3. calls.state \in [Call -> CallState]
    BY <1>0 DEF Calls
  <2> QED
    BY <2>2, <2>3 DEF IsActive
<1> DEFINE shown == setCall(calls', selected, c)
           added == slotCallAdded(calls', shown, c)
<1>3. /\ shown \in Selected
      /\ Shows(calls', c, shown)
      /\ Own(selected) => shown.crashed \/ Own(shown)
      /\ Follow(selected, shown)
  BY <1>0, <1>2, SetCallIs
<1>4. \/ /\ Follows(shown, c) /\ selected' = added /\ followed' = followed \cup {c}
         /\ ~shown.crashed
      \/ selected' = shown /\ followed' = followed
  BY DEF Place
<1>s. added = slotCallAdded(calls', shown, c)
  OBVIOUS
<1> HIDE DEF shown, added
<1>5. /\ added \in Selected
      /\ Live(calls', shown, added)
      /\ Follows(shown, c) /\ Own(shown) => Own(added)
      /\ added.individual = shown.individual /\ added.timeline = shown.timeline
  BY <1>2, <1>3, <1>s, SlotsAre DEF Follows
<1>6. Live(calls', selected, shown)
  BY <1>2, <1>3 DEF Live, Shows
<1>7. Live(calls', selected, added)
  BY <1>5, <1>6 DEF Live
<1>8. TypeOK'
  BY <1>2, <1>3, <1>4, <1>5, FollowedIs
<1>9. Live(calls', selected, selected') /\ Follow(selected, selected')
  BY <1>3, <1>4, <1>5, <1>6, <1>7 DEF Follow
<1>10. Own(selected) => selected'.crashed \/ Own(selected')
  BY <1>3, <1>4, <1>5
<1> QED
  BY <1>8, <1>9, <1>10 DEF Preserved

\* A call that is built, and perhaps answered.
LEMMA EnteringIs ==
  ASSUME TypeOK, NEW c \in Call, NEW b \in Calls,
         b.state = [calls.state EXCEPT ![c] = "INITIALIZATION"],
         calls' \in Answered(b, c), followed' = AddFollowed(c)
  PROVE  /\ calls' \in Calls
         /\ selected' \in Selected => TypeOK'
<1>1. calls.state \in [Call -> CallState]
  BY DEF TypeOK, Calls
<1>2. /\ calls' \in Calls
      /\ \A d \in Call \ {c} : calls'.state[d] = b.state[d]
      /\ calls'.state[c] \in {b.state[c], "FINISHED"}
  BY AnsweredIs
<1>3. /\ \A d \in Call \ {c} : calls'.state[d] = calls.state[d]
      /\ calls'.state[c] # "NONE"
  BY <1>1, <1>2
<1>4. followed' \in {followed, followed \cup {c}}
  BY DEF AddFollowed
<1> QED
  BY <1>2, <1>3, <1>4, FollowedIs

LEMMA AppearPreserves ==
  ASSUME TypeOK, NEW c \in Call, AppearIncoming(c) \/ AppearExisting(c)
  PROVE  Preserved
<1>0. calls \in Calls /\ selected \in Selected
  BY DEF TypeOK
<1>1. CASE AppearIncoming(c)
  <2> DEFINE b == [Built(c, "INITIALIZATION") EXCEPT !.late = @ \cup {c}]
  <2>1. b \in Calls /\ b.state = [calls.state EXCEPT ![c] = "INITIALIZATION"]
    BY <1>0, BuiltIs DEF CallState
  <2>2. /\ calls' \in Answered(b, c) /\ selected' = Entered(b, calls', c)
        /\ followed' = AddFollowed(c)
    BY <1>1 DEF AppearIncoming
  <2> HIDE DEF b
  <2>3. /\ selected' \in Selected /\ selected'.individual = selected.individual
        /\ Own(selected) => Own(selected')
        /\ Live(calls', selected, selected')
    BY <1>0, <2>1, <2>2, EnteredIs
  <2>4. TypeOK'
    BY <2>1, <2>2, <2>3, EnteringIs
  <2> QED
    BY <2>3, <2>4 DEF Preserved, Follow
<1>2. CASE AppearExisting(c)
  <2>1. PICK st \in {"INITIALIZATION", "PROGRESS", "FINISHED"} :
          /\ calls' = Built(c, st) /\ selected' = Added(calls', c)
          /\ followed' = AddFollowed(c)
    BY <1>2 DEF AppearExisting
  <2>2. calls' \in Calls /\ calls'.state = [calls.state EXCEPT ![c] = st]
    BY <1>0, <2>1, BuiltIs DEF CallState
  <2>3. /\ \A d \in Call \ {c} : calls'.state[d] = calls.state[d]
        /\ calls'.state[c] # "NONE"
    BY <1>0, <2>2 DEF Calls
  <2>4. calls' \in Answered(calls', c)
    BY DEF Answered
  <2>5. selected' = Entered(calls', calls', c)
    BY <2>1 DEF Entered
  <2>6. /\ selected' \in Selected /\ selected'.individual = selected.individual
        /\ Own(selected) => Own(selected')
        /\ Live(calls', selected, selected')
    BY <1>0, <2>2, <2>4, <2>5, EnteredIs
  <2>7. followed' \in {followed, followed \cup {c}}
    BY <2>1 DEF AddFollowed
  <2>8. TypeOK'
    BY <2>2, <2>3, <2>6, <2>7, FollowedIs
  <2> QED
    BY <2>6, <2>8 DEF Preserved, Follow
<1> QED
  BY <1>1, <1>2

LEMMA ReceivePreserves ==
  ASSUME TypeOK, NEW c \in Call, Receive(c)
  PROVE  Preserved
<1>0. calls \in Calls /\ selected \in Selected
  BY DEF TypeOK
<1> DEFINE b     == Built(c, "INITIALIZATION")
           added == Entered(b, calls', c)
<1>1. b \in Calls /\ b.state = [calls.state EXCEPT ![c] = "INITIALIZATION"]
  BY <1>0, BuiltIs DEF CallState
<1>2. /\ calls' \in Answered(b, c) /\ selected' = setCall(calls', added, c)
      /\ followed' = AddFollowed(c)
  BY DEF Receive
<1> HIDE DEF b
<1>3. /\ added \in Selected
      /\ added.individual = selected.individual /\ added.timeline = selected.timeline
      /\ Own(selected) => Own(added)
  BY <1>0, <1>1, <1>2, EnteredIs
<1>4. calls' \in Calls /\ (selected' \in Selected => TypeOK')
  BY <1>1, <1>2, EnteringIs
<1> HIDE DEF added
<1>5. /\ selected' \in Selected
      /\ Shows(calls', c, selected')
      /\ Own(added) => selected'.crashed \/ Own(selected')
      /\ Follow(added, selected')
  BY <1>2, <1>3, <1>4, SetCallIs
<1> QED
  BY <1>3, <1>4, <1>5 DEF Preserved, Asks, Follow

LEMMA ReceiveLatePreserves ==
  ASSUME TypeOK, NEW c \in Call, ReceiveLate(c)
  PROVE  Preserved
<1>0. calls \in Calls /\ selected \in Selected
  BY DEF TypeOK
<1> DEFINE b    == [calls EXCEPT !.late = @ \ {c}]
           told == Told(followed, calls', selected, c)
<1>1. b \in Calls /\ b.state = calls.state
  BY <1>0 DEF Calls
<1>2. /\ calls' \in Answered(b, c) /\ selected' = setCall(calls', told, c)
      /\ followed' = followed
  BY DEF ReceiveLate
<1> HIDE DEF b
<1>3. /\ calls' \in Calls
      /\ \A d \in Call \ {c} : calls'.state[d] = calls.state[d]
      /\ calls'.state[c] \in {calls.state[c], "FINISHED"}
  BY <1>1, <1>2, AnsweredIs
<1>4. /\ slotCallRemoved(calls', selected) \in Selected
      /\ slotCallRemoved(calls', selected).individual = selected.individual
      /\ slotCallRemoved(calls', selected).timeline = selected.timeline
      /\ Own(selected) => Own(slotCallRemoved(calls', selected))
  BY <1>0, <1>3, SlotsAre
<1>5. /\ told \in Selected
      /\ told.individual = selected.individual /\ told.timeline = selected.timeline
      /\ Own(selected) => Own(told)
  BY <1>0, <1>4 DEF Told
<1> HIDE DEF told
<1>6. /\ selected' \in Selected
      /\ Shows(calls', c, selected')
      /\ Own(told) => selected'.crashed \/ Own(selected')
      /\ Follow(told, selected')
  BY <1>2, <1>3, <1>5, SetCallIs
<1>7. c \in followed => calls.state[c] # "NONE"
  BY DEF TypeOK
<1>8. TypeOK'
  BY <1>2, <1>3, <1>6, <1>7, FollowedIs
<1> QED
  BY <1>5, <1>6, <1>8 DEF Preserved, Asks, Follow

\* A change of state: the selection stays, or drops its call.
LEMMA MovesIs ==
  ASSUME TypeOK, NEW c \in Call, Moves(c)
  PROVE  /\ calls' \in Calls /\ followed' = followed
         /\ \A d \in Call \ {c} : calls'.state[d] = calls.state[d]
         /\ calls'.state[c] # "NONE"
         /\ selected' = Told(followed, calls', selected, c)
<1>1. PICK st \in Onward(calls.state[c]) : calls' = [calls EXCEPT !.state[c] = st]
  BY DEF Moves
<1>2. st \in CallState /\ st # "NONE"
  BY <1>1 DEF Onward, CallState
<1>3. calls \in Calls /\ calls.state \in [Call -> CallState]
  BY DEF TypeOK, Calls
<1>4. calls' \in Calls /\ calls'.state = [calls.state EXCEPT ![c] = st]
  BY <1>1, <1>2, <1>3, CallsType
<1> QED
  BY <1>2, <1>3, <1>4 DEF Moves

LEMMA MovesPreserves ==
  ASSUME TypeOK, NEW c \in Call, Moves(c)
  PROVE  Preserved
<1>0. calls \in Calls /\ selected \in Selected
  BY DEF TypeOK
<1>1. /\ calls' \in Calls /\ followed' = followed
      /\ \A d \in Call \ {c} : calls'.state[d] = calls.state[d]
      /\ calls'.state[c] # "NONE"
      /\ selected' = Told(followed, calls', selected, c)
  BY MovesIs
<1>2. selected' \in {selected, slotCallRemoved(calls', selected)}
  BY <1>1 DEF Told
<1>3. /\ slotCallRemoved(calls', selected) \in Selected
      /\ slotCallRemoved(calls', selected).individual = selected.individual
      /\ slotCallRemoved(calls', selected).call = None
         \/ slotCallRemoved(calls', selected) = selected
      /\ Own(selected) => Own(slotCallRemoved(calls', selected))
  BY <1>0, <1>1, SlotsAre
<1>4. TypeOK'
  BY <1>0, <1>1, <1>2, <1>3, FollowedIs
<1> QED
  BY <1>2, <1>3, <1>4 DEF Preserved, Follow, Live

LEMMA DialIs ==
  ASSUME TypeOK, NEW c \in Call, Dial(c)
  PROVE  /\ Preserved
         /\ calls.state[c] = "NONE"
         /\ \A d \in Call \ {c} : calls'.state[d] = calls.state[d]
<1>0. calls \in Calls /\ calls.state \in [Call -> CallState] /\ selected \in Selected
  BY DEF TypeOK, Calls
<1>1. "DIALING" \in CallState
  BY DEF CallState
<1>2. calls' = [calls EXCEPT !.state[c] = "DIALING", !.list = Append(@, c)]
  BY DEF Dial
<1>3. calls' \in Calls /\ calls'.state = [calls.state EXCEPT ![c] = "DIALING"]
  BY <1>0, <1>1, <1>2, CallsType
<1>4. /\ \A d \in Call \ {c} : calls'.state[d] = calls.state[d]
      /\ calls'.state[c] # "NONE"
  BY <1>0, <1>3
<1>5. followed' = followed /\ selected' = selected /\ calls.state[c] = "NONE"
  BY DEF Dial
<1>6. TypeOK'
  BY <1>0, <1>3, <1>4, <1>5, FollowedIs
<1> QED
  BY <1>4, <1>5, <1>6 DEF Preserved, Live, Follow

LEMMA StepPreserves == TypeOK /\ Next => Preserved
<1> SUFFICES ASSUME TypeOK, Next PROVE Preserved
  OBVIOUS
<1>0. ~selected.crashed
  BY DEF Next
<1>1. CASE \/ \E i \in Individual : SelectIndividual(i) \/ SelectPerson(i)
           \/ \E m \in ContactMethod : SelectContactMethod(m)
           \/ \E c \in Call : SelectCall(c)
           \/ ReadViews
  BY <1>0, <1>1, SelectPreserves
<1>2. ASSUME NEW c \in Call, Dial(c) PROVE Preserved
  BY <1>2, DialIs
<1>3. ASSUME NEW c \in Call, Place(c) PROVE Preserved
  BY <1>0, <1>3, PlacePreserves
<1>4. ASSUME NEW c \in Call, AppearIncoming(c) \/ AppearExisting(c) PROVE Preserved
  BY <1>4, AppearPreserves
<1>5. ASSUME NEW c \in Call, Receive(c) PROVE Preserved
  BY <1>5, ReceivePreserves
<1>6. ASSUME NEW c \in Call, ReceiveLate(c) PROVE Preserved
  BY <1>6, ReceiveLatePreserves
<1>7. ASSUME NEW c \in Call, Moves(c) PROVE Preserved
  BY <1>7, MovesPreserves
<1> QED
  BY <1>1, <1>2, <1>3, <1>4, <1>5, <1>6, <1>7 DEF Next

\* A followed call that ends is dropped with its signal,
LEMMA MovesDrop ==
  ASSUME TypeOK, NEW c \in Call, Moves(c), NEW d \in Call,
         selected'.call = d, calls'.state[d] = "FINISHED"
  PROVE  selected.call = d /\ (calls.state[d] = "FINISHED" \/ d \notin followed)
<1>0. selected \in Selected /\ d # None
  BY Domains DEF TypeOK
<1>1. /\ calls' \in Calls
      /\ \A e \in Call \ {c} : calls'.state[e] = calls.state[e]
      /\ selected' = Told(followed, calls', selected, c)
  BY MovesIs
<1>2. /\ slotCallRemoved(calls', selected).call = None
         \/ slotCallRemoved(calls', selected) = selected
      /\ selected.call # None /\ calls'.state[selected.call] = "FINISHED"
           => slotCallRemoved(calls', selected).call = None
  BY <1>0, <1>1, SlotsAre
<1>3. CASE c \in followed
  BY <1>0, <1>1, <1>2, <1>3 DEF Told
<1>4. CASE c \notin followed
  BY <1>1, <1>4 DEF Told
<1> QED
  BY <1>3, <1>4

\* and no other step ends one, but the automatic answer to a late incomingCall.
LEMMA OthersEndNone ==
  ASSUME TypeOK, NEW d \in Call, calls'.state[d] = "FINISHED",
         \/ \E c \in Call : \/ Dial(c) \/ Place(c) \/ AppearIncoming(c) \/ AppearExisting(c)
                             \/ Receive(c) \/ ReceiveLate(c)
         \/ calls' = calls
  PROVE  calls.state[d] = "FINISHED" \/ d \notin followed \/ ReceiveLate(d)
<1>0. /\ calls \in Calls /\ calls.state \in [Call -> CallState]
      /\ \A e \in followed : calls.state[e] # "NONE"
  BY DEF TypeOK, Calls
<1>1. ASSUME NEW c \in Call, Dial(c) PROVE calls.state[d] = "FINISHED" \/ d \notin followed
  BY <1>0, <1>1, DialIs
<1>2. ASSUME NEW c \in Call, Place(c) PROVE calls.state[d] = "FINISHED"
  <2>1. "INITIALIZATION" \in CallState /\ calls' = [calls EXCEPT !.state[c] = "INITIALIZATION"]
    BY <1>2 DEF CallState, Place
  <2>2. calls'.state = [calls.state EXCEPT ![c] = "INITIALIZATION"]
    BY <1>0, <2>1, CallsType
  <2> QED
    BY <1>0, <2>2
<1>3. ASSUME NEW c \in Call, AppearIncoming(c) \/ AppearExisting(c) \/ Receive(c)
      PROVE  calls.state[d] = "FINISHED" \/ d \notin followed
  <2>1. calls.state[c] = "NONE"
    BY <1>3 DEF AppearIncoming, AppearExisting, Receive
  <2>2. ASSUME NEW b \in Calls, calls' \in Answered(b, c),
               b.state = [calls.state EXCEPT ![c] = "INITIALIZATION"]
        PROVE  \A e \in Call \ {c} : calls'.state[e] = calls.state[e]
    BY <1>0, <2>2, AnsweredIs
  <2>3. CASE AppearIncoming(c)
    <3>1. calls' \in Answered([Built(c, "INITIALIZATION") EXCEPT !.late = @ \cup {c}], c)
      BY <2>3 DEF AppearIncoming
    <3> QED
      BY <1>0, <2>1, <2>2, <3>1, BuiltIs DEF CallState
  <2>4. CASE Receive(c)
    <3>1. calls' \in Answered(Built(c, "INITIALIZATION"), c)
      BY <2>4 DEF Receive
    <3> QED
      BY <1>0, <2>1, <2>2, <3>1, BuiltIs DEF CallState
  <2>5. CASE AppearExisting(c)
    <3>1. PICK st \in {"INITIALIZATION", "PROGRESS", "FINISHED"} : calls' = Built(c, st)
      BY <2>5 DEF AppearExisting
    <3>2. calls'.state = [calls.state EXCEPT ![c] = st]
      BY <1>0, <3>1, BuiltIs DEF CallState
    <3> QED
      BY <1>0, <2>1, <3>2
  <2> QED
    BY <1>3, <2>3, <2>4, <2>5
<1>4. ASSUME NEW c \in Call, ReceiveLate(c) PROVE calls.state[d] = "FINISHED" \/ c = d
  <2> DEFINE b == [calls EXCEPT !.late = @ \ {c}]
  <2>1. b \in Calls /\ b.state = calls.state
    BY <1>0 DEF Calls
  <2>2. calls' \in Answered(b, c)
    BY <1>4 DEF ReceiveLate
  <2> HIDE DEF b
  <2>3. \A e \in Call \ {c} : calls'.state[e] = b.state[e]
    BY <2>1, <2>2, AnsweredIs
  <2> QED
    BY <2>1, <2>3
<1> QED
  BY <1>1, <1>2, <1>3, <1>4

LEMMA InitType == Init => TypeOK
  BY DEF Init, TypeOK, Calls, Selected, CallState

LEMMA Stutters == TypeOK /\ UNCHANGED vars => TypeOK'
  BY DEF vars, TypeOK

\* The selection, the calls and the list keep their types.
THEOREM TypeCorrect == Spec => []TypeOK
<1>1. TypeOK /\ [Next]_vars => TypeOK'
  BY StepPreserves, Stutters DEF Preserved
<1> QED
  BY InitType, <1>1, PTL DEF Spec

\* The contact method is one of the individual's, whatever was selected in which order.
THEOREM OwnContactMethodCorrect == Spec => []OwnContactMethod
<1>1. Init => OwnContactMethod
  BY DEF Init, OwnContactMethod
<1>2. TypeOK /\ OwnContactMethod /\ [Next]_vars => OwnContactMethod'
  <2> SUFFICES ASSUME TypeOK, OwnContactMethod, [Next]_vars PROVE OwnContactMethod'
    OBVIOUS
  <2>1. CASE Next
    <3>1. Own(selected)
      BY <2>1 DEF Next, OwnContactMethod, Own
    <3>2. selected'.crashed \/ Own(selected')
      BY <2>1, <3>1, StepPreserves DEF Preserved
    <3> QED
      BY <3>2 DEF OwnContactMethod, Own
  <2>2. CASE UNCHANGED vars
    BY <2>2 DEF vars, OwnContactMethod
  <2> QED
    BY <2>1, <2>2
<1> QED
  BY TypeCorrect, <1>1, <1>2, PTL DEF Spec

\* No handler brings back a call that is over, unless the client or the daemon asks for it,
\* and a followed call is dropped when it ends.
THEOREM EndedCallIsDroppedCorrect == Spec => EndedCallIsDropped
<1>1. ASSUME TypeOK, Next, NEW d \in Call, selected'.call = d, calls'.state[d] = "FINISHED"
      PROVE  \/ selected.call = d /\ (calls.state[d] = "FINISHED" \/ d \notin followed)
             \/ SelectCall(d) \/ Receive(d) \/ ReceiveLate(d)
  <2>0. d # None /\ ~IsActive(calls', d)
    BY <1>1, Domains DEF IsActive
  <2>1. CASE \E c \in Call : Moves(c)
    BY <1>1, <2>1, MovesDrop
  <2>2. CASE ~\E c \in Call : Moves(c)
    <3>1. \/ Live(calls', selected, selected')
          \/ \E c \in Call : Asks(c) /\ Shows(calls', c, selected')
      BY <1>1, StepPreserves DEF Preserved
    <3>2. CASE \E c \in Call : Asks(c) /\ Shows(calls', c, selected')
      BY <1>1, <2>0, <3>2 DEF Asks, Shows
    <3>3. CASE Live(calls', selected, selected')
      <4>1. selected.call = d
        BY <1>1, <2>0, <3>3 DEF Live
      <4>2. \/ \E c \in Call : \/ Dial(c) \/ Place(c) \/ AppearIncoming(c)
                              \/ AppearExisting(c) \/ Receive(c) \/ ReceiveLate(c)
            \/ calls' = calls
        BY <1>1, <2>2 DEF Next, SelectIndividual, SelectPerson, SelectContactMethod,
                          SelectCall, ReadViews
      <4>3. calls.state[d] = "FINISHED" \/ d \notin followed \/ ReceiveLate(d)
        BY <1>1, <4>2, OthersEndNone
      <4> QED
        BY <4>1, <4>3
    <3> QED
      BY <3>1, <3>2, <3>3
  <2> QED
    BY <2>1, <2>2
<1>2. TypeOK /\ [Next]_vars =>
        [ \A c \in Call :
            selected'.call = c /\ calls'.state[c] = "FINISHED" =>
              \/ selected.call = c /\ (calls.state[c] = "FINISHED" \/ c \notin followed)
              \/ SelectCall(c) \/ Receive(c) \/ ReceiveLate(c) ]_vars
  BY <1>1
<1> QED
  BY TypeCorrect, <1>2, PTL DEF Spec, EndedCallIsDropped

\* The timeline changes with the individual, except in setPerson().
THEOREM TimelineFollowsCorrect == Spec => TimelineFollows
<1>1. TypeOK /\ [Next]_vars =>
        [ selected'.individual # selected.individual =>
            \/ selected'.timeline = selected'.individual
            \/ \E i \in Individual : SelectPerson(i) ]_vars
  BY StepPreserves DEF Preserved, Follow
<1> QED
  BY TypeCorrect, <1>1, PTL DEF Spec, TimelineFollows
=============================================================================
