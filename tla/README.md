# libringqt in TLA+

libringqt is the client library of the Ring (Jami) daemon: a set of Qt item
models over calls, accounts, contacts, media and history. The daemon does the
communication; the library keeps objects that mirror it, changes them at once
when the user acts, and corrects them when the daemon's signals arrive through
the event loop. "LibRingQt is internally implemented as a set of state
machines" (`src/src/README.md`), and its promise to the views is to expose
"up to date and valid data" at all times. This directory holds TLA+ models of
those state machines, model-checked with TLC, and theorems about them checked
with TLAPS.

## The system

| Component | State it keeps | Operations | Hard behaviour |
|---|---|---|---|
| Call state machine (`call.cpp`, `call.h`, `private/call_p.h`) | state, hold flags, three contact methods (dialed number, peer, transfer number), account, daemon identifier, timer and time stamps, media, missed flag, failure reason | `performAction()` by two 17x7 tables, `stateChanged()` by two 17x9 tables, number editing, life cycle callbacks | the object moves before the daemon answers; requests fail; events are in flight when the user acts |
| Call list and conferences (`callmodel.cpp`) | the rows (`m_lInternalModel`), the children of each conference, `m_shDringId`, parents | dialing, incoming and existing calls, `addConference`, `removeCall`, the queued daemon slots, auto cleaning | deferred removals, conference signals that cross, two objects for one daemon call |
| User actions (`useractionmodel.cpp`) | availability of each action, per call state and account state | `execute()` | the action is offered on a state that may have passed |
| Account editing (`account.cpp`, `accountmodel.cpp`) | edit state, details, the reload lock; the list of accounts and what was deleted from it | `<<` with a 7x7 table: edit, modify, reload, save, cancel, remove; save and cancel of the list | the daemon changes an account that is being edited; the list is rebuilt while an account is created or taken out |
| Contact methods and individuals (`contactmethod.cpp`, `individual.cpp`, `individualdirectory.cpp`) | the directory of addresses, lists of active and starting calls, the shared private data of duplicates, the person | registration of calls, `getNumber()`, `setAccount()`, merging, answers of the name service | the account and the name of an address come after it was used; the contact method of a call is replaced while the call starts |
| Media (`media/*.cpp`) | state of each medium, mute flags | attach, mute, unmute, terminate | media created and deleted by callbacks of the call |
| Text recording (`media/textrecording.cpp`, `mimemessage.cpp`) | messages with a status, the counters by status, the messages that wait for a verdict, the saved files | send, receive, mark, status from the daemon, clear, merge, load | verdicts that come after the message was read, cleared or left in a merged recording; restarts |
| Persons and collections (`picocms/`, `person.cpp`) | items per collection, loading and enabling | enable, load, add, edit, remove | placeholders adopted by late loaded items |
| Calendar (`libcard/`) | events per account and time | `addEvent()` on the end of a call | the same call archived once |
| QML selection (`libringqtquick/src/sharedmodellocker.cpp`) | the current individual, contact method, call, timeline and list view | `setCall()`, `setIndividual()`, `setPerson()`, ..., a call that asks for attention | handlers that call each other half way, with calls that begin and end meanwhile |
| Troubleshooting, availability tracker, contact requests, name service, certificates, video renderers, devices and codecs, view proxies | see `PROJECT.json` | | |

Components talk in three ways. A view calls a method, which runs to its end on
the one GUI thread. An object emits a signal, and the slots of the other
objects run inside the emission (direct connections) or later (`singleShot(0)`,
queued connections). The daemon runs in its own threads or process; its
signals are queued to the GUI thread (`CallModelPrivate::init`), in order, and
requests to it are answered synchronously. So an action of a model below is
one handler, entire, and what interleaves is handlers, with daemon events in
flight between them.

What makes each component correct, beyond having the right types:

- **Call.** No daemon call outlives the object that stands for it; a call is
  placed once; hold and unhold converge whatever races them; the object catches
  up with the daemon and enters the history when it ends; contact methods, media
  and the clock follow the life cycle; the life cycle goes forward.
- **Call list.** One object per daemon call; a live call is always in the list,
  under the right conference; what ended leaves, what was missed stays.
- **Accounts.** Edits are not overwritten by signals; at rest, what is shown as
  synchronized is what the daemon has, and the list is the daemon's list; an
  account being created, and one taken out, are left as the user put them.
- **Contact methods and individuals.** Objects that were merged reach the same
  peer by the same account; an address is answered with an object that reaches it;
  what is learnt of an object is not lost.
- **Text messages.** What is shown of a delivery is what the daemon said, whenever it
  said it; a message being sent gets its verdict; the counters and the files agree
  with the messages.
- **QML selection.** The contact method is one of the individual that is shown, the
  timeline is of that individual, and no handler brings back a call that is over.
- **Media, collections, calendar, troubleshooting, contact requests** (not modelled, or
  only at the edge of a call). A medium is muted exactly when the user or the daemon
  asked last; a placeholder is adopted once; a request that was answered does not
  come back.

The hazards of the code, each at its line, are in `PROJECT.json`, with the
properties that cover them.

## The modules

| Module | What it is |
|---|---|
| `CallStates` | the states, actions and daemon states of a call, and the six tables of `call.cpp:92-236` as functions |
| `UserActionModel` | which of the actions the interface offers, from the tables of `useractionmodel.cpp` |
| `Call` | one `Call` object, the daemon call behind it and the events between them |
| `CallLifeCycle` | the abstract specification of a call: a stage that only goes forward, audio while the peers talk, history when it is over |
| `CallProperties` | the properties of `Call`, and the refinement of `CallLifeCycle` |
| `MCCall` | instances of `Call` for TLC |
| `CallProofs` | theorems on `Call`: types and registration; audio, one placement, the step simulation of `CallLifeCycle`, the end of a call, and that the object and the daemon agree |
| `CallModel`, `CallModelProperties`, `MCCallModel`, `CallModelProofs`, `ConferenceProofs` | the list of calls and conferences, over the tables of `CallStates`; theorems on its calls, and on its conferences |
| `AccountModel`, `AccountModelProperties`, `MCAccountModel`, `AccountProofs` | the accounts, their edit states and their list; theorems on them |
| `SequenceFolds` | what a fold over a set or a sequence computes: the lemmas that the proofs about the loops of the code share |
| `MessageStates` | the statuses of a message and the three tables of `mimemessage.cpp` as functions |
| `TextRecording`, `TextRecordingProperties`, `MCTextRecording`, `TextRecordingProofs` | the messages of the contact methods, their verdicts, counters and files; theorems on them |
| `Selection`, `SelectionProperties`, `MCSelection`, `SelectionProofs` | what a QML client has selected, while calls come and go; theorems on it |
| `IndividualDirectory`, `IndividualDirectoryProperties`, `MCIndividualDirectory`, `IndividualDirectoryProofs` | the directory of contact methods, what it answers and what it merges; theorems on it |

`CallModel` composes many calls and conferences with one daemon, each call
reduced to the four tables and to its missed flag; `Call` is the detailed model
of one of them. Both take the tables from `CallStates`, so that they agree on them.

### Call

`call` is `CallPrivate`: `state` is `m_CurrentState`, `hold` is `m_fHoldFlags`,
`dial`, `peer` and `transferTo` are `m_pDialNumber`, `m_pPeerContactMethod` and
`m_pTransferNumber` (a contact method stands for its number), `id` is
`m_DringId`, `timer` the `QTimer`, `stop` tells whether `m_pStopTimeStamp` is set,
`audio` counts the audio media, `active` and `init` are the contact methods whose
`addActiveCall()` and `addInitCall()` list the call, `logged` whether the calendar
has it. `ring` is the daemon: its calls, and the queue of `callStateChanged`
signals on their way through the Qt queued connection.

`performAction()` moves the state by `actionPerformedStateMap`, runs the life
cycle callbacks (`changeCurrentState()`), then the member function that
`actionPerformedFunctionMap` names. Each of these member functions is an action
of the module (`Accept`, `Refuse`, `HangUp`, `Hold`, `PlaceCall`, ...), which holds
all of this, its request to the daemon, and what it does when the daemon says no.
`Deliver` is `slotCallStateChanged()` of a known call with all of
`CallPrivate::stateChanged()`, the callbacks of `stateChangedFunctionMap`, and the
calendar. Number editing is `AppendText`, `Backspace`, `Reset` and the setters,
and `AttendedTransfer` and `UnattendedTransfer` are the two of `CallModel`.

The daemon is external. What is assumed of it: it answers requests from the
state in which it is, its signals arrive in the order they were emitted, a call
that has ended is still known until it emits `OVER`, refusing or hanging up fails
only for a call that it has forgotten, and a transfer may fail in silence. The
transfers assume that the daemon knows the calls. Recording answers anything.
`deleteLater()` through a null pointer in a second `call()` is taken as Qt takes
it, as nothing.

### CallModel

`model.rows` is `m_lInternalModel`, `model.call` the objects with their parent and
children (`InternalStruct`), `model.known` is `m_shDringId`; an object is a number
and zero is the null pointer. `checks` and `removals` are the two timers in a row
that remove a call that is over (`slotCallChanged()` and `slotCallStateChanged()`,
then `m_AutoCleanDelay`). `started` is the delayed listing of `init()`, `answer` the
`autoAnswerStatus()` of the account, and `crashed` a null pointer dereferenced,
after which nothing happens. Each slot is one step. A slot reads participants and
call details when it runs and not when the signal was emitted, and so does the model.
`slotCallChanged()` is run for every object that changes its state, although the code connects it
only to those that are not over when they are built (`addCall2()`, callmodel.cpp:552): the
model has timers for the others too, which find no row of theirs and may at most take out
an empty conference (`Sweep`) early: it has those behaviours besides the ones of the code.

Assumed of the daemon: the three conference states of `private/call_p.h:52-58`; a
call in a conference is not joined into another one; leaving reports
`conferenceChanged`, and a conference with fewer than two participants is later
dissolved with `conferenceRemoved`; hanging up a call that takes part reports the
conference first; the two signals that announce an incoming call race. Left out:
the order in which `removeCall()` meets the rows that its loop changes, history
calls, drag and drop, and the selection. `addParticipant()` never reaches the daemon
(see below) and has no action.

### AccountModel

`accounts.acc` are the `Account` objects, each with its identifier, edit state and
details; `rows` is `m_lAccounts`, `deleted` is `m_lDeletedAccounts`. `performAction()`
is `stateMachineActionsOnState` with the function it names; `Deliver` is
`updateAccounts()` or `slotDaemonAccountChanged()`, both behind queued connections.
All the details are one value, which may be incomplete. The daemon emits
`accountsChanged` for each addition, change and removal, its own clients' included;
it may refuse to make an account, and keep other details than those it was given.
`taken` is a history variable: what the user took out and was not built again.
Left out: credentials, codecs, devices, migration, placeholders, the order of the
list, and objects that nothing acts on any more.

### TextRecording

`message` is `m_lNodes` of all recordings, `pending` is `m_hPendingMessages`, `counter`
is `m_mMessageCounter`, `main` the recording that `textRecording()` gives for a contact
method, and `saved` the JSON files. Sending, receiving, `Mark` (`setAsRead()`,
`setAsUnread()`), `SetAllRead`, `Merge`, `Clear` and `Restart` are one handler each;
`Deliver` is `accountMessageStatusChanged()` with `updateMessageStatus()`, when the
event loop comes to it. `stateMapIn`, `stateMapOut` and `daemonStateMap` are the tables
of `MessageStates`.

The daemon is external: it retries, sends or gives up each message that it was given,
its signals stay in order, and it has no more to say once a message is read. A restart
loads every file and loses the queue. `Clear` frees messages that may still be pending
(`textrecording.cpp`, `clear()`): what a later verdict does with one is left open
(`DeliverDangling`), between reading what was there and the crash that `Restart` is.
A contact method into which another was merged is not merged again, since the code
then leaves a dangling pointer (see `merged_dangles`).

Left out: the running totals `m_UnreadCount` and that of `RecordingModel`, which drift
and are only compared with zero for a notification; snapshots, for `insertNewSnapshot()`
uses a null contact method (538-570); the payloads, and the item model. A message of
a call in progress goes to the recording that is the main one when it is sent, whereas `Media::Text`
keeps the one that it found at its first use: the two differ when the contact method was merged
in between.

### Selection

`selected` is `SharedModelLockerPrivate`: `m_pIndividual`, `m_pContactMethod`, `m_pCall`,
whose timeline and whose list view. `calls` is as much of the `CallModel` as
the selection can tell, and `followed` the calls whose changes are connected to
`slotCallRemoved()`. The handlers call each other, so each is a function from a
selection to the next, under the name it has in the code, and an action is what the
outermost one does. A call asks for attention while it is placed, between its change
of state and its registration; when it is received, it does after both: `Place` and `Receive` keep
those orders. A call may also be built by a signal of its state, without a request for attention:
by `addIncomingCall()`, and then its own `incomingCall` is late (`calls.late`), or by
`addExistingCall()`, in any state. `ReceiveLate` is `slotIncomingCall()` of such a call: it
asks for attention whatever has become of the call, and answers it a second time. `AutoAnswered` are
the calls whose account answers by itself; the answer may leave the call as it is or take it to ERROR.

The client may select a call in any state, an ended one included: `showCall()` refuses only
NEW and DIALING, and `setCall()`, which writes the property, refuses none. Ended calls stay in
`calls.list` (a missed one stays in the code, others leave later), since `firstActiveCall()` skips them;
one that had ended when it was built is never listed.

`crashed` is the null individual that `setIndividual()` uses when a call is selected and
no individual is (171, under "There is nothing yet, wait", 112); nothing happens after
it, so the run does not check deadlock. Left out: null pointers that the client writes (`setCall()`
and `setPerson()` use them, 372 and 202); a call that is dialed again with another peer; conferences;
a call dialed by keypad, whose temporary contact method has no call to compare with; the lenses, cached like the list
view; the selection model of `CallModel`; and the QML side.

### IndividualDirectory

`dir.directory` is `m_hDirectory`, a list of objects for each text; an object is the
place that it was created in, `dir.data` its `d_ptr`, and `dir.private` the shared
private data. `getNumber()`, `setAccount()`, `merge()` and the loops of
`slotRegisteredNameFound()` are functions from a directory to the next, for they call
each other; the two actions are a request, and an answer of the name service.
An address is a user part and a host part, of which only the length is known besides,
since `merge()` keeps the longer text.

The name service is external: it answers for a RING account, or its cache does
without one, at any time, and any number of times. Lists have no second entry for one
object, since it would be skipped. The model ends where deleted data is used
(`Usable`); `merged_dangles` shows that it happens.
Left out: addresses that come with a person or an individual, IP2IP accounts, and the
popularity index. The two overloads that take less or more are left out as they are:
`getNumber(uri, type)` locks a mutex that is not recursive twice for an address that
is not known (675, then 752), and never returns; the one that takes an individual uses a null
one and unlocks what is not locked (617, 640).

## The runs

All bounds are constants of the modules. `MaxQueue` bounds the signals (and, in
`CallModel`, timers) pending when somebody else acts; one step may still add several.

| Run | Instance | States | Shows |
|---|---|---|---|
| `call_offered` | what the interface offers, 1 peer, 2 daemon calls, 3 events | 7 k | `NoForgottenDaemonCall`, `PlacedOnce`, `HoldAgrees`, `CatchesUp` |
| `call_edited` | the same with keyboard and transfers, 2 peers, 1 daemon call | 34 k | `Registered`, `AudioFollowsProgress`, `TransitionIsExpected`, `ImplementsLifeCycle` |
| `call_api` | the five actions with a column in the table, in any state, also on a call of another client | 1.5 M | `TypeOK`, `ClockIsKept`, `EndedCallIsLogged`, `NothingLingers` |
| `model_calls` | 2 calls, dialed, received and foreign, ending well and badly | 511 k | `EstablishedIsListed`, `OneObject`, `EndedCallLeaves`, `MissedCallStays` |
| `model_conferences` | 3 established calls, 2 conferences | 1.4 M | `TypeOK`, `LiveCallIsKept`, `ConferencesAgree` |
| `accounts` | 2 identifiers, another client, complete and incomplete details | 482 k | `TypeOK`, `Synchronized`, `ListMatchesDaemon`, `OneRow`, `EditsSurvive` |
| `text_messages` | 2 contact methods, 2 messages, 2 signals | 416 k | `TypeOK`, `CountersAgree`, `SavedAgrees`, `SendingIsTracked`, `VerdictIsTrue`, `VerdictArrives` |
| `selection` | 2 people, one of them with 2 addresses, 3 calls, one of them answered automatically | 1.3 M | `TypeOK`, `OwnContactMethod`, `EndedCallIsDropped`, `TimelineFollows` |
| `directory` | 2 users, one the registered name of the other, 2 hosts, a RING and a SIP account, 6 objects | 98 k | `TypeOK`, `MergedReachTheSame`, `SameDestination`, `AnswersAgain`, `AccountIsKept`, `NameIsKept` |
| `conference_vanishes`, `merged_dangles`, `answers_elsewhere` | the instances of `model_conferences` and `directory` | | violations, see Disagreements |

Why the bounds are enough. Calls are independent in `Call`: a second daemon
identifier only exists to see a second call placed, and a second peer to see the
number replaced by another one. Three events let a refusal race `HUNGUP` and `OVER`
of the same call, which is the longest race that the tables tell apart. Three calls
and two conferences are what a merge and a move from one conference to another
need, with two signals pending: a third and a fourth let a conference be emptied by one
signal before the list has handled the one that fills it, which is where `LiveCallIsKept`
has its second case; the run does not reach it, and the theorem covers it. Two calls in `model_calls` are enough for the identifiers and timers of one to
meet those of the other. Two account identifiers, and two objects before a new one
is created, let one account be signalled while the other is edited or created.
Two contact methods are what a merge needs, and two messages with two signals let the
verdict of one wait behind that of the other; a message is retried any number of times.
Three calls, two of them with one person, are what `firstActiveCall()` needs to take
another call than the one selected. Six objects are more than the twelve requests of `directory`
create before they all are answered with what is there.
Deadlock is checked in `accounts` and `text_messages`; a finished call, and a list whose
daemon has nothing to report, may stay as they are, and `Selection` and
`IndividualDirectory` end where a null or deleted object is used, so the other runs do
not check it.

Each property has a mutant in `PROJECT.json`: a definition changed as a plausible bug
would change it, with which TLC finds the property violated. The operators
marked "Faulty" in the modules are those mutants and nothing else uses them.

**Fairness.** `VerdictArrives` is checked under weak fairness of `Deliver`, the Qt event
loop; the daemon may never settle a message. `CatchesUp` is checked under `LiveSpec`: weak fairness of `Deliver`,
since the Qt event loop delivers what is queued, and of `RingIsOver`, since the
daemon releases a call that has ended. Nothing is assumed of the user, nor of the peer.

**Where properties stop.** `Registered`, `AudioFollowsProgress` and `HoldAgrees` do not
hold of a call that another client made: it is built directly in CURRENT or HOLD
without the callbacks. `call_api` includes such calls and checks what does hold.
`EndedCallLeaves` and `MissedCallStays` do not hold with conferences: a call that ends below
one has no row for the timers to take, and stays there; a conference that is removed puts
its calls back twice (below), and leaves out those that are over, missed or not.
`EstablishedIsListed` does not hold with automatic answers, which are given a second time to a
call that is announced late (`callmodel.cpp:673`) and take it to ERROR.
`LiveCallIsKept` does not say "listed": a call may be below a conference that the list has
taken out before the daemon ended it, and is put back only when the daemon does (below).
`ConferencesAgree` leaves such a conference out. `OneObject` needs that no signal is handled before the timer of
`init()` (`EarlySignals = FALSE`); TLC finds it violated with TRUE.
`CountersAgree` is about messages that were never cleared, and `SendingIsTracked` and
`VerdictArrives` about messages whose contact method was not merged: the verdict then
goes to the recording of the other one, which does not know the message.
`EndedCallIsDropped` says of each step that an ended call is selected after it only if the step
asked for that call (`SelectCall`, `Receive`, `ReceiveLate`), or if the call was selected before and
had ended already, or is not followed: a call is followed if its individual was selected when it
began, and one that another individual's request for attention brought on the screen stays when it
is over. `TimelineFollows` makes an exception of `setPerson()`, which keeps the timeline of before.
`SameDestination` is checked with an account of the name
service and addresses on the servers of the accounts; `answers_elsewhere` shows what
another server does to it.

## The proofs

- `CallProofs`, types: `TypeCorrect`, `Spec => []TypeOK`, for any set of peers and
  identifiers, any offered actions and any queue bound. The state tables are total
  and each handler stores what the fields can hold. `TypeOK` is inductive by itself;
  there is one lemma for each helper of the handlers and one for each group of actions.
- `CallProofs`, registration: `RegistrationCorrect`, that a call is listed by its contact
  method, and only by it, as its life cycle says. It assumes that the two actions
  without a column are not offered (`NoRecordColumn`) and that the call is this client's
  (`OwnCall`); without either, the statement is false. `Registered` is not inductive.
  A call that starts without a peer would be listed on a temporary contact method
  that is then deleted, so the invariant adds that a call in INITIALIZATION or
  PROGRESS has a peer; and since an event could start a call that has none, it also
  adds that the daemon is idle until the call is placed. The argument is then: each
  table only makes moves that keep a call registered (`ActionIsLegal`,
  `EventIsLegal`), `changeCurrentState()` keeps the lists right along such a move
  (`ChangeListed`), and each handler is a sequence of those.
- `CallProofs`, the life cycle: `AudioFollowsProgressCorrect`, `PlacedOnceCorrect` and
  `LifeCycleImplemented`, that every step of `Call` is a step of `CallLifeCycle` or a
  stutter. Besides the two assumptions above they need that ACCEPT is not offered in
  INITIALIZATION (`AcceptedOnce`), where `performAction()` would place the call again.
  The tables alone do not make the life cycle go forward: in one cell the daemon's CURRENT takes a
  call from BUSY, which is finished, to CURRENT. So `RefinementInv` has to say why
  CURRENT never follows: the events in flight are of one call, and nothing but OVER comes
  after one that ends it (`Orderly`), and a call in BUSY has only such events before
  it (`JustOver`). It adds that audio is what the state says and that what is in
  the history is finished. Orderly events come from the daemon's own moves, so each of
  them, and each request, is shown to keep the queue in order.
- `CallProofs`, the end of a call: `NothingLingersCorrect`, from registration and audio;
  `EndedCallIsLoggedCorrect`, from the invariant that a call which the daemon has
  forgotten is announced by an OVER in the queue or is finished and archived (`Archived`): OVER
  takes every state to a finished one, and nothing archived leaves the calendar;
  and `ClockIsKeptCorrect`, which needs no assumption on the actions or on the call, only that
  each callback that a table names keeps the timer and the time stamps in step
  (`Ticking`).
- `CallProofs`, object and daemon: `TransitionIsExpectedCorrect`, `HoldAgreesCorrect` and
  `NoForgottenDaemonCallCorrect`, with the assumptions of the life cycle. The object
  does not show what the daemon call is but what it was when it emitted the last
  event delivered, and the user moves it meanwhile. The invariant (`InStep`) ties the two by
  what is in flight: each state has the daemon states that it may have seen last (`View`), and the
  events in the queue lead from one of them to what the daemon call is now (`Path`). An event that is
  delivered takes the first step of that path (`EventView`), a move of the daemon or a request
  adds one at its end, and an action leads to a state with at least the same view
  (`ActionView`). With an empty queue the two agree, but for the OUT flag, which both the user and the events
  write: `Flagged` adds it, assuming that a transfer is not asked for twice
  (`TransferOnce`): the events clear the flag in TRANSF_HOLD, and a second TRANSFER
  would go back to HOLD without it.
  `NoneLeft` adds that a call that is over has no daemon call that is alive. It
  assumes that what ends a call that was placed is `cancel()` or an event
  (`EndedByRequest`): `call_api` performs ACCEPT on calls in CURRENT and the like, which sets them to ERROR
  and leaves the daemon call running.
- `TextRecordingProofs`: `TypeCorrect`, `Recoverable`, `Truthful`, `NotForgotten` and
  `Counted`, the five invariants of the run, for any number of contact methods and
  any finite set of messages. Types are not inductive here: the table of incoming messages has
  no cell for a verdict, so the invariant adds that only outgoing messages are
  pending, and that a signal says what the daemon has decided (`Basic`). `NotForgotten`
  adds where a message that is sent can be (`SentWhere`), and `Counted` that what is
  pending and not there was cleared (`PendingCleared`); the counting is by the library's theorems on
  finite sets, one message moved from a set to another at a time.
- `SelectionProofs`: `TypeCorrect`, `OwnContactMethodCorrect`, `EndedCallIsDroppedCorrect`
  and `TimelineFollowsCorrect`. There is a lemma for each handler, that says what it
  makes of the selection (`Own`, `Live`, `Shows`, `Follow`): the handlers break the
  properties half way, and the outermost one restores them. `EndedCallIsDroppedCorrect` is about
  steps: each keeps the call that was selected, drops it, or selects one that is not over
  (`Live`), or shows the one that is asked for (`Shows`); only `Moves` and the second answer
  to a late `incomingCall` end a call that is followed (`OthersEndNone`), and `Moves` drops it with
  its signal (`MovesDrop`). The types are all that has to be invariant for it.

- `SequenceFolds`: what a fold computes. The loops of the code over rows, children and
  participants are `FoldLeft` and `MapThenFoldSet`, whose library definitions choose a function
  by a recursion, and the library's induction theorems take an operator that the provers
  cannot instantiate. The module does the induction on sets instead: a set of numbers that has
  zero and is closed under successor has them all (`NatSetInduction`, from
  `WFMin`), so the recursion exists (`RecursionExists`), and what a fold returns is in the last of a
  family of sets as soon as each step leads from one to the next (`SetFoldReaches`,
  indexed by the set of elements done, `SequenceFoldReaches`, by their number). Each
  loop of the models then has one lemma with its own family, and the order of the
  loop is kept.
- `AccountProofs`: the five properties of the run, for any identifiers, details,
  operations and bounds, from one invariant (`AccountsFollow`). At rest the list is the
  daemon's, but it is not at rest while a signal is pending; so `Following` says that the list is level
  with the daemon (`Level`) or that an `accountsChanged` which makes it so is on its way
  (`Announced`), and that the objects are sound: an identifier was given by the daemon,
  and to one row. The proof that `updateAccounts()` makes the list level is the core: its
  three loops remove, build and reload rows, one lemma each. `SynchronizedCorrect` assumes that
  no account is removed by an action: CANCEL takes an edited account from REMOVED to READY as
  it is (below).
- `CallModelProofs`, types and identity: `TypeCorrect`, for any calls and conferences, also
  when the daemon acts early and when a pointer is null. A handler only makes a model
  of the same objects (`From`), or adds one for each new identifier (`Grown`); there is one lemma for
  each handler and one for each loop. `OneObjectCorrect` adds that an identifier leads to the one object
  that has it, and that one which the daemon has not given leads to none (`Separate`); it
  assumes `~EarlySignals`, without which it is false.
- `CallModelProofs`, no call is lost: `LiveCallIsKeptCorrect`. "It is listed, or below a conference
  that is" is not inductive, since a conference may be taken out too early and another
  signal may put a call below it later. The invariant (`Guarded`) is that a call that is not over has a
  row, or is a child of a conference that has one or is still standing for the daemon
  (`Safe`), that nothing but conferences and calls that are over is on its way out, that no
  call is in BUSY, the one state that is over and is left again, and that the daemon
  has participants only in conferences that it has (`Neat`). Most of a conference handler only
  adds rows and children (`Retaining`); what it takes away it moves: a participant that is adopted
  leaves its row and its former parent for the new one, and `Reconcile()` for the
  conference that the daemon has the call in, which is standing.
- `CallModelProofs`, what ended: `EndedCallLeavesCorrect` and `MissedCallStaysCorrect`, without
  conferences. Both come from where an object that is over may be (`InOrder`): it is listed
  only with a timer pending or a reason to stay, a timer runs only for what is over, the second
  one only for what was not missed, and nothing has two rows, so that the timer that
  fires takes it out entirely (`Tidy`). A handler touches one object (`Apart`).
- `CallModelProofs`, what is established: `EstablishedIsListedCorrect`, without conferences and
  automatic answers. An established call is known or the signal that says so is in the queue
  (`Awaited`); and an alive call is not said to be over, nor CONNECTING after anything else
  was said of it, since the tables make an error of that (`Said`). A handler changes the object of
  one call and a daemon step the signals of one (`Elsewhere`, `Besides`); while a
  signal is handled it is owed (`Owed`).
- `ConferenceProofs`: `ConferencesAgreeCorrect`, for any calls, conferences and
  queue bound, automatic answers included; it assumes `~EarlySignals`. At rest the rows below a conference are its
  participants, but a handler reads what the daemon has when the signal is handled, not
  when it was emitted, so that the invariant (`Agreed`) has to say what is still owed.
  The list has a conference once its `conferenceCreated` was handled and loses it by its
  `conferenceRemoved`; what it does not list although it has it is over or `Doomed`, and so is
  what a timer is about to take away (`Recorded`). What its rows have too much or too little is
  about to be corrected (`Faithful`, `Excused`): a signal about it is in the queue, before
  the one about the conference that the call has moved to. A participant that is not known is
  reported as established before its conference is told of (`ReportedBefore`), so that the
  handler finds the call it adopts. This holds because the daemon emits in order
  (`Orderly`): nothing about a conference before it is created, and its end once it is over.
  The proof has two halves. A step of the daemon or of the user takes participants
  away (`Shrunk`), or makes, fills or merges a conference and tells. A handler that is not about
  conferences leaves their rows alone (`Tame`), but for those that are doomed; one
  that is about conference f corrects its rows, and takes from another conference only what a
  later signal will put right (`Mild`), until the rows of f are filled (`Filled`).

- `IndividualDirectoryProofs`: `TypeCorrect`, `AccountIsKeptCorrect`, `NameIsKeptCorrect`,
  `MergedReachTheSameCorrect` and `SameDestinationCorrect`, for any users, hosts, accounts and
  number of objects. The five come from one invariant, proved once: objects are sorted into
  classes (`Sorted(K)`). `K` says which class an address with an account belongs to, which
  addresses and accounts one object may have, and which names a class may have; the invariant
  is that what an object was made for and what it became belong to one class, and so do
  the objects that share data and those that a text lists. Such a `K` has to be closed under
  what the code does (an account given, a host added, a name found); then each
  function keeps the directory sorted (`MergeSorted`, `SetAccountSorted`,
  `CreateSorted`, `GetNumberSorted`, `NamedSorted`, `NameFoundSorted`), and the loops that merge
  do it one object at a time with the lemmas of `SequenceFolds`. One class for everything
  gives the types and the accounts; a class for each name gives `NameIsKept`; and
  destinations as classes give the last two, for `getNumber()` answers from the class
  that was asked for (`Answers`). Types and accounts need no assumption. `NameIsKept`
  assumes `PlainNames`: a name that is registered is not itself an identifier that has
  a name. The destinations assume besides that a name is of one user
  (`UniqueNames`), which the name service is there for, and `ProperRequests`: an address
  with an account has no other host than the account's, and an identifier that has a name
  is asked for with an account of the name service. That one is not a promise of the code
  but what it relies on: without it `SameDestination` is false, as `answers_elsewhere`
  shows.

  `AnswersAgainCorrect`, under the same assumptions, asks `getNumber()` the same thing twice, and
  classes do not say which object it finds. The invariant it needs is about what the
  lists have and in which order (`Ordered`), as long as no data was deleted:
  what has no account yet is the first of its list (`Fresh`); what is listed for an
  address with a host and has the same account is merged (`Joined`); without a host, only
  the first of a list may have the account of a later one (`Ranked`); what is listed without a host
  is so for its own user part (`Rooted`); what is listed with a host is merged with an
  object of that user part or, for a name, with one that is listed for the name (`Linked`);
  and the address that objects share is one that an object of them was made for (`Worded`).
  `Named` and `NameFound` keep it (`NamedOrdered`, `NameFoundOrdered`), and so does
  each way to give an answer, of which `AnswerCases` has all seven: with the host
  of the account (`ByHost`), by the text (`ByText`, `ByAddress`), without the host (`ByShort`), by
  the account alone (`ByAny`), without an account (`Plain`) and by creation
  (`ByCreation`). The theorem then takes each of these as the first answer and compares it with
  what is found after it (`SameByHost`, `SameByText`, `SameByAddress`, `SameByCreation`; the others
  change nothing). The one hard pair is an object found by its text that the account it was
  given merged with another: it does not match the second time, and what is listed first
  with the account is the same peer by `Ranked` and `Linked` (`FirstOfText`).

The module `MCCall` states, as an assumption that TLC evaluates, that what the interface offers
satisfies `NoRecordColumn`, `AcceptedOnce`, `TransferOnce` and the part of `EndedByRequest`
that is about the actions. `OwnCall` is the choice of calls
that a run starts with. The assumptions of the theorems on `CallModel` and `AccountModel`
are met by the instances of the runs that check the same properties. `MCIndividualDirectory`
states those of the theorems on the directory of the instance of `directory`.

Only model-checked:

`CatchesUp` and `VerdictArrives`, as liveness under fairness is out of the prover's reach. Every
invariant and every action property of a passing run is the statement of a theorem, under the
assumptions above where there are any.

No module declares a RECURSIVE operator.

## Disagreements

Where the code differs from what it says of itself. With a run:

- `conference_vanishes`: a conference whose participants left before its creation is
  handled gives a null pointer that `slotIncomingConference()` uses
  (`callmodel.cpp:1521`, against 1541). `slotConferenceRemoved()` uses that of a
  conference that was never listed (1644).
- `merged_dangles`: an object that was merged into a second one is left with deleted data when
  the second is merged into a third (`contactmethod.cpp:1233`, against 1183: "existing
  ones will keep working").
- `answers_elsewhere`: an address without a host, which "should always reach the same
  destination" as with the host of the account (`individualdirectory.cpp:764`), is
  answered with the object of the same user on another server (841).

Seen while modelling, without a run of their own. The models do what the code does:

- `attendedTransfer()` is to "wait to see it it succeeded" (`callmodel.cpp:830`); it ends
  both calls at once, and a transfer that fails leaves calls in the daemon that are
  shown as over.
- A signal that is handled before the timer of `init()` builds an object for a call, and
  the timer builds another (`callmodel.cpp:188-192`, against 651: "if it has been done,
  then they should be ignored").
- Attention is requested "when a call becomes active (not dialing)" (`callmodel.h:172`), but
  `slotIncomingCall()` also requests it for a call that a state signal announced before and that
  has ended since (`callmodel.cpp:1507-1510`), and the selection shows the ended call.
- Any `accountsChanged` takes the account that is being created out of the list
  (`accountmodel.cpp:617-622`), and an account deleted by the user comes back before
  "apply" was pressed (627, against 341).
- `setAllRead()` performs READ on outgoing messages too (`textrecording.cpp:213`, against
  `mimemessage.h:84`), so one that was sent is shown as read by the peer, and marking
  unread an outgoing one, or reading one that is being sent, gives ERROR.
- The verdicts of messages sent before their contact method was merged are lost
  (`text.cpp:205`, `contactmethod.cpp:1188`). `clear()` leaves the counters, and
  pending pointers to freed messages. Unread messages of alternative
  recordings are not counted (`individual.cpp:487`).
- `if (!wrap2->numbers.indexOf(cm))` (`individualdirectory.cpp:1219`) holds for the first of
  a list alone, so the list that a name has already never gets the object, against "Only add it
  once". A request for `x` with an account may be
  answered by the early candidate (`individualdirectory.cpp:772`) without the merge
  that the request for `x@host` would make (827), so a conversation is split between two
  objects until then.
- Selecting an individual when a call is shown compares that call with the individual
  of before (`sharedmodellocker.cpp:171`); `setPerson()` keeps the timeline of before; the list
  view and the lenses stay those of the first individual. The test of
  `replaceIndividual()` for the same individual never succeeds. A call that the account
  refuses as DO_NOT_DISTURB is shown all the same. `CallBuilder::setContactMethod()` loses
  the contact method that was chosen, which `setIndividual()` resets
  (`libringqtquick/src/callbuilder.cpp:77-86`).
- RECORD_VIDEO and RECORD_TEXT have no column in `actionPerformedStateMap`
  (`call.cpp:92-112`): performed in any state they take the call back to NEW, against
  "forward only" (`private/call_p.h:178`).
- Erasing the number to transfer to aborts a call that the daemon runs
  (`call.cpp:2228`), which ABORTED, "dropped before being sent to the daemon"
  (`call.h:171`), excludes.
- `sendProfile()` may create media on a call that has failed already
  (`call.cpp:1680`, 2084); a call that ends from CURRENT has no stop time
  (`call.cpp:160`); a starting call is only listed on its temporary contact method
  (`call.cpp:1578`, 1947, against `contactmethod.h:407`).
- The hold flag is cleared in TRANSF_HOLD (`call.cpp:1389`, against `call.h:240`). A
  call refused after the daemon forgot it goes to ERROR (`call.cpp:1703`), a call
  that was cancelled here is MISSED (2103, against `call.h:254`), and one that is
  answered while the refusal is under way stays REFUSED.
- The number displayed and the number called may differ (`call.cpp:846`, 1269).
- `addParticipant()` tests `(!conference) || (call2)` (`callmodel.cpp:963`), so that it
  never adds a call.
- A conference that loses its last child to a signal about another one is swept out of the list
  while the daemon still has it; the repair of `slotChangingConference()`
  (`callmodel.cpp:1598-1609`, "Test if there is no inconsistencies between the daemon and the
  client") then puts a live call below it, where no view shows it until the daemon ends
  the conference. It takes four signals pending.
- The deferred removal of a conference appends its calls a second time
  (`callmodel.cpp:779`, 1056); the rows stay double until the calls end.
- A late announcement of an answered call runs the auto answer again (`callmodel.cpp:673`).
  A foreign call that rings out is shown as INCOMING (1435, against `call.h:156`).
- RELOAD is ignored in the MODIFIED states (`account.cpp:89`), so that a save overwrites
  what another client has changed meanwhile. An edit made in OUTDATED is itself
  overwritten (`reloadMod()`). The state NEW is never entered: an account that is being created is
  in a MODIFIED one.
- `AccountModel::save()` removes the daemon accounts it does not know (660);
  `cancel()` forgets what was deleted without bringing it back (751), and its RELOAD of
  an OUTDATED account does nothing (740). Cancelling a REMOVED account shows its
  edits as READY (`account.cpp:2829`). The counters of `AccountModel::editState()`
  drift (792-841).

## Not modelled

Presentation (item roles, proxies, completion), parsing and formats (vCard, iCalendar,
JSON history), thin wrappers over daemon properties (codecs, devices, settings), and
the platform code: they keep little state that could be wrong in an interesting order.
The video renderers use shared memory and a thread, and need a model of the daemon's
side of it. `PROJECT.json` has the reason for each component.

What could be added, most important first: the watchdog of `updated()` (`call.cpp:2324-2366`)
composed with hold and unhold; individuals that merge while their calls are listed on
both (`individual.cpp`, against an equivalence that only grows); the mute machine of
`media/media.cpp` against the daemon's `audioMuted`; placeholder persons adopted by what
a collection loads late; trust requests; and the counters of `AccountModel::editState()`.
