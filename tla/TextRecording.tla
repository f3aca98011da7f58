--------------------------- MODULE TextRecording ---------------------------
(***************************************************************************)
(* The text messages of the contact methods: a recording for each contact  *)
(* method with the messages in it, the messages whose delivery the daemon  *)
(* has not settled, a counter of messages for each status, and the file    *)
(* the recording is saved in (src/src/media/textrecording.cpp,             *)
(* mimemessage.cpp, text.cpp; contactmethod.cpp for the sending and for    *)
(* the merge of two contact methods).                                      *)
(*                                                                         *)
(* What the daemon says of a message arrives later, from a queue, and      *)
(* names the message and its destination: by then the message may have     *)
(* been read, cleared or left in the recording of a contact method that    *)
(* was merged into another.                                                *)
(***************************************************************************)
EXTENDS Integers, FiniteSets, Sequences, MessageStates

CONSTANTS
  ContactMethod, \* the contact methods; each has a file, named by its hash
  Message,       \* the messages, and the identifiers that the daemon gives them
  NoMessage,     \* in place of a message that is not there
  MaxSignals     \* bound on the queue of the daemon's signals

Direction == {"IN", "OUT"}

\* A message as the library shows it: the recording that has it (named by the
\* contact method it was made for), its direction and its status.
MessageRecord == [recording : ContactMethod, direction : Direction, status : Status]

\* A message as a file has it.  The status itself is written and never read.
SavedRecord == [recording : ContactMethod, direction : Direction, isRead : BOOLEAN]

\* An outgoing message as the daemon has it.
DaemonRecord == [to : ContactMethod, status : DaemonStatus]

ASSUME MessagesAreFinite == IsFiniteSet(Message)
ASSUME NoMessageIsNone ==
  NoMessage \notin MessageRecord \cup SavedRecord \cup DaemonRecord
ASSUME SignalsAreBounded == MaxSignals \in Nat

VARIABLES
  message,  \* m_lNodes of all recordings: each message, or NoMessage
  pending,  \* m_hPendingMessages of each recording
  counter,  \* m_mMessageCounter of each recording
  main,     \* the recording that textRecording() gives for a contact method
  saved,    \* each message as the files have it, or NoMessage
  daemon,   \* each message that the daemon was given, or NoMessage
  signals,  \* its accountMessageStatusChanged signals that wait for the event loop
  cleared   \* history: the messages that were cleared since the program was started

vars == <<message, pending, counter, main, saved, daemon, signals, cleared>>
----------------------------------------------------------------------------
\* The messages of recording r in status s, and how many they are.
InStatus(msgs, r, s) ==
  {m \in Message : msgs[m] # NoMessage /\ msgs[m].recording = r /\ msgs[m].status = s}

Recount(msgs) ==
  [r \in ContactMethod |-> [s \in Status |-> Cardinality(InStatus(msgs, r, s))]]

\* MimeMessage::performAction(): where an action takes a message.
FaultyAfter(direction, status, action) == \* Faulty: one table for both directions.
  stateMapOut[status][action]

After(direction, status, action) ==
  IF direction = "IN" THEN stateMapIn[status][action] ELSE stateMapOut[status][action]

\* One message of recording r went from a status to another.
FaultyMoved(r, from, to) == \* Faulty: the status that the message leaves keeps counting it.
  [counter EXCEPT ![r][to] = @ + 1]

Moved(r, from, to) ==
  [counter EXCEPT ![r] =
     [s \in Status |-> @[s] + (IF s = to   THEN 1 ELSE 0)
                            - (IF s = from THEN 1 ELSE 0)]]

\* save() writes all the messages of the recording.
Save(r, msgs) ==
  [m \in Message |->
     IF msgs[m] # NoMessage /\ msgs[m].recording = r
       THEN [recording |-> r, direction |-> msgs[m].direction,
             isRead |-> msgs[m].status = "READ"]
       ELSE saved[m]]

\* No message was called m since the program was started, nor any that was sent.
Unused(m) == message[m] = NoMessage /\ daemon[m] = NoMessage /\ m \notin cleared
----------------------------------------------------------------------------
Init ==
  /\ message = [m \in Message |-> NoMessage]
  /\ pending = [r \in ContactMethod |-> {}]
  /\ counter = [r \in ContactMethod |-> [s \in Status |-> 0]]
  /\ main = [c \in ContactMethod |-> c]
  /\ saved = [m \in Message |-> NoMessage]
  /\ daemon = [m \in Message |-> NoMessage]
  /\ signals = <<>>
  /\ cleared = {}

\* insertNewMessage(): counted, pending when the daemon has an identifier for it,
\* and saved.
FaultyInsert(c, m, direction, status, id) == \* Faulty: no message is ever pending.
  LET r    == main[c]
      msgs == [message EXCEPT ![m] =
                 [recording |-> r, direction |-> direction, status |-> status]]
  IN  /\ message' = msgs
      /\ counter' = [counter EXCEPT ![r][status] = @ + 1]
      /\ saved' = Save(r, msgs)
      /\ UNCHANGED pending

Insert(c, m, direction, status, id) ==
  LET r    == main[c]
      msgs == [message EXCEPT ![m] =
                 [recording |-> r, direction |-> direction, status |-> status]]
  IN  /\ message' = msgs
      /\ counter' = [counter EXCEPT ![r][status] = @ + 1]
      /\ pending' = [pending EXCEPT ![r] =
                       IF id /\ status = "SENDING" THEN @ \cup {m} ELSE @]
      /\ saved' = Save(r, msgs)

\* ContactMethod::sendOfflineTextMessage(): the daemon takes the message and
\* gives it an identifier.
Send(c, m) ==
  /\ Unused(m)
  /\ daemon' = [daemon EXCEPT ![m] = [to |-> c, status |-> "SENDING"]]
  /\ Insert(c, m, "OUT", "SENDING", TRUE)
  /\ UNCHANGED <<main, signals, cleared>>

\* The same when the daemon refuses the message (identifier 0), and
\* Media::Text::send() during a call, which has no identifier either.
SendUntracked(c, m) ==
  /\ Unused(m)
  /\ Insert(c, m, "OUT", "UNKNOWN", FALSE)
  /\ UNCHANGED <<main, daemon, signals, cleared>>

\* IMConversationManager: newAccountMessage(), and newMessage() during a call.
Receive(c, m) ==
  /\ Unused(m)
  /\ Insert(c, m, "IN", "UNREAD", FALSE)
  /\ UNCHANGED <<main, daemon, signals, cleared>>
----------------------------------------------------------------------------
\* What the daemon may say next of a message: it tries again, it has sent it or
\* it gives up; the peer may then read what was sent.
FollowUp(status) ==
  CASE status = "SENDING" -> {"SENDING", "SENT", "FAILURE"}
    [] status = "SENT"    -> {"READ"}
    [] OTHER              -> {}

\* The daemon emits accountMessageStatusChanged, which waits for the event loop.
DaemonReports(m, s) ==
  /\ daemon[m] # NoMessage
  /\ s \in FollowUp(daemon[m].status)
  /\ Len(signals) < MaxSignals
  /\ daemon' = [daemon EXCEPT ![m].status = s]
  /\ signals' = Append(signals, [id |-> m, to |-> daemon[m].to, status |-> s])
  /\ UNCHANGED <<message, pending, counter, main, saved, cleared>>

\* updateMessageStatus(): a message that is settled is pending no more.
FaultyStillPending(r, m, s) == \* Faulty: whatever the daemon says settles the message.
  [pending EXCEPT ![r] = @ \ {m}]

StillPending(r, m, s) ==
  [pending EXCEPT ![r] = IF s \in {"READ", "SENT", "FAILURE"} THEN @ \ {m} ELSE @]

\* The status of a message of status st after the daemon said s.
FaultyUpdated(st, s) == \* Faulty: a failed message is confirmed.
  IF s = "FAILURE" THEN After("OUT", st, "CONFIRM") ELSE After("OUT", st, daemonStateMap[st][s])

Updated(st, s) == After("OUT", st, daemonStateMap[st][s])

\* accountMessageStatusChanged(): the recording of the destination has it pending.
DeliverStatus(to, m, s) ==
  LET r    == main[to]
      st   == message[m].status
      msgs == [message EXCEPT ![m].status = Updated(st, s)]
  IN  /\ m \in pending[r]
      /\ message[m] # NoMessage
      /\ message' = msgs
      /\ counter' = Moved(r, st, Updated(st, s))
      /\ pending' = StillPending(r, m, s)
      /\ saved' = IF s \in {"READ", "SENT", "FAILURE"} \/ st # s THEN Save(r, msgs) ELSE saved

\* The recording of the destination does not have it pending.
DeliverUnknown(to, m) ==
  /\ m \notin pending[main[to]]
  /\ UNCHANGED <<message, pending, counter, saved>>

\* clear() freed the node that is still pending: what the handler reads is what
\* the freed memory had in it, or the program crashes (see Restart).
DeliverDangling(to, m, s) ==
  LET r == main[to]
  IN  /\ m \in pending[r]
      /\ message[m] = NoMessage
      /\ \E st \in {"SENDING", "ERROR"} : counter' = Moved(r, st, Updated(st, s))
      /\ pending' = StillPending(r, m, s)
      /\ UNCHANGED <<message, saved>>

\* IMConversationManager::accountMessageStatusChanged(), when the event loop
\* comes to it.
Deliver ==
  /\ signals # <<>>
  /\ LET signal == Head(signals)
     IN  \/ DeliverStatus(signal.to, signal.id, signal.status)
         \/ DeliverUnknown(signal.to, signal.id)
         \/ DeliverDangling(signal.to, signal.id, signal.status)
  /\ signals' = Tail(signals)
  /\ UNCHANGED <<main, daemon, cleared>>
----------------------------------------------------------------------------
\* setAsRead() and setAsUnread(), from TextRecordingModel::setData(), for any
\* message, whatever its direction: saved if the status changes.
FaultyMark(m, action) == \* Faulty: what the user marks is not saved.
  LET r == message[m].recording
      st == message[m].status
      to == After(message[m].direction, st, action)
  IN  /\ message[m] # NoMessage /\ st # action /\ to # st
      /\ message' = [message EXCEPT ![m].status = to]
      /\ counter' = Moved(r, st, to)
      /\ UNCHANGED <<pending, main, saved, daemon, signals, cleared>>

Mark(m, action) ==
  LET r    == message[m].recording
      st   == message[m].status
      to   == After(message[m].direction, st, action)
      msgs == [message EXCEPT ![m].status = to]
  IN  /\ message[m] # NoMessage
      /\ st # action
      /\ to # st
      /\ message' = msgs
      /\ counter' = Moved(r, st, to)
      /\ saved' = Save(r, msgs)
      /\ UNCHANGED <<pending, main, daemon, signals, cleared>>

\* setAllRead(): READ is performed on all that is not READ, outgoing messages
\* included.
SetAllRead(r) ==
  LET Of(m)  == message[m] # NoMessage /\ message[m].recording = r
      msgs   == [m \in Message |->
                   IF Of(m)
                     THEN [message[m] EXCEPT !.status = After(message[m].direction, @, "READ")]
                     ELSE message[m]]
      Left(s)    == {m \in InStatus(message, r, s) : msgs[m].status # s}
      Entered(s) == {m \in InStatus(msgs, r, s) : message[m].status # s}
  IN  /\ msgs # message
      /\ message' = msgs
      /\ counter' = [counter EXCEPT ![r] =
                       [s \in Status |-> @[s] + Cardinality(Entered(s)) - Cardinality(Left(s))]]
      /\ saved' = Save(r, msgs)
      /\ UNCHANGED <<pending, main, daemon, signals, cleared>>
----------------------------------------------------------------------------
\* ContactMethod::merge(): c gives up its private data, and its recording, for
\* those of other.  A contact method that another was merged into is not merged
\* again (see the README).
Merge(c, other) ==
  /\ main[c] # main[other]
  /\ main[c] = c
  /\ \A d \in ContactMethod \ {c} : main[d] # c
  /\ main' = [main EXCEPT ![c] = main[other]]
  /\ UNCHANGED <<message, pending, counter, saved, daemon, signals, cleared>>

\* LocalTextRecordingCollection::clear(): clear() for all recordings, which
\* leaves the counters and what is pending, then the files are removed.
Clear ==
  /\ message # [m \in Message |-> NoMessage]
  /\ message' = [m \in Message |-> NoMessage]
  /\ saved' = [m \in Message |-> NoMessage]
  /\ cleared' = cleared \cup {m \in Message : message[m] # NoMessage}
  /\ UNCHANGED <<pending, counter, main, daemon, signals>>

\* MimeMessage::buildExisting(): the status of a message that is loaded.
Existing(record) ==
  CASE record.direction = "OUT" -> "UNKNOWN"
    [] record.direction = "IN" /\ record.isRead -> "READ"
    [] OTHER -> "UNREAD"

\* The program stops, between two handlers, and is started again: all recordings
\* are loaded from their files (fromJson()).
Restart ==
  /\ message' = [m \in Message |->
                   IF saved[m] = NoMessage THEN NoMessage
                   ELSE [recording |-> saved[m].recording, direction |-> saved[m].direction,
                         status |-> Existing(saved[m])]]
  /\ counter' = Recount(message')
  /\ pending' = [r \in ContactMethod |-> {}]
  /\ main' = [c \in ContactMethod |-> c]
  /\ signals' = <<>>
  /\ cleared' = {}
  /\ UNCHANGED <<saved, daemon>>
----------------------------------------------------------------------------
Next ==
  \/ \E c \in ContactMethod, m \in Message :
       Send(c, m) \/ SendUntracked(c, m) \/ Receive(c, m)
  \/ \E m \in Message, s \in DaemonStatus : DaemonReports(m, s)
  \/ Deliver
  \/ \E m \in Message, action \in {"READ", "UNREAD"} : Mark(m, action)
  \/ \E r \in ContactMethod : SetAllRead(r)
  \/ \E c, other \in ContactMethod : Merge(c, other)
  \/ Clear
  \/ Restart

\* The event loop comes to every signal that is queued.
Spec == Init /\ [][Next]_vars /\ WF_vars(Deliver)
=============================================================================
