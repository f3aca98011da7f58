---------------------- MODULE TextRecordingProperties ----------------------
(***************************************************************************)
(* What TextRecording promises.                                            *)
(***************************************************************************)
EXTENDS TextRecording

Signal == [id : Message, to : ContactMethod, status : DaemonStatus]

\* The types; and an incoming message is read or unread, whatever was done to it.
TypeOK ==
  /\ message \in [Message -> MessageRecord \cup {NoMessage}]
  /\ pending \in [ContactMethod -> SUBSET Message]
  /\ counter \in [ContactMethod -> [Status -> Int]]
  /\ main \in [ContactMethod -> ContactMethod]
  /\ saved \in [Message -> SavedRecord \cup {NoMessage}]
  /\ daemon \in [Message -> DaemonRecord \cup {NoMessage}]
  /\ signals \in Seq(Signal)
  /\ cleared \in SUBSET Message
  /\ \A m \in Message : message[m] # NoMessage /\ message[m].direction = "IN"
                          => message[m].status \in {"READ", "UNREAD"}

\* The counters that the unread and sending badges show are the numbers of
\* messages in each status, over sending, statuses of the daemon, reading, merges
\* and restarts (performMessageAction(), insertNewMessage(), setAllRead() and
\* fromJson() each keep them up to date).  Only a clear loses them, until the
\* program is started again.
CountersAgree == cleared = {} => counter = Recount(message)

\* Between two handlers the files have every message, in its recording and its
\* direction, and know which incoming ones are read: a crash loses nothing that was
\* shown but the status of a delivery (save() at the end of each handler).
SavedAgrees ==
  \A m \in Message :
    /\ saved[m] = NoMessage <=> message[m] = NoMessage
    /\ message[m] # NoMessage =>
         /\ saved[m].recording = message[m].recording
         /\ saved[m].direction = message[m].direction
         /\ message[m].direction = "IN" =>
              (saved[m].isRead <=> message[m].status = "READ")

\* The daemon has settled m, one way or the other.
Settled(m) == daemon[m] # NoMessage /\ daemon[m].status \in {"SENT", "READ", "FAILURE"}

\* m is in a recording that the statuses for its destination do not reach any more.
Orphaned(m) == main[daemon[m].to] # message[m].recording

\* A signal that settles m is queued.
VerdictQueued(m) ==
  \E i \in 1..Len(signals) :
    /\ signals[i].id = m
    /\ signals[i].to = daemon[m].to
    /\ signals[i].status \in {"SENT", "FAILURE"}

Sending(m) == message[m] # NoMessage /\ message[m].status = "SENDING"

\* A message that is shown as being sent is one that the daemon was given, that its
\* recording still waits for, and if the daemon has settled it, the answer is on its
\* way: no order of answers, retries, reads and restarts makes the library forget a
\* message it is sending (updateMessageStatus(), m_hPendingMessages).  A message whose
\* contact method was merged is excepted.
SendingIsTracked ==
  \A m \in Message : Sending(m) =>
    /\ daemon[m] # NoMessage
    /\ m \in pending[message[m].recording]
    /\ Settled(m) /\ ~Orphaned(m) => VerdictQueued(m)

\* What the user reads of a delivery is what the daemon said: SENT only if the
\* message was sent, FAILURE only if the daemon gave up (m_mDaemonStateMap and
\* m_mStateMapOut, applied to answers that may come after the user has touched the
\* message).
VerdictIsTrue ==
  \A m \in Message : message[m] # NoMessage =>
    /\ message[m].status = "SENT" =>
         daemon[m] # NoMessage /\ daemon[m].status \in {"SENT", "READ"}
    /\ message[m].status = "FAILURE" =>
         daemon[m] # NoMessage /\ daemon[m].status = "FAILURE"

\* A message that the daemon has settled does not stay "being sent" for ever, unless
\* its contact method was merged into another meanwhile.
VerdictArrives ==
  \A m \in Message :
    Settled(m) ~> (~Sending(m) \/ Orphaned(m))
=============================================================================
