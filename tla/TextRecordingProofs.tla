------------------------ MODULE TextRecordingProofs ------------------------
(***************************************************************************)
(* Proofs that the safety properties of TextRecordingProperties hold for   *)
(* any contact methods, any finite set of messages and a queue of any      *)
(* length.                                                                 *)
(*                                                                         *)
(* What makes them inductive: a pending message is an outgoing one of the  *)
(* recording that has it pending, and a queued signal says no more than    *)
(* what the daemon has done.                                               *)
(***************************************************************************)
EXTENDS TextRecordingProperties, FiniteSetTheorems, TLAPS

\* A message that is pending was given to the daemon, and if it is still there it is
\* an outgoing message of that recording.
PendingIsOut ==
  \A r \in ContactMethod : \A m \in pending[r] :
    /\ daemon[m] # NoMessage
    /\ message[m] # NoMessage => message[m].direction = "OUT" /\ message[m].recording = r

\* A signal is for the destination of the message, and the daemon did what it says.
SignalsAreTrue ==
  \A i \in 1..Len(signals) :
    /\ daemon[signals[i].id] # NoMessage
    /\ signals[i].to = daemon[signals[i].id].to
    /\ signals[i].status \in {"SENDING", "SENT", "FAILURE", "READ"}
    /\ signals[i].status = "SENT" => daemon[signals[i].id].status \in {"SENT", "READ"}
    /\ signals[i].status = "FAILURE" => daemon[signals[i].id].status = "FAILURE"

\* What all of the below is proved from.
Basic == TypeOK /\ PendingIsOut /\ SignalsAreTrue
----------------------------------------------------------------------------
(* The tables.                                                             *)

LEMMA TableTypes ==
  ASSUME NEW s \in Status, NEW a \in MessageAction
  PROVE  stateMapOut[s][a] \in Status /\ stateMapIn[s][a] \in Status
  BY DEF stateMapOut, stateMapIn, Status, MessageAction

\* An incoming message that is read or unread stays one of both.
LEMMA IncomingStays ==
  ASSUME NEW s \in {"READ", "UNREAD"}, NEW a \in {"READ", "UNREAD"}
  PROVE  stateMapIn[s][a] = a
  BY DEF stateMapIn, Status, MessageAction

\* The user cannot make an outgoing message sending, sent or failed.
LEMMA UserDecidesNothing ==
  ASSUME NEW s \in Status, NEW a \in {"READ", "UNREAD"}
  PROVE  stateMapOut[s][a] \notin {"SENDING", "SENT", "FAILURE"}
  BY DEF stateMapOut, Status, MessageAction

\* What the daemon says of a message is either what the message shows after it, or
\* an error, or nothing when it is tried again.
LEMMA UpdatedIs ==
  ASSUME NEW s \in Status, NEW d \in {"SENDING", "SENT", "FAILURE", "READ"}
  PROVE  /\ Updated(s, d) \in Status
         /\ Updated(s, d) = "SENDING" => d = "SENDING" /\ s \in {"UNKNOWN", "SENDING"}
         /\ Updated(s, d) = "SENT" => d = "SENT" \/ s = "SENT"
         /\ Updated(s, d) = "FAILURE" => d = "FAILURE" \/ s = "FAILURE"
         /\ Updated(s, d) # s => s # d
  BY DEF Updated, After, stateMapOut, daemonStateMap, Status, MessageAction, DaemonStatus
----------------------------------------------------------------------------
(* Counting.                                                               *)

\* Counters agree when each of them does.
LEMMA CountPointwise ==
  ASSUME NEW count \in [ContactMethod -> [Status -> Int]], NEW msgs
  PROVE  count = Recount(msgs) <=>
           \A r \in ContactMethod, s \in Status :
             count[r][s] = Cardinality(InStatus(msgs, r, s))
<1>1. ASSUME \A r \in ContactMethod, s \in Status :
               count[r][s] = Cardinality(InStatus(msgs, r, s))
      PROVE  count = Recount(msgs)
  <2>1. \A r \in ContactMethod : count[r] = [s \in Status |-> Cardinality(InStatus(msgs, r, s))]
    BY <1>1
  <2> QED
    BY <2>1 DEF Recount
<1>2. ASSUME count = Recount(msgs)
      PROVE  \A r \in ContactMethod, s \in Status :
               count[r][s] = Cardinality(InStatus(msgs, r, s))
  BY <1>2 DEF Recount
<1> QED
  BY <1>1, <1>2

LEMMA FiniteStatus ==
  ASSUME NEW msgs, NEW r, NEW s
  PROVE  IsFiniteSet(InStatus(msgs, r, s)) /\ Cardinality(InStatus(msgs, r, s)) \in Nat
<1>1. InStatus(msgs, r, s) \in SUBSET Message
  BY DEF InStatus
<1>2. IsFiniteSet(InStatus(msgs, r, s))
  BY <1>1, MessagesAreFinite, FS_Subset
<1> QED
  BY <1>2, FS_CardinalityType

\* A message that is added is one more of its status.
LEMMA CountAdded ==
  ASSUME NEW msgs \in [Message -> MessageRecord \cup {NoMessage}],
         NEW m \in Message, NEW record \in MessageRecord, msgs[m] = NoMessage
  PROVE  \A r \in ContactMethod, s \in Status :
           Cardinality(InStatus([msgs EXCEPT ![m] = record], r, s)) =
             IF r = record.recording /\ s = record.status
               THEN Cardinality(InStatus(msgs, r, s)) + 1
               ELSE Cardinality(InStatus(msgs, r, s))
<1> DEFINE new == [msgs EXCEPT ![m] = record]
<1>0. /\ record # NoMessage
      /\ record.recording \in ContactMethod /\ record.status \in Status
      /\ new[m] = record
      /\ \A o \in Message \ {m} : new[o] = msgs[o]
  BY NoMessageIsNone DEF MessageRecord
<1> HIDE DEF new
<1> SUFFICES ASSUME NEW r \in ContactMethod, NEW s \in Status
             PROVE  Cardinality(InStatus(new, r, s)) =
                      IF r = record.recording /\ s = record.status
                        THEN Cardinality(InStatus(msgs, r, s)) + 1
                        ELSE Cardinality(InStatus(msgs, r, s))
  BY DEF new
<1>1. CASE r = record.recording /\ s = record.status
  <2>1. InStatus(new, r, s) = InStatus(msgs, r, s) \cup {m}
    <3>1. \A o \in Message : o \in InStatus(new, r, s) <=> o \in InStatus(msgs, r, s) \cup {m}
      BY <1>0, <1>1 DEF InStatus
    <3>2. InStatus(new, r, s) \subseteq Message /\ InStatus(msgs, r, s) \subseteq Message
      BY DEF InStatus
    <3> QED
      BY <3>1, <3>2
  <2>2. m \notin InStatus(msgs, r, s)
    BY DEF InStatus
  <2>3. Cardinality(InStatus(new, r, s)) = Cardinality(InStatus(msgs, r, s)) + 1
    BY <2>1, <2>2, FiniteStatus, FS_AddElement
  <2> QED
    BY <1>1, <2>3, FiniteStatus
<1>2. CASE ~(r = record.recording /\ s = record.status)
  <2>1. InStatus(new, r, s) = InStatus(msgs, r, s)
    BY <1>0, <1>2 DEF InStatus
  <2> QED
    BY <1>2, <2>1
<1> QED
  BY <1>1, <1>2

\* A message that changes its status leaves one count and enters another.
LEMMA CountMoved ==
  ASSUME message \in [Message -> MessageRecord \cup {NoMessage}],
         NEW m \in Message, message[m] # NoMessage, NEW to \in Status,
         message' = [message EXCEPT ![m].status = to]
  PROVE  \A r \in ContactMethod, s \in Status :
           Cardinality(InStatus(message', r, s)) =
             IF r = message[m].recording
               THEN Cardinality(InStatus(message, r, s))
                      + (IF s = to THEN 1 ELSE 0)
                      - (IF s = message[m].status THEN 1 ELSE 0)
               ELSE Cardinality(InStatus(message, r, s))
<1>0. /\ message[m] \in MessageRecord
      /\ message'[m] \in MessageRecord
      /\ message'[m].recording = message[m].recording
      /\ message'[m].status = to
      /\ message'[m] # NoMessage
      /\ \A o \in Message \ {m} : message'[o] = message[o]
  BY NoMessageIsNone DEF MessageRecord
<1> SUFFICES ASSUME NEW r \in ContactMethod, NEW s \in Status
             PROVE  Cardinality(InStatus(message', r, s)) =
                      IF r = message[m].recording
                        THEN Cardinality(InStatus(message, r, s))
                               + (IF s = to THEN 1 ELSE 0)
                               - (IF s = message[m].status THEN 1 ELSE 0)
                        ELSE Cardinality(InStatus(message, r, s))
  OBVIOUS
<1>1. CASE r = message[m].recording /\ s = to /\ s # message[m].status
  <2>1. InStatus(message', r, s) = InStatus(message, r, s) \cup {m}
    <3>1. \A o \in Message : o \in InStatus(message', r, s) <=> o \in InStatus(message, r, s) \cup {m}
      BY <1>0, <1>1 DEF InStatus
    <3>2. InStatus(message', r, s) \subseteq Message /\ InStatus(message, r, s) \subseteq Message
      BY DEF InStatus
    <3> QED
      BY <3>1, <3>2
  <2>2. m \notin InStatus(message, r, s)
    BY <1>1 DEF InStatus
  <2>3. Cardinality(InStatus(message', r, s)) = Cardinality(InStatus(message, r, s)) + 1
    BY <2>1, <2>2, FiniteStatus, FS_AddElement
  <2> QED
    BY <1>1, <2>3, FiniteStatus
<1>2. CASE r = message[m].recording /\ s # to /\ s = message[m].status
  <2>1. InStatus(message', r, s) = InStatus(message, r, s) \ {m}
    BY <1>0, <1>2 DEF InStatus
  <2>2. m \in InStatus(message, r, s)
    BY <1>2 DEF InStatus
  <2>3. Cardinality(InStatus(message', r, s)) = Cardinality(InStatus(message, r, s)) - 1
    <3>1. IsFiniteSet(InStatus(message, r, s))
      BY FiniteStatus
    <3>2. Cardinality(InStatus(message, r, s) \ {m})
            = Cardinality(InStatus(message, r, s)) - 1
      BY <2>2, <3>1, FS_RemoveElement
    <3> QED
      BY <2>1, <3>2
  <2> QED
    BY <1>2, <2>3, FiniteStatus
<1>3. CASE r # message[m].recording \/ (s = to <=> s = message[m].status)
  <2>1. InStatus(message', r, s) = InStatus(message, r, s)
    BY <1>0, <1>3 DEF InStatus
  <2> QED
    BY <1>3, <2>1, FiniteStatus
<1> QED
  BY <1>1, <1>2, <1>3

\* Of two sets of messages, the number of one from that of the other and of what
\* only one of them has.
LEMMA CountDifference ==
  ASSUME NEW S \in SUBSET Message, NEW T \in SUBSET Message
  PROVE  Cardinality(T) = Cardinality(S) + Cardinality(T \ S) - Cardinality(S \ T)
<1>1. IsFiniteSet(S) /\ IsFiniteSet(T)
  BY MessagesAreFinite, FS_Subset
<1>2. IsFiniteSet(S \cap T) /\ IsFiniteSet(T \ S) /\ IsFiniteSet(S \ T)
  BY MessagesAreFinite, FS_Subset
<1>3. Cardinality(T) = Cardinality(S \cap T) + Cardinality(T \ S)
  <2>1. T = (S \cap T) \cup (T \ S) /\ (S \cap T) \cap (T \ S) = {}
    OBVIOUS
  <2>2. Cardinality((S \cap T) \cup (T \ S)) =
          Cardinality(S \cap T) + Cardinality(T \ S) - Cardinality((S \cap T) \cap (T \ S))
    BY <1>2, FS_Union
  <2>3. Cardinality((S \cap T) \cap (T \ S)) = 0
    BY <2>1, FS_EmptySet
  <2>4. Cardinality(S \cap T) \in Nat /\ Cardinality(T \ S) \in Nat
    BY <1>2, FS_CardinalityType
  <2>5. Cardinality((S \cap T) \cup (T \ S)) = Cardinality(S \cap T) + Cardinality(T \ S)
    BY <2>2, <2>3, <2>4
  <2> QED
    BY <2>1, <2>5
<1>4. Cardinality(S) = Cardinality(S \cap T) + Cardinality(S \ T)
  <2>1. S = (S \cap T) \cup (S \ T) /\ (S \cap T) \cap (S \ T) = {}
    OBVIOUS
  <2>2. Cardinality((S \cap T) \cup (S \ T)) =
          Cardinality(S \cap T) + Cardinality(S \ T) - Cardinality((S \cap T) \cap (S \ T))
    BY <1>2, FS_Union
  <2>3. Cardinality((S \cap T) \cap (S \ T)) = 0
    BY <2>1, FS_EmptySet
  <2>4. Cardinality(S \cap T) \in Nat /\ Cardinality(S \ T) \in Nat
    BY <1>2, FS_CardinalityType
  <2>5. Cardinality((S \cap T) \cup (S \ T)) = Cardinality(S \cap T) + Cardinality(S \ T)
    BY <2>2, <2>3, <2>4
  <2> QED
    BY <2>1, <2>5
<1> QED
  BY <1>1, <1>2, <1>3, <1>4, FS_CardinalityType
----------------------------------------------------------------------------
(* What the handlers change.                                               *)

\* TypeOK, one fact for each variable.
LEMMA Types ==
  ASSUME TypeOK
  PROVE  /\ message \in [Message -> MessageRecord \cup {NoMessage}]
         /\ pending \in [ContactMethod -> SUBSET Message]
         /\ counter \in [ContactMethod -> [Status -> Int]]
         /\ main \in [ContactMethod -> ContactMethod]
         /\ \A m \in Message : message[m] # NoMessage => message[m] \in MessageRecord
         /\ \A m \in Message : daemon[m] # NoMessage => daemon[m] \in DaemonRecord
         /\ \A m \in Message : saved[m] # NoMessage => saved[m] \in SavedRecord
         /\ NoMessage \notin MessageRecord /\ NoMessage \notin SavedRecord
         /\ NoMessage \notin DaemonRecord
  BY NoMessageIsNone DEF TypeOK

\* What save() leaves in the files for a recording.
LEMMA SaveIs ==
  ASSUME TypeOK, NEW r \in ContactMethod,
         NEW msgs \in [Message -> MessageRecord \cup {NoMessage}]
  PROVE  /\ Save(r, msgs) \in [Message -> SavedRecord \cup {NoMessage}]
         /\ \A m \in Message :
              IF msgs[m] # NoMessage /\ msgs[m].recording = r
                THEN /\ Save(r, msgs)[m] # NoMessage
                     /\ Save(r, msgs)[m].recording = r
                     /\ Save(r, msgs)[m].direction = msgs[m].direction
                     /\ Save(r, msgs)[m].isRead <=> msgs[m].status = "READ"
                ELSE Save(r, msgs)[m] = saved[m]
<1> DEFINE Written == [m \in Message |-> [recording |-> r, direction |-> msgs[m].direction,
                          isRead |-> msgs[m].status = "READ"]]
<1>1. \A m \in Message : Save(r, msgs)[m] =
        IF msgs[m] # NoMessage /\ msgs[m].recording = r THEN Written[m] ELSE saved[m]
  BY DEF Save
<1>2. \A m \in Message : msgs[m] # NoMessage => Written[m] \in SavedRecord
  BY DEF MessageRecord, SavedRecord
<1>3. \A m \in Message :
        /\ Written[m].recording = r
        /\ Written[m].direction = msgs[m].direction
        /\ Written[m].isRead <=> msgs[m].status = "READ"
  OBVIOUS
<1>4. \A m \in Message : msgs[m] # NoMessage => Written[m] # NoMessage
  BY <1>2, NoMessageIsNone
<1> HIDE DEF Written
<1>5. Save(r, msgs) \in [Message -> SavedRecord \cup {NoMessage}]
  <2>1. \A m \in Message : Save(r, msgs)[m] \in SavedRecord \cup {NoMessage}
    BY <1>1, <1>2 DEF TypeOK
  <2> QED
    BY <2>1 DEF Save
<1>6. ASSUME NEW m \in Message, msgs[m] # NoMessage, msgs[m].recording = r
      PROVE  /\ Save(r, msgs)[m] # NoMessage
             /\ Save(r, msgs)[m].recording = r
             /\ Save(r, msgs)[m].direction = msgs[m].direction
             /\ Save(r, msgs)[m].isRead <=> msgs[m].status = "READ"
  <2>1. Save(r, msgs)[m] = Written[m]
    BY <1>1, <1>6
  <2>2. Written[m] # NoMessage
    BY <1>4, <1>6
  <2>3. Written[m].recording = r /\ Written[m].direction = msgs[m].direction
    BY <1>3
  <2>4. Written[m].isRead <=> msgs[m].status = "READ"
    BY <1>3, Zenon
  <2> QED
    BY <2>1, <2>2, <2>3, <2>4, Zenon
<1>7. ASSUME NEW m \in Message, ~(msgs[m] # NoMessage /\ msgs[m].recording = r)
      PROVE  Save(r, msgs)[m] = saved[m]
  BY <1>1, <1>7
<1> QED
  BY <1>5, <1>6, <1>7, Zenon

\* A save after a step that changed no other recording, that lost no message of this
\* one and moved none: the files agree with what is shown.
LEMMA SavedAfterSave ==
  ASSUME TypeOK, SavedAgrees, NEW r \in ContactMethod,
         message' \in [Message -> MessageRecord \cup {NoMessage}],
         \A m \in Message :
           \/ message'[m] = message[m]
           \/ message'[m] # NoMessage /\ message'[m].recording = r,
         saved' = Save(r, message')
  PROVE  SavedAgrees'
<1> SUFFICES ASSUME NEW m \in Message
             PROVE  /\ saved'[m] = NoMessage <=> message'[m] = NoMessage
                    /\ message'[m] # NoMessage =>
                         /\ saved'[m].recording = message'[m].recording
                         /\ saved'[m].direction = message'[m].direction
                         /\ message'[m].direction = "IN" =>
                              (saved'[m].isRead <=> message'[m].status = "READ")
  BY DEF SavedAgrees
<1>1. CASE message'[m] # NoMessage /\ message'[m].recording = r
  BY <1>1, SaveIs
<1>2. CASE ~(message'[m] # NoMessage /\ message'[m].recording = r)
  <2>1. message'[m] = message[m] /\ saved'[m] = saved[m]
    BY <1>2, SaveIs
  <2> QED
    BY <2>1 DEF SavedAgrees
<1> QED
  BY <1>1, <1>2
----------------------------------------------------------------------------
(* Each handler, as what it does to the messages.                          *)

\* Only m is new.
LEMMA InsertIs ==
  ASSUME TypeOK, NEW c \in ContactMethod, NEW m \in Message,
         NEW direction \in Direction, NEW status \in Status, NEW id \in BOOLEAN,
         Insert(c, m, direction, status, id)
  PROVE  /\ main[c] \in ContactMethod
         /\ message' \in [Message -> MessageRecord \cup {NoMessage}]
         /\ message' = [message EXCEPT ![m] = message'[m]]
         /\ message'[m] \in MessageRecord
         /\ message'[m] # NoMessage
         /\ message'[m].recording = main[c]
         /\ message'[m].direction = direction
         /\ message'[m].status = status
         /\ \A o \in Message \ {m} : message'[o] = message[o]
<1> DEFINE record == [recording |-> main[c], direction |-> direction, status |-> status]
<1>1. message \in [Message -> MessageRecord \cup {NoMessage}] /\ main[c] \in ContactMethod
  BY DEF TypeOK
<1>2. record \in MessageRecord
  BY <1>1 DEF MessageRecord
<1>3. message' = [message EXCEPT ![m] = record]
  BY DEF Insert
<1>4. message'[m] = record
  BY <1>1, <1>3
<1>5. record # NoMessage
  BY <1>2, NoMessageIsNone
<1>6. record.recording = main[c] /\ record.direction = direction /\ record.status = status
  OBVIOUS
<1> HIDE DEF record
<1>7. message' \in [Message -> MessageRecord \cup {NoMessage}]
  BY <1>1, <1>2, <1>3
<1>8. \A o \in Message \ {m} : message'[o] = message[o]
  BY <1>1, <1>3
<1> QED
  BY <1>1, <1>2, <1>3, <1>4, <1>5, <1>6, <1>7, <1>8

\* A message gets another status and stays where it is.
LEMMA RestatusIs ==
  ASSUME TypeOK, NEW m \in Message, message[m] # NoMessage, NEW to \in Status,
         message' = [message EXCEPT ![m].status = to]
  PROVE  /\ message[m] \in MessageRecord
         /\ message' \in [Message -> MessageRecord \cup {NoMessage}]
         /\ message'[m] # NoMessage
         /\ message'[m].recording = message[m].recording
         /\ message'[m].direction = message[m].direction
         /\ message'[m].status = to
         /\ \A o \in Message \ {m} : message'[o] = message[o]
<1>1. /\ message \in [Message -> MessageRecord \cup {NoMessage}]
      /\ message[m] \in MessageRecord
  BY DEF TypeOK
<1>2. message'[m] = [message[m] EXCEPT !.status = to]
  BY <1>1
<1>3. /\ message'[m] \in MessageRecord
      /\ message'[m].recording = message[m].recording
      /\ message'[m].direction = message[m].direction
      /\ message'[m].status = to
  BY <1>1, <1>2 DEF MessageRecord
<1>4. message'[m] # NoMessage
  BY <1>3, NoMessageIsNone
<1>5. \A o \in Message \ {m} : message'[o] = message[o]
  BY <1>1
<1>6. message' \in [Message -> MessageRecord \cup {NoMessage}]
  BY <1>1, <1>3, <1>5
<1> QED
  BY <1>1, <1>3, <1>4, <1>5, <1>6

\* setAllRead() changes the status of messages of r, and only to what READ makes of it.
LEMMA SetAllReadIs ==
  ASSUME TypeOK, NEW r \in ContactMethod, SetAllRead(r)
  PROVE  /\ message' \in [Message -> MessageRecord \cup {NoMessage}]
         /\ \A m \in Message :
              \/ message'[m] = message[m]
              \/ /\ message[m] # NoMessage
                 /\ message'[m] # NoMessage
                 /\ message[m].recording = r
                 /\ message'[m].recording = r
                 /\ message'[m].direction = message[m].direction
                 /\ message'[m].status = After(message[m].direction, message[m].status, "READ")
<1> DEFINE Of(m) == message[m] # NoMessage /\ message[m].recording = r
           Read(m) == [message[m] EXCEPT !.status = After(message[m].direction, @, "READ")]
<1>1. message' = [m \in Message |-> IF Of(m) THEN Read(m) ELSE message[m]]
  BY DEF SetAllRead
<1>2. ASSUME NEW m \in Message, Of(m)
      PROVE  /\ Read(m) \in MessageRecord
             /\ Read(m).recording = r
             /\ Read(m).direction = message[m].direction
             /\ Read(m).status = After(message[m].direction, message[m].status, "READ")
  <2>1. message[m] \in MessageRecord
    BY <1>2, Types
  <2>2. After(message[m].direction, message[m].status, "READ") \in Status
    <3>1. message[m].status \in Status /\ "READ" \in MessageAction
      BY <2>1 DEF MessageRecord, MessageAction
    <3>2. /\ stateMapOut[message[m].status]["READ"] \in Status
          /\ stateMapIn[message[m].status]["READ"] \in Status
      BY <3>1, TableTypes
    <3> QED
      BY <3>2 DEF After
  <2> QED
    BY <1>2, <2>1, <2>2 DEF MessageRecord
<1>3. \A m \in Message : message'[m] = IF Of(m) THEN Read(m) ELSE message[m]
  BY <1>1
<1>4. \A m \in Message : message[m] \in MessageRecord \cup {NoMessage}
  BY DEF TypeOK
<1>5. \A m \in Message : Of(m) => Read(m) # NoMessage
  BY <1>2, NoMessageIsNone
<1>6. message' \in [Message -> MessageRecord \cup {NoMessage}]
  BY <1>1, <1>2, <1>4
<1> QED
  BY <1>2, <1>3, <1>5, <1>6

\* A restart shows what was saved.
LEMMA RestartIs ==
  ASSUME TypeOK, Restart
  PROVE  /\ message' \in [Message -> MessageRecord \cup {NoMessage}]
         /\ \A m \in Message :
              IF saved[m] = NoMessage
                THEN message'[m] = NoMessage
                ELSE /\ message'[m] # NoMessage
                     /\ message'[m].recording = saved[m].recording
                     /\ message'[m].direction = saved[m].direction
                     /\ message'[m].status = Existing(saved[m])
<1> DEFINE Loaded(m) == [recording |-> saved[m].recording, direction |-> saved[m].direction,
                         status |-> Existing(saved[m])]
<1>1. \A m \in Message : message'[m] = IF saved[m] = NoMessage THEN NoMessage ELSE Loaded(m)
  BY DEF Restart
<1>2. \A m \in Message : saved[m] # NoMessage => Loaded(m) \in MessageRecord
  <2>1. \A m \in Message : saved[m] # NoMessage => saved[m] \in SavedRecord
    BY Types
  <2>2. \A m \in Message : Existing(saved[m]) \in {"UNKNOWN", "READ", "UNREAD"}
    BY DEF Existing
  <2>3. \A m \in Message : Existing(saved[m]) \in Status
    BY <2>2 DEF Status
  <2>4. \A m \in Message : saved[m] # NoMessage =>
          saved[m].recording \in ContactMethod /\ saved[m].direction \in Direction
    BY <2>1 DEF SavedRecord
  <2> QED
    BY <2>3, <2>4 DEF MessageRecord
<1>3. \A m \in Message : saved[m] # NoMessage => Loaded(m) # NoMessage
  BY <1>2, NoMessageIsNone
<1>4. message' \in [Message -> MessageRecord \cup {NoMessage}]
  BY <1>2 DEF Restart
<1> QED
  BY <1>1, <1>3, <1>4
----------------------------------------------------------------------------
(* The types, and what makes the properties inductive.                     *)

LEMMA BasicInit == Init => Basic
<1> SUFFICES ASSUME Init PROVE Basic
  OBVIOUS
<1>1. TypeOK
  BY DEF Init, TypeOK, Status
<1>2. PendingIsOut /\ SignalsAreTrue
  BY DEF Init, PendingIsOut, SignalsAreTrue
<1> QED
  BY <1>1, <1>2 DEF Basic

\* A counter that changes by whole numbers stays one.
LEMMA MovedType ==
  ASSUME TypeOK, NEW r \in ContactMethod, NEW from, NEW to
  PROVE  Moved(r, from, to) \in [ContactMethod -> [Status -> Int]]
<1>1. counter \in [ContactMethod -> [Status -> Int]]
  BY DEF TypeOK
<1>2. [s \in Status |-> counter[r][s] + (IF s = to THEN 1 ELSE 0)
                                     - (IF s = from THEN 1 ELSE 0)] \in [Status -> Int]
  BY <1>1
<1> QED
  BY <1>1, <1>2 DEF Moved

\* An incoming message is read or unread, in the next state.
IncomingOK == \A m \in Message : message[m] # NoMessage /\ message[m].direction = "IN"
                                   => message[m].status \in {"READ", "UNREAD"}

LEMMA SignalTypes ==
  ASSUME TypeOK
  PROVE  /\ signals \in Seq(Signal)
         /\ \A i \in 1..Len(signals) :
              /\ signals[i].id \in Message
              /\ signals[i].to \in ContactMethod
              /\ signals[i].status \in DaemonStatus
<1>1. signals \in Seq(Signal)
  BY DEF TypeOK
<1>2. \A i \in 1..Len(signals) : signals[i] \in Signal
  BY <1>1
<1> QED
  BY <1>1, <1>2 DEF Signal

\* The signal that is delivered, and those that stay queued.
LEMMA HeadIs ==
  ASSUME Basic, signals # <<>>
  PROVE  /\ 1 \in 1..Len(signals)
         /\ Head(signals) = signals[1]
         /\ Head(signals).id \in Message
         /\ Head(signals).to \in ContactMethod
         /\ main[Head(signals).to] \in ContactMethod
         /\ Head(signals).status \in {"SENDING", "SENT", "FAILURE", "READ"}
         /\ Tail(signals) \in Seq(Signal)
         /\ Len(Tail(signals)) = Len(signals) - 1
         /\ \A i \in 1..Len(Tail(signals)) :
              i + 1 \in 1..Len(signals) /\ Tail(signals)[i] = signals[i + 1]
<1>1. signals \in Seq(Signal)
  BY SignalTypes DEF Basic
<1>2. 1 \in 1..Len(signals) /\ Head(signals) = signals[1]
  BY <1>1
<1>3. main \in [ContactMethod -> ContactMethod]
  BY Types DEF Basic
<1>4. signals[1].id \in Message /\ signals[1].to \in ContactMethod
  BY <1>2, SignalTypes DEF Basic
<1>5. signals[1].status \in {"SENDING", "SENT", "FAILURE", "READ"}
  BY <1>2 DEF Basic, SignalsAreTrue
<1>6. /\ Tail(signals) \in Seq(Signal)
      /\ Len(Tail(signals)) = Len(signals) - 1
      /\ \A i \in 1..Len(Tail(signals)) :
           i + 1 \in 1..Len(signals) /\ Tail(signals)[i] = signals[i + 1]
  BY <1>1
<1> QED
  BY <1>2, <1>3, <1>4, <1>5, <1>6

LEMMA InsertBasic ==
  ASSUME Basic, NEW c \in ContactMethod, NEW m \in Message, message[m] = NoMessage,
         NEW direction \in Direction, NEW status \in Status, NEW id \in BOOLEAN,
         direction = "IN" => status = "UNREAD",
         id => direction = "OUT" /\ daemon'[m] # NoMessage,
         Insert(c, m, direction, status, id),
         daemon' \in [Message -> DaemonRecord \cup {NoMessage}],
         \A o \in Message : daemon[o] # NoMessage => daemon'[o] = daemon[o],
         \A r \in ContactMethod : m \notin pending[r],
         UNCHANGED <<main, signals, cleared>>
  PROVE  Basic'
<1> USE DEF Basic
<1>1. TypeOK'
  <2>1. counter' \in [ContactMethod -> [Status -> Int]]
    <3>1. counter \in [ContactMethod -> [Status -> Int]] /\ main[c] \in ContactMethod
      BY DEF TypeOK
    <3> QED
      BY <3>1 DEF Insert
  <2>2. pending' \in [ContactMethod -> SUBSET Message]
    BY DEF Insert, TypeOK
  <2>3. saved' \in [Message -> SavedRecord \cup {NoMessage}]
    <3>1. saved' = Save(main[c], message')
      BY DEF Insert
    <3> QED
      BY <3>1, InsertIs, SaveIs
  <2>4. IncomingOK'
    <3>1. IncomingOK
      BY DEF TypeOK, IncomingOK
    <3>2. message'[m].direction = direction /\ message'[m].status = status
      BY InsertIs
    <3>3. \A o \in Message \ {m} : message'[o] = message[o]
      BY InsertIs
    <3> QED
      BY <3>1, <3>2, <3>3 DEF IncomingOK
  <2>5. message' \in [Message -> MessageRecord \cup {NoMessage}]
    BY InsertIs
  <2>6. main' = main /\ signals' = signals /\ cleared' = cleared
    OBVIOUS
  <2> QED
    BY <2>1, <2>2, <2>3, <2>4, <2>5, <2>6 DEF TypeOK, IncomingOK
<1>2. PendingIsOut'
  <2> SUFFICES ASSUME NEW r \in ContactMethod, NEW o \in pending'[r]
               PROVE  /\ daemon'[o] # NoMessage
                      /\ message'[o] # NoMessage =>
                           message'[o].direction = "OUT" /\ message'[o].recording = r
    BY DEF PendingIsOut
  <2>1. CASE o = m
    <3>1. pending \in [ContactMethod -> SUBSET Message] /\ main[c] \in ContactMethod
      BY DEF TypeOK
    <3>2. pending' = [pending EXCEPT ![main[c]] =
                        IF id /\ status = "SENDING" THEN @ \cup {m} ELSE @]
      BY DEF Insert
    <3>3. id /\ r = main[c]
      BY <2>1, <3>1, <3>2
    <3>4. message'[m].recording = main[c] /\ message'[m].direction = direction
      BY InsertIs
    <3> QED
      BY <2>1, <3>3, <3>4
  <2>2. CASE o # m
    <3>1. o \in pending[r] /\ o \in Message
      BY <2>2 DEF Insert, TypeOK
    <3>2. message'[o] = message[o]
      BY <2>2, <3>1, InsertIs
    <3>3. daemon'[o] # NoMessage
      BY <3>1 DEF PendingIsOut
    <3> QED
      BY <3>1, <3>2, <3>3 DEF PendingIsOut
  <2> QED
    BY <2>1, <2>2
<1>3. SignalsAreTrue'
  <2>1. \A i \in 1..Len(signals) : signals[i].id \in Message
    BY SignalTypes
  <2>2. \A i \in 1..Len(signals) : daemon'[signals[i].id] = daemon[signals[i].id]
    BY <2>1 DEF SignalsAreTrue
  <2>3. signals' = signals
    OBVIOUS
  <2> QED
    BY <2>2, <2>3 DEF SignalsAreTrue
<1> QED
  BY <1>1, <1>2, <1>3

\* Signals stay true when the daemon knows the same messages.
LEMMA SignalsKept ==
  ASSUME SignalsAreTrue, daemon' = daemon, signals' = signals
  PROVE  SignalsAreTrue'
  BY DEF SignalsAreTrue

\* What stays queued after a delivery.
LEMMA SignalsAfterDelivery ==
  ASSUME Basic, signals # <<>>, signals' = Tail(signals), daemon' = daemon
  PROVE  SignalsAreTrue' /\ signals' \in Seq(Signal)
<1>1. \A i \in 1..Len(signals') : i + 1 \in 1..Len(signals) /\ signals'[i] = signals[i + 1]
  BY HeadIs
<1>2. SignalsAreTrue'
  BY <1>1 DEF Basic, SignalsAreTrue
<1> QED
  BY <1>2, HeadIs

LEMMA DaemonReportsBasic ==
  ASSUME Basic, NEW m \in Message, NEW s \in DaemonStatus, DaemonReports(m, s)
  PROVE  Basic'
<1> USE DEF Basic
<1> DEFINE signal == [id |-> m, to |-> daemon[m].to, status |-> s]
<1>1. /\ daemon[m] \in DaemonRecord
      /\ daemon' = [daemon EXCEPT ![m].status = s]
      /\ signals' = Append(signals, signal)
      /\ signals \in Seq(Signal)
      /\ daemon \in [Message -> DaemonRecord \cup {NoMessage}]
  BY DEF DaemonReports, TypeOK
<1>2. /\ daemon'[m] \in DaemonRecord
      /\ daemon'[m].to = daemon[m].to
      /\ daemon'[m].status = s
      /\ \A o \in Message \ {m} : daemon'[o] = daemon[o]
      /\ daemon' \in [Message -> DaemonRecord \cup {NoMessage}]
  BY <1>1 DEF DaemonRecord
<1>3. daemon'[m] # NoMessage
  BY <1>2, NoMessageIsNone
<1>4. signal \in Signal
  BY <1>1 DEF Signal, DaemonRecord
<1>5. /\ Len(signals') = Len(signals) + 1
      /\ signals'[Len(signals) + 1] = signal
      /\ \A i \in 1..Len(signals) : signals'[i] = signals[i]
      /\ signals' \in Seq(Signal)
  BY <1>1, <1>4
<1>6. TypeOK'
  BY <1>2, <1>5 DEF TypeOK, DaemonReports
<1>7. PendingIsOut'
  <2>1. message' = message /\ pending' = pending
    BY DEF DaemonReports
  <2>2. \A r \in ContactMethod : \A o \in pending[r] : o \in Message
    BY DEF TypeOK
  <2>3. \A o \in Message : daemon[o] # NoMessage => daemon'[o] # NoMessage
    BY <1>2, <1>3
  <2> QED
    BY <2>1, <2>2, <2>3 DEF PendingIsOut
<1>8. SignalsAreTrue'
  <2>1. s \in FollowUp(daemon[m].status) /\ daemon[m].status \in DaemonStatus
    BY <1>1 DEF DaemonReports, DaemonRecord
  <2>2. /\ s \in {"SENDING", "SENT", "FAILURE", "READ"}
        /\ daemon[m].status = "SENT" => s = "READ"
        /\ daemon[m].status \in {"SENT", "SENDING"}
    BY <2>1 DEF FollowUp
  <2> SUFFICES ASSUME NEW i \in 1..Len(signals')
               PROVE  /\ daemon'[signals'[i].id] # NoMessage
                      /\ signals'[i].to = daemon'[signals'[i].id].to
                      /\ signals'[i].status \in {"SENDING", "SENT", "FAILURE", "READ"}
                      /\ signals'[i].status = "SENT" =>
                           daemon'[signals'[i].id].status \in {"SENT", "READ"}
                      /\ signals'[i].status = "FAILURE" =>
                           daemon'[signals'[i].id].status = "FAILURE"
    BY DEF SignalsAreTrue
  <2>3. CASE i = Len(signals) + 1
    <3>1. signals'[i].id = m /\ signals'[i].to = daemon[m].to /\ signals'[i].status = s
      BY <1>5, <2>3
    <3> QED
      BY <3>1, <1>2, <1>3, <2>2
  <2>4. CASE i # Len(signals) + 1
    <3>1. i \in 1..Len(signals)
      BY <1>1, <1>5, <2>4
    <3>2. signals'[i] = signals[i] /\ signals[i].id \in Message
      BY <3>1, <1>5, SignalTypes
    <3>3. CASE signals[i].id # m
      <4>1. daemon'[signals[i].id] = daemon[signals[i].id]
        BY <1>2, <3>2, <3>3
      <4> QED
        BY <3>1, <3>2, <4>1 DEF SignalsAreTrue
    <3>4. CASE signals[i].id = m
      <4>1. /\ signals[i].to = daemon[m].to
            /\ signals[i].status \in {"SENDING", "SENT", "FAILURE", "READ"}
            /\ signals[i].status = "SENT" => daemon[m].status \in {"SENT", "READ"}
            /\ signals[i].status = "FAILURE" => daemon[m].status = "FAILURE"
        BY <3>1, <3>4 DEF SignalsAreTrue
      <4> QED
        BY <3>2, <3>4, <4>1, <1>2, <1>3, <2>2
    <3> QED
      BY <3>3, <3>4
  <2> QED
    BY <2>3, <2>4
<1> QED
  BY <1>6, <1>7, <1>8

\* The message that a signal finds pending: an outgoing one of that recording.
LEMMA DeliveredIs ==
  ASSUME Basic, signals # <<>>, NEW signal, signal = Head(signals),
         DeliverStatus(signal.to, signal.id, signal.status)
  PROVE  /\ signal.id \in Message
         /\ main[signal.to] \in ContactMethod
         /\ signal.id \in pending[main[signal.to]]
         /\ message[signal.id] # NoMessage
         /\ message[signal.id].status \in Status
         /\ message[signal.id].direction = "OUT"
         /\ message[signal.id].recording = main[signal.to]
         /\ Updated(message[signal.id].status, signal.status) \in Status
         /\ message' = [message EXCEPT ![signal.id].status =
                          Updated(message[signal.id].status, signal.status)]
         /\ counter' = Moved(main[signal.to], message[signal.id].status,
                             Updated(message[signal.id].status, signal.status))
         /\ pending' = StillPending(main[signal.to], signal.id, signal.status)
         /\ saved' \in {saved, Save(main[signal.to], message')}
<1> USE DEF Basic
<1>1. /\ signal.id \in Message
      /\ main[signal.to] \in ContactMethod
      /\ signal.status \in {"SENDING", "SENT", "FAILURE", "READ"}
  BY HeadIs
<1>2. signal.id \in pending[main[signal.to]] /\ message[signal.id] # NoMessage
  BY DEF DeliverStatus
<1>3. message[signal.id].direction = "OUT" /\ message[signal.id].recording = main[signal.to]
  BY <1>1, <1>2 DEF PendingIsOut
<1>4. message[signal.id].status \in Status
  BY <1>1, <1>2, Types DEF MessageRecord
<1>5. Updated(message[signal.id].status, signal.status) \in Status
  BY <1>1, <1>4, UpdatedIs
<1> QED
  BY <1>1, <1>2, <1>3, <1>4, <1>5 DEF DeliverStatus

\* A message is pending after a signal only if it was before.
LEMMA StillPendingIs ==
  ASSUME TypeOK, NEW r \in ContactMethod, NEW m, NEW s, pending' = StillPending(r, m, s)
  PROVE  /\ pending' \in [ContactMethod -> SUBSET Message]
         /\ \A q \in ContactMethod : pending'[q] \subseteq pending[q]
         /\ \A q \in ContactMethod : \A o \in pending[q] \ {m} : o \in pending'[q]
         /\ s = "SENDING" => pending' = pending
<1>1. pending \in [ContactMethod -> SUBSET Message]
  BY DEF TypeOK
<1> QED
  BY <1>1 DEF StillPending

\* What is pending stays where it is when no message changes its place.
LEMMA PendingKept ==
  ASSUME TypeOK, PendingIsOut, daemon' = daemon,
         pending' \in [ContactMethod -> SUBSET Message],
         \A q \in ContactMethod : pending'[q] \subseteq pending[q],
         \A m \in Message : message'[m] # NoMessage =>
           /\ message[m] # NoMessage
           /\ message'[m].recording = message[m].recording
           /\ message'[m].direction = message[m].direction
  PROVE  PendingIsOut'
<1> SUFFICES ASSUME NEW r \in ContactMethod, NEW m \in pending'[r]
             PROVE  /\ daemon[m] # NoMessage
                    /\ message'[m] # NoMessage =>
                         message'[m].direction = "OUT" /\ message'[m].recording = r
  BY DEF PendingIsOut
<1>1. m \in Message /\ m \in pending[r]
  OBVIOUS
<1> QED
  BY <1>1 DEF PendingIsOut

LEMMA DeliverBasic ==
  ASSUME Basic, Deliver
  PROVE  Basic'
<1> DEFINE signal == Head(signals)
           m == signal.id
           r == main[signal.to]
<1>0. /\ signals # <<>> /\ signals' = Tail(signals)
      /\ main' = main /\ daemon' = daemon /\ cleared' = cleared
  BY DEF Deliver
<1>1. m \in Message /\ r \in ContactMethod /\ signal.status \in {"SENDING", "SENT", "FAILURE", "READ"}
  BY <1>0, HeadIs
<1>2. SignalsAreTrue' /\ signals' \in Seq(Signal)
  BY <1>0, SignalsAfterDelivery
<1>3. /\ TypeOK /\ PendingIsOut /\ IncomingOK
      /\ daemon \in [Message -> DaemonRecord \cup {NoMessage}]
      /\ main \in [ContactMethod -> ContactMethod]
      /\ saved \in [Message -> SavedRecord \cup {NoMessage}]
      /\ cleared \in SUBSET Message
  BY DEF Basic, TypeOK, IncomingOK
<1>4. CASE DeliverStatus(signal.to, m, signal.status)
  <2>1. /\ message[m] # NoMessage
        /\ message[m].direction = "OUT"
        /\ message[m].recording = r
        /\ Updated(message[m].status, signal.status) \in Status
        /\ message' = [message EXCEPT ![m].status = Updated(message[m].status, signal.status)]
        /\ counter' = Moved(r, message[m].status, Updated(message[m].status, signal.status))
        /\ pending' = StillPending(r, m, signal.status)
        /\ saved' \in {saved, Save(r, message')}
    BY <1>0, <1>4, DeliveredIs
  <2> HIDE DEF m, r, signal
  <2>2. /\ message' \in [Message -> MessageRecord \cup {NoMessage}]
        /\ message'[m].recording = message[m].recording
        /\ message'[m].direction = "OUT"
        /\ \A o \in Message \ {m} : message'[o] = message[o]
    BY <1>1, <1>3, <2>1, RestatusIs
  <2>3. saved' \in [Message -> SavedRecord \cup {NoMessage}]
    <3>1. Save(r, message') \in [Message -> SavedRecord \cup {NoMessage}]
      BY <1>1, <1>3, <2>2, SaveIs
    <3> QED
      BY <1>3, <2>1, <3>1
  <2>4. counter' \in [ContactMethod -> [Status -> Int]]
    BY <1>1, <1>3, <2>1, MovedType
  <2>5. pending' \in [ContactMethod -> SUBSET Message]
    BY <1>1, <1>3, <2>1, StillPendingIs
  <2>6. IncomingOK'
    BY <1>1, <1>3, <2>2 DEF IncomingOK
  <2>7. TypeOK'
    BY <1>0, <1>2, <1>3, <2>2, <2>3, <2>4, <2>5, <2>6 DEF TypeOK, IncomingOK
  <2>8. PendingIsOut'
    <3>1. \A q \in ContactMethod : pending'[q] \subseteq pending[q]
      BY <1>1, <1>3, <2>1, StillPendingIs
    <3>2. \A o \in Message : message'[o] # NoMessage =>
            /\ message[o] # NoMessage
            /\ message'[o].recording = message[o].recording
            /\ message'[o].direction = message[o].direction
      BY <2>1, <2>2
    <3> QED
      BY <1>0, <1>3, <2>5, <3>1, <3>2, PendingKept
  <2> QED
    BY <1>2, <2>7, <2>8 DEF Basic
<1>5. CASE DeliverUnknown(signal.to, m)
  <2>1. UNCHANGED <<message, pending, counter, saved>>
    BY <1>5 DEF DeliverUnknown
  <2> HIDE DEF m, r, signal
  <2>2. TypeOK'
    BY <1>0, <1>2, <1>3, <2>1 DEF TypeOK
  <2>3. PendingIsOut'
    BY <1>0, <1>3, <2>1 DEF PendingIsOut
  <2> QED
    BY <1>2, <2>2, <2>3 DEF Basic
<1>6. CASE DeliverDangling(signal.to, m, signal.status)
  <2>1. /\ message' = message /\ saved' = saved
        /\ pending' = StillPending(r, m, signal.status)
        /\ \E st \in {"SENDING", "ERROR"} :
             counter' = Moved(r, st, Updated(st, signal.status))
    BY <1>6 DEF DeliverDangling
  <2> HIDE DEF m, r, signal
  <2>2. counter' \in [ContactMethod -> [Status -> Int]]
    BY <1>1, <1>3, <2>1, MovedType
  <2>3. /\ pending' \in [ContactMethod -> SUBSET Message]
        /\ \A q \in ContactMethod : pending'[q] \subseteq pending[q]
    BY <1>1, <1>3, <2>1, StillPendingIs
  <2>4. TypeOK'
    BY <1>0, <1>2, <1>3, <2>1, <2>2, <2>3 DEF TypeOK
  <2>5. PendingIsOut'
    BY <1>0, <1>3, <2>1, <2>3, PendingKept
  <2> QED
    BY <1>2, <2>4, <2>5 DEF Basic
<1> QED
  BY <1>4, <1>5, <1>6 DEF Deliver

\* What the user marks changes the status of one message.
LEMMA MarkIs ==
  ASSUME TypeOK, NEW m \in Message, NEW action \in {"READ", "UNREAD"}, Mark(m, action)
  PROVE  /\ message[m] # NoMessage
         /\ message[m].recording \in ContactMethod
         /\ message[m].status \in Status
         /\ message[m].direction \in Direction
         /\ message' \in [Message -> MessageRecord \cup {NoMessage}]
         /\ message'[m] # NoMessage
         /\ message'[m].recording = message[m].recording
         /\ message'[m].direction = message[m].direction
         /\ message'[m].status = After(message[m].direction, message[m].status, action)
         /\ After(message[m].direction, message[m].status, action) \in Status
         /\ message' = [message EXCEPT ![m].status =
                          After(message[m].direction, message[m].status, action)]
         /\ \A o \in Message \ {m} : message'[o] = message[o]
<1> DEFINE to == After(message[m].direction, message[m].status, action)
<1>1. message[m] # NoMessage /\ message' = [message EXCEPT ![m].status = to]
  BY DEF Mark
<1>2. /\ message[m].recording \in ContactMethod /\ message[m].status \in Status
      /\ message[m].direction \in Direction
  BY <1>1, Types DEF MessageRecord
<1>3. to \in Status
  <2>1. action \in MessageAction
    BY DEF MessageAction
  <2> QED
    BY <1>2, <2>1, TableTypes DEF After
<1>4. /\ message' \in [Message -> MessageRecord \cup {NoMessage}]
      /\ message'[m] # NoMessage
      /\ message'[m].recording = message[m].recording
      /\ message'[m].direction = message[m].direction
      /\ message'[m].status = to
      /\ \A o \in Message \ {m} : message'[o] = message[o]
  <2> HIDE DEF to
  <2> QED
    BY <1>1, <1>3, RestatusIs
<1> QED
  BY <1>1, <1>2, <1>3, <1>4

LEMMA MarkBasic ==
  ASSUME Basic, NEW m \in Message, NEW action \in {"READ", "UNREAD"}, Mark(m, action)
  PROVE  Basic'
<1> DEFINE r  == message[m].recording
           st == message[m].status
           to == After(message[m].direction, st, action)
<1>0. /\ message[m] # NoMessage
      /\ message' = [message EXCEPT ![m].status = to]
      /\ counter' = Moved(r, st, to)
      /\ saved' = Save(r, message')
      /\ pending' = pending /\ main' = main /\ daemon' = daemon
      /\ signals' = signals /\ cleared' = cleared
  BY DEF Mark
<1>1. TypeOK /\ PendingIsOut /\ SignalsAreTrue /\ IncomingOK
  BY DEF Basic, TypeOK, IncomingOK
<1>2. r \in ContactMethod /\ st \in Status /\ to \in Status
  BY <1>1, MarkIs
<1>3. message[m].direction = "IN" => to \in {"READ", "UNREAD"}
  <2>1. message[m].direction = "IN" => st \in {"READ", "UNREAD"}
    BY <1>0, <1>1 DEF IncomingOK
  <2> QED
    BY <2>1, IncomingStays DEF After
<1>4. /\ message' \in [Message -> MessageRecord \cup {NoMessage}]
      /\ message'[m] # NoMessage
      /\ message'[m].recording = message[m].recording
      /\ message'[m].direction = message[m].direction
      /\ message'[m].status = to
      /\ \A o \in Message \ {m} : message'[o] = message[o]
  BY <1>1, MarkIs
<1> HIDE DEF r, st, to
<1>5. saved' \in [Message -> SavedRecord \cup {NoMessage}]
  BY <1>0, <1>1, <1>2, <1>4, SaveIs
<1>6. counter' \in [ContactMethod -> [Status -> Int]]
  BY <1>0, <1>1, <1>2, MovedType
<1>7. IncomingOK'
  BY <1>1, <1>3, <1>4 DEF IncomingOK
<1>8. TypeOK'
  BY <1>0, <1>1, <1>4, <1>5, <1>6, <1>7 DEF TypeOK, IncomingOK
<1>9. PendingIsOut'
  <2>1. pending' \in [ContactMethod -> SUBSET Message]
    BY <1>0, <1>1, Types
  <2>2. \A o \in Message : message'[o] # NoMessage =>
          /\ message[o] # NoMessage
          /\ message'[o].recording = message[o].recording
          /\ message'[o].direction = message[o].direction
    BY <1>0, <1>4
  <2> QED
    BY <1>0, <1>1, <2>1, <2>2, PendingKept
<1> QED
  BY <1>0, <1>1, <1>8, <1>9, SignalsKept DEF Basic

LEMMA SetAllReadBasic ==
  ASSUME Basic, NEW r \in ContactMethod, SetAllRead(r)
  PROVE  Basic'
<1>1. TypeOK /\ PendingIsOut /\ SignalsAreTrue /\ IncomingOK
  BY DEF Basic, TypeOK, IncomingOK
<1>2. /\ saved' = Save(r, message')
      /\ pending' = pending /\ main' = main /\ daemon' = daemon
      /\ signals' = signals /\ cleared' = cleared
  BY DEF SetAllRead
<1>3. message' \in [Message -> MessageRecord \cup {NoMessage}]
  BY <1>1, SetAllReadIs
<1>4. saved' \in [Message -> SavedRecord \cup {NoMessage}]
  BY <1>1, <1>2, <1>3, SaveIs
<1>5. counter' \in [ContactMethod -> [Status -> Int]]
  <2> DEFINE Left(s) == {m \in InStatus(message, r, s) : message'[m].status # s}
             Entered(s) == {m \in InStatus(message', r, s) : message[m].status # s}
  <2>1. \A s \in Status : Cardinality(Left(s)) \in Nat /\ Cardinality(Entered(s)) \in Nat
    <3>1. \A s \in Status : Left(s) \in SUBSET Message /\ Entered(s) \in SUBSET Message
      BY DEF InStatus
    <3>2. \A s \in Status : IsFiniteSet(Left(s)) /\ IsFiniteSet(Entered(s))
      BY <3>1, MessagesAreFinite, FS_Subset
    <3> QED
      BY <3>2, FS_CardinalityType
  <2>2. counter' = [counter EXCEPT ![r] =
                      [s \in Status |-> @[s] + Cardinality(Entered(s)) - Cardinality(Left(s))]]
    BY DEF SetAllRead
  <2>3. counter \in [ContactMethod -> [Status -> Int]]
    BY <1>1, Types
  <2> HIDE DEF Left, Entered
  <2>4. [s \in Status |-> counter[r][s] + Cardinality(Entered(s)) - Cardinality(Left(s))]
          \in [Status -> Int]
    BY <2>1, <2>3
  <2> QED
    BY <2>2, <2>3, <2>4
<1>6. IncomingOK'
  <2> SUFFICES ASSUME NEW m \in Message, message'[m] # NoMessage, message'[m].direction = "IN"
               PROVE  message'[m].status \in {"READ", "UNREAD"}
    BY DEF IncomingOK
  <2>1. CASE message'[m] = message[m]
    BY <1>1, <2>1 DEF IncomingOK
  <2>2. CASE message'[m] # message[m]
    <3>1. /\ message[m] # NoMessage /\ message[m].direction = "IN"
          /\ message'[m].status = After("IN", message[m].status, "READ")
      BY <1>1, <2>2, SetAllReadIs
    <3>2. message[m].status \in {"READ", "UNREAD"}
      BY <1>1, <3>1 DEF IncomingOK
    <3> QED
      BY <3>1, <3>2, IncomingStays DEF After
  <2> QED
    BY <2>1, <2>2
<1>7. TypeOK'
  BY <1>1, <1>2, <1>3, <1>4, <1>5, <1>6 DEF TypeOK, IncomingOK
<1>8. PendingIsOut'
  <2>1. pending' \in [ContactMethod -> SUBSET Message]
    BY <1>1, <1>2, Types
  <2>2. \A m \in Message : message'[m] # NoMessage =>
          /\ message[m] # NoMessage
          /\ message'[m].recording = message[m].recording
          /\ message'[m].direction = message[m].direction
    BY <1>1, SetAllReadIs
  <2> QED
    BY <1>1, <1>2, <2>1, <2>2, PendingKept
<1> QED
  BY <1>1, <1>2, <1>7, <1>8, SignalsKept DEF Basic

LEMMA MergeBasic ==
  ASSUME Basic, NEW c \in ContactMethod, NEW other \in ContactMethod, Merge(c, other)
  PROVE  Basic'
<1>1. /\ main' \in [ContactMethod -> ContactMethod]
      /\ UNCHANGED <<message, pending, counter, saved, daemon, signals, cleared>>
  BY DEF Basic, TypeOK, Merge
<1>2. TypeOK'
  BY <1>1 DEF Basic, TypeOK
<1>3. PendingIsOut' /\ SignalsAreTrue'
  BY <1>1 DEF Basic, PendingIsOut, SignalsAreTrue
<1> QED
  BY <1>2, <1>3 DEF Basic

LEMMA ClearBasic ==
  ASSUME Basic, Clear
  PROVE  Basic'
<1>1. /\ message' = [m \in Message |-> NoMessage]
      /\ saved' = [m \in Message |-> NoMessage]
      /\ cleared' \in SUBSET Message
      /\ UNCHANGED <<pending, counter, main, daemon, signals>>
  BY DEF Basic, TypeOK, Clear
<1>2. TypeOK'
  BY <1>1 DEF Basic, TypeOK
<1>3. PendingIsOut'
  <2>1. \A r \in ContactMethod : \A m \in pending[r] : m \in Message
    BY DEF Basic, TypeOK
  <2> QED
    BY <1>1, <2>1 DEF Basic, PendingIsOut
<1>4. SignalsAreTrue'
  BY <1>1 DEF Basic, SignalsAreTrue
<1> QED
  BY <1>2, <1>3, <1>4 DEF Basic

LEMMA RestartBasic ==
  ASSUME Basic, Restart
  PROVE  Basic'
<1>1. /\ counter' = Recount(message')
      /\ pending' = [r \in ContactMethod |-> {}]
      /\ main' = [c \in ContactMethod |-> c]
      /\ signals' = <<>> /\ cleared' = {}
      /\ saved' = saved /\ daemon' = daemon
  BY DEF Restart
<1>2. message' \in [Message -> MessageRecord \cup {NoMessage}]
  BY RestartIs DEF Basic
<1>3. counter' \in [ContactMethod -> [Status -> Int]]
  BY <1>1, FiniteStatus DEF Recount
<1>4. IncomingOK'
  <2> SUFFICES ASSUME NEW m \in Message, message'[m] # NoMessage, message'[m].direction = "IN"
               PROVE  message'[m].status \in {"READ", "UNREAD"}
    BY DEF IncomingOK
  <2>1. saved[m].direction = "IN" /\ message'[m].status = Existing(saved[m])
    BY RestartIs DEF Basic
  <2> QED
    BY <2>1 DEF Existing
<1>5. TypeOK'
  BY <1>1, <1>2, <1>3, <1>4 DEF Basic, TypeOK, IncomingOK
<1>6. PendingIsOut' /\ SignalsAreTrue'
  BY <1>1 DEF PendingIsOut, SignalsAreTrue
<1> QED
  BY <1>5, <1>6 DEF Basic

\* Send, SendUntracked and Receive: what they insert, and that the name is unused.
LEMMA SendIs ==
  ASSUME Basic, NEW c \in ContactMethod, NEW m \in Message,
         Send(c, m) \/ SendUntracked(c, m) \/ Receive(c, m)
  PROVE  /\ message[m] = NoMessage
         /\ daemon[m] = NoMessage
         /\ \A r \in ContactMethod : m \notin pending[r]
         /\ daemon' \in [Message -> DaemonRecord \cup {NoMessage}]
         /\ \A o \in Message : daemon[o] # NoMessage => daemon'[o] = daemon[o]
         /\ UNCHANGED <<main, signals, cleared>>
         /\ \/ /\ Insert(c, m, "OUT", "SENDING", TRUE)
               /\ daemon'[m] # NoMessage /\ daemon'[m].to = c
               /\ daemon'[m].status = "SENDING"
            \/ Insert(c, m, "OUT", "UNKNOWN", FALSE)
            \/ Insert(c, m, "IN", "UNREAD", FALSE)
<1>1. message[m] = NoMessage /\ daemon[m] = NoMessage
  BY DEF Send, SendUntracked, Receive, Unused
<1>2. \A r \in ContactMethod : m \notin pending[r]
  BY <1>1 DEF Basic, PendingIsOut
<1>3. daemon \in [Message -> DaemonRecord \cup {NoMessage}]
  BY DEF Basic, TypeOK
<1>4. CASE Send(c, m)
  <2> DEFINE given == [to |-> c, status |-> "SENDING"]
  <2>1. daemon' = [daemon EXCEPT ![m] = given]
    BY <1>4 DEF Send
  <2>2. given \in DaemonRecord /\ given.to = c /\ given.status = "SENDING"
    BY DEF DaemonRecord, DaemonStatus
  <2>3. given # NoMessage
    BY <2>2, NoMessageIsNone
  <2> HIDE DEF given
  <2>4. /\ daemon' \in [Message -> DaemonRecord \cup {NoMessage}]
        /\ daemon'[m] = given
        /\ \A o \in Message : daemon[o] # NoMessage => daemon'[o] = daemon[o]
    BY <1>1, <1>3, <2>1, <2>2
  <2> QED
    BY <1>1, <1>2, <1>4, <2>2, <2>3, <2>4 DEF Send
<1>5. CASE SendUntracked(c, m) \/ Receive(c, m)
  <2>1. UNCHANGED <<main, daemon, signals, cleared>>
    BY <1>5 DEF SendUntracked, Receive
  <2>2. Insert(c, m, "OUT", "UNKNOWN", FALSE) \/ Insert(c, m, "IN", "UNREAD", FALSE)
    BY <1>5 DEF SendUntracked, Receive
  <2> QED
    BY <1>1, <1>2, <1>3, <2>1, <2>2
<1> QED
  BY <1>4, <1>5

LEMMA SendBasic ==
  ASSUME Basic, NEW c \in ContactMethod, NEW m \in Message,
         Send(c, m) \/ SendUntracked(c, m) \/ Receive(c, m)
  PROVE  Basic'
<1>1. "OUT" \in Direction /\ "IN" \in Direction
  BY DEF Direction
<1>2. "SENDING" \in Status /\ "UNKNOWN" \in Status /\ "UNREAD" \in Status
  BY DEF Status
<1> QED
  BY <1>1, <1>2, SendIs, InsertBasic

LEMMA BasicStep == Basic /\ [Next]_vars => Basic'
<1> SUFFICES ASSUME Basic, [Next]_vars PROVE Basic'
  OBVIOUS
<1>1. ASSUME NEW c \in ContactMethod, NEW m \in Message,
             Send(c, m) \/ SendUntracked(c, m) \/ Receive(c, m)
      PROVE  Basic'
  BY <1>1, SendBasic
<1>2. ASSUME NEW m \in Message, NEW s \in DaemonStatus, DaemonReports(m, s)
      PROVE  Basic'
  BY <1>2, DaemonReportsBasic
<1>3. CASE Deliver
  BY <1>3, DeliverBasic
<1>4. ASSUME NEW m \in Message, NEW action \in {"READ", "UNREAD"}, Mark(m, action)
      PROVE  Basic'
  BY <1>4, MarkBasic
<1>5. ASSUME NEW r \in ContactMethod, SetAllRead(r)
      PROVE  Basic'
  BY <1>5, SetAllReadBasic
<1>6. ASSUME NEW c \in ContactMethod, NEW other \in ContactMethod, Merge(c, other)
      PROVE  Basic'
  BY <1>6, MergeBasic
<1>7. CASE Clear
  BY <1>7, ClearBasic
<1>8. CASE Restart
  BY <1>8, RestartBasic
<1>9. CASE UNCHANGED vars
  BY <1>9 DEF vars, Basic, TypeOK, PendingIsOut, SignalsAreTrue
<1> QED
  BY <1>1, <1>2, <1>3, <1>4, <1>5, <1>6, <1>7, <1>8, <1>9 DEF Next

LEMMA BasicInvariant == Spec => []Basic
<1> QED
  BY BasicInit, BasicStep, PTL DEF Spec

\* The types, and that an incoming message is only ever read or unread.
THEOREM TypeCorrect == Spec => []TypeOK
<1>1. Basic => TypeOK
  BY DEF Basic
<1> QED
  BY BasicInvariant, <1>1, PTL
----------------------------------------------------------------------------
(* A crash loses no message and nothing that was read.                     *)

LEMMA SavedStep ==
  ASSUME Basic, SavedAgrees, [Next]_vars
  PROVE  SavedAgrees'
<1>0. TypeOK
  BY DEF Basic
<1>1. ASSUME NEW c \in ContactMethod, NEW m \in Message,
             NEW direction \in Direction, NEW status \in Status, NEW id \in BOOLEAN,
             Insert(c, m, direction, status, id)
      PROVE  SavedAgrees'
  <2>1. saved' = Save(main[c], message')
    BY <1>1 DEF Insert
  <2>2. /\ main[c] \in ContactMethod
        /\ message' \in [Message -> MessageRecord \cup {NoMessage}]
        /\ message'[m] # NoMessage /\ message'[m].recording = main[c]
        /\ \A o \in Message \ {m} : message'[o] = message[o]
    BY <1>0, <1>1, InsertIs
  <2> QED
    BY <1>0, <2>1, <2>2, SavedAfterSave
<1>2. ASSUME NEW c \in ContactMethod, NEW m \in Message,
             Send(c, m) \/ SendUntracked(c, m) \/ Receive(c, m)
      PROVE  SavedAgrees'
  <2>1. "OUT" \in Direction /\ "IN" \in Direction
    BY DEF Direction
  <2>2. "SENDING" \in Status /\ "UNKNOWN" \in Status /\ "UNREAD" \in Status
    BY DEF Status
  <2> QED
    BY <1>1, <1>2, <2>1, <2>2, SendIs
<1>3. ASSUME NEW signal, signals # <<>>, signal = Head(signals),
             DeliverStatus(signal.to, signal.id, signal.status)
      PROVE  SavedAgrees'
  <2> DEFINE m == signal.id
             r == main[signal.to]
  <2>1. /\ m \in Message /\ r \in ContactMethod
        /\ message[m] # NoMessage
        /\ message[m].direction = "OUT"
        /\ message[m].recording = r
        /\ Updated(message[m].status, signal.status) \in Status
        /\ message' = [message EXCEPT ![m].status = Updated(message[m].status, signal.status)]
        /\ saved' \in {saved, Save(r, message')}
    BY <1>3, DeliveredIs
  <2> HIDE DEF m, r
  <2>2. /\ message' \in [Message -> MessageRecord \cup {NoMessage}]
        /\ message'[m] # NoMessage
        /\ message'[m].recording = message[m].recording
        /\ message'[m].direction = "OUT"
        /\ \A o \in Message \ {m} : message'[o] = message[o]
    BY <1>0, <2>1, RestatusIs
  <2>3. CASE saved' = Save(r, message')
    BY <1>0, <2>1, <2>2, <2>3, SavedAfterSave
  <2>4. CASE saved' = saved
    BY <2>1, <2>2, <2>4 DEF SavedAgrees
  <2> QED
    BY <2>1, <2>3, <2>4
<1>4. CASE Deliver
  <2>1. CASE UNCHANGED <<message, saved>>
    BY <2>1 DEF SavedAgrees
  <2> QED
    BY <1>3, <1>4, <2>1 DEF Deliver, DeliverUnknown, DeliverDangling
<1>5. ASSUME NEW m \in Message, NEW action \in {"READ", "UNREAD"}, Mark(m, action)
      PROVE  SavedAgrees'
  <2>1. saved' = Save(message[m].recording, message')
    BY <1>5 DEF Mark
  <2>2. /\ message' \in [Message -> MessageRecord \cup {NoMessage}]
        /\ message[m].recording \in ContactMethod
        /\ message'[m] # NoMessage /\ message'[m].recording = message[m].recording
        /\ \A o \in Message \ {m} : message'[o] = message[o]
    BY <1>0, <1>5, MarkIs
  <2> QED
    BY <1>0, <2>1, <2>2, SavedAfterSave
<1>6. ASSUME NEW r \in ContactMethod, SetAllRead(r)
      PROVE  SavedAgrees'
  <2>1. saved' = Save(r, message')
    BY <1>6 DEF SetAllRead
  <2>2. /\ message' \in [Message -> MessageRecord \cup {NoMessage}]
        /\ \A m \in Message : \/ message'[m] = message[m]
                              \/ message'[m] # NoMessage /\ message'[m].recording = r
    BY <1>0, <1>6, SetAllReadIs
  <2> QED
    BY <1>0, <2>1, <2>2, SavedAfterSave
<1>7. CASE Clear
  BY <1>7 DEF Clear, SavedAgrees
<1>8. CASE Restart
  <2>1. saved' = saved
    BY <1>8 DEF Restart
  <2>2. ASSUME NEW m \in Message
        PROVE  /\ saved[m] = NoMessage <=> message'[m] = NoMessage
               /\ message'[m] # NoMessage =>
                    /\ saved[m].recording = message'[m].recording
                    /\ saved[m].direction = message'[m].direction
                    /\ message'[m].direction = "IN" =>
                         (saved[m].isRead <=> message'[m].status = "READ")
    <3>1. CASE saved[m] = NoMessage
      BY <1>0, <1>8, <3>1, RestartIs
    <3>2. CASE saved[m] # NoMessage
      <4>1. /\ message'[m] # NoMessage
            /\ message'[m].recording = saved[m].recording
            /\ message'[m].direction = saved[m].direction
            /\ message'[m].status = Existing(saved[m])
        BY <1>0, <1>8, <3>2, RestartIs
      <4>2. saved[m].direction = "IN" =>
              (Existing(saved[m]) = "READ" <=> saved[m].isRead)
        BY DEF Existing
      <4> QED
        BY <3>2, <4>1, <4>2
    <3> QED
      BY <3>1, <3>2
  <2> QED
    BY <2>1, <2>2 DEF SavedAgrees
<1>9. CASE UNCHANGED <<message, saved>>
  BY <1>9 DEF SavedAgrees
<1> QED
  BY <1>2, <1>4, <1>5, <1>6, <1>7, <1>8, <1>9 DEF Next, vars, DaemonReports, Merge

\* Between two handlers the files have all the messages and what was read of them.
THEOREM Recoverable == Spec => []SavedAgrees
<1>1. Init => SavedAgrees
  BY DEF Init, SavedAgrees
<1>2. Basic /\ SavedAgrees /\ [Next]_vars => SavedAgrees'
  BY SavedStep
<1> QED
  BY BasicInvariant, <1>1, <1>2, PTL DEF Spec
----------------------------------------------------------------------------
(* What is shown of a delivery is true.                                    *)

LEMMA VerdictStep ==
  ASSUME Basic, VerdictIsTrue, [Next]_vars
  PROVE  VerdictIsTrue'
<1> DEFINE True(msg, d) == /\ msg = "SENT" => d # NoMessage /\ d.status \in {"SENT", "READ"}
                           /\ msg = "FAILURE" => d # NoMessage /\ d.status = "FAILURE"
<1>0. TypeOK /\ IncomingOK
  BY DEF Basic, TypeOK, IncomingOK
<1> SUFFICES ASSUME NEW o \in Message, message'[o] # NoMessage
             PROVE  True(message'[o].status, daemon'[o])
  BY DEF VerdictIsTrue
<1>i. message[o] # NoMessage => True(message[o].status, daemon[o])
  BY DEF VerdictIsTrue
<1>1. ASSUME NEW c \in ContactMethod, NEW m \in Message,
             Send(c, m) \/ SendUntracked(c, m) \/ Receive(c, m)
      PROVE  True(message'[o].status, daemon'[o])
  <2>1. \E direction \in Direction, status \in {"SENDING", "UNKNOWN", "UNREAD"}, id \in BOOLEAN :
          Insert(c, m, direction, status, id)
    BY <1>1, SendIs DEF Direction
  <2>2. /\ message'[m].status \in {"SENDING", "UNKNOWN", "UNREAD"}
        /\ o # m => message'[o] = message[o]
    <3>1. PICK direction \in Direction, status \in {"SENDING", "UNKNOWN", "UNREAD"}, id \in BOOLEAN :
            Insert(c, m, direction, status, id)
      BY <2>1
    <3>2. status \in Status
      BY DEF Status
    <3>3. message'[m].status = status /\ \A p \in Message \ {m} : message'[p] = message[p]
      BY <1>0, <3>1, <3>2, InsertIs
    <3> QED
      BY <3>3
  <2>3. daemon[o] # NoMessage => daemon'[o] = daemon[o]
    BY <1>1, SendIs
  <2> QED
    BY <1>i, <2>2, <2>3
<1>2. ASSUME NEW m \in Message, NEW s \in DaemonStatus, DaemonReports(m, s)
      PROVE  True(message'[o].status, daemon'[o])
  <2>1. /\ daemon[m] # NoMessage
        /\ s \in FollowUp(daemon[m].status)
        /\ daemon' = [daemon EXCEPT ![m].status = s]
        /\ message' = message
    BY <1>2 DEF DaemonReports
  <2>2. /\ daemon \in [Message -> DaemonRecord \cup {NoMessage}]
        /\ daemon[m] \in DaemonRecord
    BY <1>0, <2>1 DEF TypeOK
  <2>3. /\ daemon'[m] \in DaemonRecord /\ daemon'[m].status = s
        /\ o # m => daemon'[o] = daemon[o]
    BY <2>1, <2>2 DEF DaemonRecord
  <2>4. daemon'[m] # NoMessage
    BY <2>3, NoMessageIsNone
  <2>5. /\ daemon[m].status = "SENT" => s = "READ"
        /\ daemon[m].status \notin {"READ", "FAILURE"}
    BY <2>1 DEF FollowUp
  <2> QED
    BY <1>i, <2>1, <2>3, <2>4, <2>5
<1>3. CASE Deliver
  <2> DEFINE signal == Head(signals)
             m == signal.id
  <2>0. signals # <<>> /\ daemon' = daemon
    BY <1>3 DEF Deliver
  <2>1. CASE DeliverStatus(signal.to, m, signal.status)
    <3>1. /\ m \in Message
          /\ message[m] # NoMessage
          /\ message[m].status \in Status
          /\ Updated(message[m].status, signal.status) \in Status
          /\ message' = [message EXCEPT ![m].status = Updated(message[m].status, signal.status)]
      BY <2>0, <2>1, DeliveredIs
    <3>2. signal.status \in {"SENDING", "SENT", "FAILURE", "READ"}
      BY <2>0, HeadIs
    <3>3. /\ signal.status = "SENT" => daemon[m] # NoMessage /\ daemon[m].status \in {"SENT", "READ"}
          /\ signal.status = "FAILURE" => daemon[m] # NoMessage /\ daemon[m].status = "FAILURE"
      <4>1. signal = signals[1] /\ 1 \in 1..Len(signals)
        BY <2>0, HeadIs
      <4> QED
        BY <4>1 DEF Basic, SignalsAreTrue
    <3> HIDE DEF m, signal
    <3>4. /\ message'[m].status = Updated(message[m].status, signal.status)
          /\ o # m => message'[o] = message[o]
      BY <1>0, <3>1, RestatusIs
    <3>5. /\ Updated(message[m].status, signal.status) = "SENT" =>
               signal.status = "SENT" \/ message[m].status = "SENT"
          /\ Updated(message[m].status, signal.status) = "FAILURE" =>
               signal.status = "FAILURE" \/ message[m].status = "FAILURE"
      BY <3>1, <3>2, UpdatedIs
    <3> QED
      BY <1>i, <2>0, <3>1, <3>3, <3>4, <3>5
  <2>2. CASE message' = message
    BY <1>i, <2>0, <2>2
  <2> QED
    BY <1>3, <2>1, <2>2 DEF Deliver, DeliverUnknown, DeliverDangling
<1>4. ASSUME NEW m \in Message, NEW a \in {"READ", "UNREAD"}, message[m] # NoMessage,
             message[m].status \in Status, message[m].direction \in Direction
      PROVE  After(message[m].direction, message[m].status, a) \notin {"SENDING", "SENT", "FAILURE"}
  <2>1. CASE message[m].direction = "IN"
    <3>1. message[m].status \in {"READ", "UNREAD"}
      BY <1>0, <1>4, <2>1 DEF IncomingOK
    <3> QED
      BY <2>1, <3>1, IncomingStays DEF After
  <2>2. CASE message[m].direction # "IN"
    BY <1>4, <2>2, UserDecidesNothing DEF After
  <2> QED
    BY <2>1, <2>2
<1>5. ASSUME NEW m \in Message, NEW action \in {"READ", "UNREAD"}, Mark(m, action)
      PROVE  True(message'[o].status, daemon'[o])
  <2>1. /\ message[m] # NoMessage /\ message[m].status \in Status
        /\ message[m].direction \in Direction
        /\ message'[m].status = After(message[m].direction, message[m].status, action)
        /\ o # m => message'[o] = message[o]
    BY <1>0, <1>5, MarkIs
  <2>2. daemon' = daemon
    BY <1>5 DEF Mark
  <2> QED
    BY <1>i, <1>4, <2>1, <2>2
<1>6. ASSUME NEW r \in ContactMethod, SetAllRead(r)
      PROVE  True(message'[o].status, daemon'[o])
  <2>1. \/ message'[o] = message[o]
        \/ /\ message[o] # NoMessage
           /\ message'[o].status = After(message[o].direction, message[o].status, "READ")
    BY <1>0, <1>6, SetAllReadIs
  <2>2. message[o] # NoMessage => message[o].status \in Status /\ message[o].direction \in Direction
    BY <1>0, Types DEF MessageRecord
  <2>3. daemon' = daemon
    BY <1>6 DEF SetAllRead
  <2> QED
    BY <1>i, <1>4, <2>1, <2>2, <2>3
<1>7. CASE Clear
  BY <1>7 DEF Clear
<1>8. CASE Restart
  <2>1. message'[o].status \in {"UNKNOWN", "READ", "UNREAD"}
    <3>1. message'[o].status = Existing(saved[o])
      BY <1>0, <1>8, RestartIs
    <3> QED
      BY <3>1 DEF Existing
  <2> QED
    BY <2>1
<1>9. CASE UNCHANGED <<message, daemon>>
  BY <1>i, <1>9
<1> QED
  BY <1>1, <1>2, <1>3, <1>5, <1>6, <1>7, <1>8, <1>9 DEF Next, vars, Merge

\* SENT and FAILURE are shown only of messages that the daemon has sent or given up.
THEOREM Truthful == Spec => []VerdictIsTrue
<1>1. Init => VerdictIsTrue
  BY DEF Init, VerdictIsTrue
<1>2. Basic /\ VerdictIsTrue /\ [Next]_vars => VerdictIsTrue'
  BY VerdictStep
<1> QED
  BY BasicInvariant, <1>1, <1>2, PTL DEF Spec
----------------------------------------------------------------------------
(* The library does not forget a message that it is sending.               *)

\* A message that is being sent is in the recording its destination had then, which is
\* the destination's own or, since a merge, its present one.
SentWhere ==
  \A m \in Message : Sending(m) =>
    message[m].recording \in {daemon[m].to, main[daemon[m].to]}

\* A message that is pending is being sent, or the user made an error of it.
PendingStatus ==
  \A r \in ContactMethod : \A m \in pending[r] :
    message[m] # NoMessage => message[m].status \in {"SENDING", "ERROR"}

Tracking == SendingIsTracked /\ SentWhere /\ PendingStatus

\* The part of Tracking that is about m.
Tracked(m) ==
  Sending(m) =>
    /\ daemon[m] # NoMessage
    /\ m \in pending[message[m].recording]
    /\ Settled(m) /\ ~Orphaned(m) => VerdictQueued(m)
    /\ message[m].recording \in {daemon[m].to, main[daemon[m].to]}

LEMMA TrackedIs ==
  SendingIsTracked /\ SentWhere <=> \A m \in Message : Tracked(m)
  BY DEF SendingIsTracked, SentWhere, Tracked

LEMMA TrackedAfter ==
  ASSUME \A m \in Message : Tracked(m)', PendingStatus'
  PROVE  Tracking'
  BY DEF Tracking, SendingIsTracked, SentWhere, Tracked

\* A message that the step does not touch is as well tracked as before, if what
\* settles it is queued still.
LEMMA TrackedKept ==
  ASSUME NEW o \in Message, Tracked(o), message'[o] = message[o], main' = main,
         Sending(o) => /\ daemon'[o] = daemon[o]
                       /\ o \in pending'[message[o].recording]
                       /\ VerdictQueued(o) => VerdictQueued(o)'
  PROVE  Tracked(o)'
  BY DEF Tracked, Sending, Settled, Orphaned

\* A message that is not being sent after the step needs nothing.
LEMMA TrackedUnlessSending ==
  ASSUME NEW o, message'[o] = NoMessage \/ message'[o].status # "SENDING"
  PROVE  Tracked(o)'
  BY DEF Tracked, Sending

\* A signal stays queued unless it is the one that is delivered.
LEMMA VerdictKept ==
  ASSUME Basic, signals # <<>>, signals' = Tail(signals), daemon' = daemon, NEW o \in Message,
         VerdictQueued(o),
         \/ Head(signals).id # o
         \/ Head(signals).to # daemon[o].to
         \/ Head(signals).status \notin {"SENT", "FAILURE"}
  PROVE  VerdictQueued(o)'
<1>1. PICK i \in 1..Len(signals) :
        /\ signals[i].id = o
        /\ signals[i].to = daemon[o].to
        /\ signals[i].status \in {"SENT", "FAILURE"}
  BY DEF VerdictQueued
<1>2. i # 1
  BY <1>1, HeadIs
<1>3. signals \in Seq(Signal)
  BY SignalTypes DEF Basic
<1>4. i - 1 \in 1..Len(signals') /\ signals'[i - 1] = signals[i]
  BY <1>2, <1>3
<1> QED
  BY <1>1, <1>4 DEF VerdictQueued

LEMMA SendTracked ==
  ASSUME Basic, Tracking, NEW c \in ContactMethod, NEW m \in Message,
         Send(c, m) \/ SendUntracked(c, m) \/ Receive(c, m)
  PROVE  Tracking'
<1>0. TypeOK /\ PendingStatus /\ \A o \in Message : Tracked(o)
  BY TrackedIs DEF Basic, Tracking
<1>1. PICK direction \in Direction, status \in {"SENDING", "UNKNOWN", "UNREAD"}, id \in BOOLEAN :
        /\ Insert(c, m, direction, status, id)
        /\ id <=> status = "SENDING"
        /\ id => daemon'[m] # NoMessage /\ daemon'[m].to = c /\ daemon'[m].status = "SENDING"
  BY SendIs DEF Direction
<1>2. status \in Status
  BY DEF Status
<1>3. /\ main[c] \in ContactMethod
      /\ message'[m].recording = main[c]
      /\ message'[m].status = status
      /\ \A o \in Message \ {m} : message'[o] = message[o]
  BY <1>0, <1>1, <1>2, InsertIs
<1>4. /\ pending \in [ContactMethod -> SUBSET Message]
      /\ pending' = [pending EXCEPT ![main[c]] =
                       IF id /\ status = "SENDING" THEN @ \cup {m} ELSE @]
  BY <1>0, <1>1 DEF Insert, TypeOK
<1>5. /\ main' = main /\ signals' = signals
      /\ \A o \in Message : daemon[o] # NoMessage => daemon'[o] = daemon[o]
      /\ \A r \in ContactMethod : m \notin pending[r]
  BY SendIs
<1>6. ASSUME NEW o \in Message PROVE Tracked(o)'
  <2>1. CASE o = m /\ status = "SENDING"
    <3>1. m \in pending'[message'[m].recording]
      BY <1>1, <1>3, <1>4, <2>1
    <3>2. ~Settled(m)'
      BY <1>1, <2>1 DEF Settled
    <3> QED
      BY <1>1, <1>3, <1>5, <2>1, <3>1, <3>2 DEF Tracked
  <2>2. CASE o = m /\ status # "SENDING"
    BY <1>3, <2>2, TrackedUnlessSending
  <2>3. CASE o # m
    <3>1. message'[o] = message[o]
      BY <1>3, <2>3
    <3>2. ASSUME Sending(o)
          PROVE  /\ daemon'[o] = daemon[o]
                 /\ o \in pending'[message[o].recording]
                 /\ VerdictQueued(o) => VerdictQueued(o)'
      <4>1. daemon[o] # NoMessage /\ o \in pending[message[o].recording]
        BY <1>0, <3>2 DEF Tracked
      <4>2. message[o].recording \in ContactMethod
        BY <1>0, <3>2, Types DEF Sending, MessageRecord
      <4>3. daemon'[o] = daemon[o]
        BY <1>5, <4>1
      <4>4. o \in pending'[message[o].recording]
        BY <1>4, <4>1, <4>2
      <4> QED
        BY <1>5, <4>3, <4>4 DEF VerdictQueued
    <3> QED
      BY <1>0, <1>5, <3>1, <3>2, TrackedKept
  <2> QED
    BY <2>1, <2>2, <2>3
<1>7. PendingStatus'
  <2> SUFFICES ASSUME NEW r \in ContactMethod, NEW o \in pending'[r], message'[o] # NoMessage
               PROVE  message'[o].status \in {"SENDING", "ERROR"}
    BY DEF PendingStatus
  <2>1. CASE o = m
    BY <1>3, <1>4, <1>5, <2>1
  <2>2. CASE o # m
    <3>1. o \in pending[r] /\ o \in Message
      BY <1>4, <2>2
    <3> QED
      BY <1>0, <1>3, <2>2, <3>1 DEF PendingStatus
  <2> QED
    BY <2>1, <2>2
<1> QED
  BY <1>6, <1>7, TrackedAfter

LEMMA DaemonReportsTracked ==
  ASSUME Basic, Tracking, NEW m \in Message, NEW s \in DaemonStatus, DaemonReports(m, s)
  PROVE  Tracking'
<1>0. TypeOK /\ PendingStatus /\ \A o \in Message : Tracked(o)
  BY TrackedIs DEF Basic, Tracking
<1> DEFINE signal == [id |-> m, to |-> daemon[m].to, status |-> s]
<1>1. /\ daemon[m] # NoMessage
      /\ s \in FollowUp(daemon[m].status)
      /\ daemon' = [daemon EXCEPT ![m].status = s]
      /\ signals' = Append(signals, signal)
      /\ message' = message /\ pending' = pending /\ main' = main
  BY DEF DaemonReports
<1>2. /\ daemon \in [Message -> DaemonRecord \cup {NoMessage}]
      /\ daemon[m] \in DaemonRecord
      /\ signals \in Seq(Signal)
  BY <1>0, <1>1 DEF TypeOK
<1>3. /\ daemon'[m] \in DaemonRecord
      /\ daemon'[m].to = daemon[m].to
      /\ daemon'[m].status = s
      /\ \A o \in Message \ {m} : daemon'[o] = daemon[o]
  BY <1>1, <1>2 DEF DaemonRecord
<1>4. daemon'[m] # NoMessage
  BY <1>3, NoMessageIsNone
<1>5. signal \in Signal
  BY <1>2 DEF Signal, DaemonRecord
<1>6. /\ Len(signals) + 1 \in 1..Len(signals')
      /\ signals'[Len(signals) + 1] = signal
      /\ \A i \in 1..Len(signals) : i \in 1..Len(signals') /\ signals'[i] = signals[i]
  BY <1>1, <1>2, <1>5
<1>7. ASSUME NEW o \in Message, VerdictQueued(o)
      PROVE  VerdictQueued(o)'
  <2>1. PICK i \in 1..Len(signals) :
          /\ signals[i].id = o
          /\ signals[i].to = daemon[o].to
          /\ signals[i].status \in {"SENT", "FAILURE"}
    BY <1>7 DEF VerdictQueued
  <2>2. daemon'[o].to = daemon[o].to
    BY <1>3
  <2>3. i \in 1..Len(signals') /\ signals'[i] = signals[i]
    BY <1>6
  <2> QED
    BY <2>1, <2>2, <2>3 DEF VerdictQueued
<1>8. ASSUME s \in {"SENT", "FAILURE"}
      PROVE  VerdictQueued(m)'
  <2>1. /\ signals'[Len(signals) + 1].id = m
        /\ signals'[Len(signals) + 1].to = daemon'[m].to
        /\ signals'[Len(signals) + 1].status = s
    BY <1>3, <1>6
  <2> QED
    BY <1>6, <1>8, <2>1 DEF VerdictQueued
<1>9. ASSUME NEW o \in Message PROVE Tracked(o)'
  <2>1. CASE o # m
    <3>1. daemon'[o] = daemon[o]
      BY <1>3, <2>1
    <3>2. Sending(o) => o \in pending'[message[o].recording]
      BY <1>0, <1>1 DEF Tracked
    <3> QED
      BY <1>0, <1>1, <1>7, <3>1, <3>2, TrackedKept
  <2>2. CASE o = m /\ Sending(m)
    <3>1. /\ m \in pending[message[m].recording]
          /\ Settled(m) /\ ~Orphaned(m) => VerdictQueued(m)
          /\ message[m].recording \in {daemon[m].to, main[daemon[m].to]}
      BY <1>0, <2>2 DEF Tracked
    <3>2. Orphaned(m)' <=> Orphaned(m)
      BY <1>1, <1>3 DEF Orphaned
    <3>3. CASE s = "READ"
      <4>1. daemon[m].status = "SENT"
        BY <1>1, <3>3 DEF FollowUp
      <4>2. Settled(m)
        BY <1>1, <4>1 DEF Settled
      <4> QED
        BY <1>1, <1>3, <1>4, <1>7, <2>2, <3>1, <3>2, <4>2 DEF Tracked
    <3>4. CASE s \in {"SENT", "FAILURE"}
      BY <1>1, <1>3, <1>4, <1>8, <2>2, <3>1, <3>4 DEF Tracked
    <3>5. CASE s \notin {"SENT", "FAILURE", "READ"}
      <4>1. ~Settled(m)'
        BY <1>3, <3>5 DEF Settled
      <4> QED
        BY <1>1, <1>3, <1>4, <2>2, <3>1, <4>1 DEF Tracked
    <3> QED
      BY <3>3, <3>4, <3>5
  <2>3. CASE o = m /\ ~Sending(m)
    BY <1>1, <2>3 DEF Tracked, Sending
  <2> QED
    BY <2>1, <2>2, <2>3
<1>10. PendingStatus'
  BY <1>0, <1>1 DEF PendingStatus
<1> QED
  BY <1>9, <1>10, TrackedAfter

LEMMA DeliverTracked ==
  ASSUME Basic, Tracking, Deliver
  PROVE  Tracking'
<1>0. TypeOK /\ PendingStatus /\ PendingIsOut /\ \A o \in Message : Tracked(o)
  BY TrackedIs DEF Basic, Tracking
<1> DEFINE signal == Head(signals)
           m == signal.id
           r == main[signal.to]
<1>1. /\ signals # <<>> /\ signals' = Tail(signals)
      /\ main' = main /\ daemon' = daemon
  BY DEF Deliver
<1>2. /\ m \in Message /\ r \in ContactMethod
      /\ signal.status \in {"SENDING", "SENT", "FAILURE", "READ"}
  BY <1>1, HeadIs
<1>3. pending \in [ContactMethod -> SUBSET Message]
  BY <1>0, Types
\* A message that the signal is not about.
<1>4. ASSUME NEW o \in Message, o # m, message'[o] = message[o],
             \A q \in ContactMethod : o \in pending[q] => o \in pending'[q]
      PROVE  Tracked(o)'
  <2>1. ASSUME Sending(o) PROVE o \in pending'[message[o].recording]
    <3>1. message[o].recording \in ContactMethod
      BY <1>0, <2>1, Types DEF Sending, MessageRecord
    <3> QED
      BY <1>0, <1>4, <2>1, <3>1 DEF Tracked
  <2>2. VerdictQueued(o) => VerdictQueued(o)'
    BY <1>1, <1>4, VerdictKept
  <2> QED
    BY <1>0, <1>1, <1>4, <2>1, <2>2, TrackedKept
<1>5. CASE DeliverStatus(signal.to, m, signal.status)
  <2>1. /\ m \in pending[r]
        /\ message[m] # NoMessage
        /\ message[m].status \in Status
        /\ message[m].recording = r
        /\ Updated(message[m].status, signal.status) \in Status
        /\ message' = [message EXCEPT ![m].status = Updated(message[m].status, signal.status)]
        /\ pending' = StillPending(r, m, signal.status)
    BY <1>1, <1>5, DeliveredIs
  <2>2. message[m].status \in {"SENDING", "ERROR"}
    BY <1>0, <1>2, <2>1 DEF PendingStatus
  <2> HIDE DEF m, r, signal
  <2>3. /\ message'[m].recording = r
        /\ message'[m].status = Updated(message[m].status, signal.status)
        /\ \A o \in Message \ {m} : message'[o] = message[o]
    BY <1>0, <1>2, <2>1, RestatusIs
  <2>4. /\ pending' \in [ContactMethod -> SUBSET Message]
        /\ \A q \in ContactMethod : pending'[q] \subseteq pending[q]
        /\ \A q \in ContactMethod : \A o \in pending[q] \ {m} : o \in pending'[q]
        /\ signal.status = "SENDING" => pending' = pending
        /\ signal.status # "SENDING" => m \notin pending'[r]
    <3>1. signal.status # "SENDING" => m \notin pending'[r]
      BY <1>2, <1>3, <2>1 DEF StillPending
    <3> QED
      BY <1>0, <1>2, <2>1, <3>1, StillPendingIs
  <2>5. Updated(message[m].status, signal.status) = "SENDING" =>
          signal.status = "SENDING" /\ message[m].status = "SENDING"
    BY <1>2, <2>1, <2>2, UpdatedIs
  <2>6. ASSUME NEW o \in Message, o = m, message'[o].status = "SENDING"
        PROVE  Tracked(o)'
    <3>1. signal.status = "SENDING" /\ Sending(o)
      BY <2>1, <2>3, <2>5, <2>6 DEF Sending
    <3>2. /\ daemon[o] # NoMessage
          /\ o \in pending[message[o].recording]
          /\ Settled(o) /\ ~Orphaned(o) => VerdictQueued(o)
          /\ message[o].recording \in {daemon[o].to, main[daemon[o].to]}
      BY <1>0, <3>1 DEF Tracked
    <3>3. VerdictQueued(o) => VerdictQueued(o)'
      BY <1>1, <3>1, VerdictKept DEF signal
    <3>4. message'[o].recording = message[o].recording /\ pending' = pending
      BY <2>1, <2>3, <2>4, <2>6, <3>1
    <3> QED
      BY <1>1, <3>2, <3>3, <3>4 DEF Tracked, Settled, Orphaned
  <2>7. ASSUME NEW o \in Message PROVE Tracked(o)'
    <3>1. CASE o = m
      BY <2>6, <3>1, TrackedUnlessSending
    <3>2. CASE o # m
      BY <1>4, <2>3, <2>4, <3>2
    <3> QED
      BY <3>1, <3>2
  <2>8. PendingStatus'
    <3> SUFFICES ASSUME NEW q \in ContactMethod, NEW o \in pending'[q], message'[o] # NoMessage
                 PROVE  message'[o].status \in {"SENDING", "ERROR"}
      BY DEF PendingStatus
    <3>1. o \in pending[q] /\ o \in Message
      BY <2>4
    <3>2. CASE o # m
      BY <1>0, <2>3, <3>1, <3>2 DEF PendingStatus
    <3>3. CASE o = m
      <4>1. q = r
        BY <1>0, <2>1, <3>1, <3>3 DEF PendingIsOut
      <4>2. signal.status = "SENDING"
        BY <2>4, <3>3, <4>1
      <4>3. Updated("SENDING", "SENDING") = "SENDING" /\ Updated("ERROR", "SENDING") = "ERROR"
        BY DEF Updated, After, stateMapOut, daemonStateMap, Status, MessageAction, DaemonStatus
      <4> QED
        BY <2>2, <2>3, <3>3, <4>2, <4>3
    <3> QED
      BY <3>2, <3>3
  <2> QED
    BY <2>7, <2>8, TrackedAfter
<1>6. CASE DeliverUnknown(signal.to, m)
  <2>1. m \notin pending[r] /\ message' = message /\ pending' = pending
    BY <1>6 DEF DeliverUnknown
  <2>2. ASSUME NEW o \in Message PROVE Tracked(o)'
    <3>1. CASE o # m
      BY <1>4, <2>1, <3>1
    <3>2. CASE o = m /\ ~Sending(o)
      BY <2>1, <3>2 DEF Tracked, Sending
    <3>3. CASE o = m /\ Sending(o)
      <4>1. /\ daemon[o] # NoMessage
            /\ o \in pending[message[o].recording]
            /\ message[o].recording \in {daemon[o].to, main[daemon[o].to]}
        BY <1>0, <3>3 DEF Tracked
      <4>2. 1 \in 1..Len(signals) /\ signal = signals[1]
        BY <1>1, HeadIs
      <4>3. signal.to = daemon[o].to
        BY <3>3, <4>1, <4>2 DEF Basic, SignalsAreTrue
      <4>4. message[o].recording # main[daemon[o].to]
        BY <2>1, <3>3, <4>1, <4>3
      <4>5. Orphaned(o)'
        BY <1>1, <2>1, <4>4 DEF Orphaned
      <4> QED
        BY <1>1, <2>1, <4>1, <4>5 DEF Tracked
    <3> QED
      BY <3>1, <3>2, <3>3
  <2>3. PendingStatus'
    BY <1>0, <2>1 DEF PendingStatus
  <2> QED
    BY <2>2, <2>3, TrackedAfter
<1>7. CASE DeliverDangling(signal.to, m, signal.status)
  <2>1. /\ message[m] = NoMessage /\ message' = message
        /\ pending' = StillPending(r, m, signal.status)
    BY <1>7 DEF DeliverDangling
  <2> HIDE DEF m, r, signal
  <2>2. /\ pending' \in [ContactMethod -> SUBSET Message]
        /\ \A q \in ContactMethod : pending'[q] \subseteq pending[q]
        /\ \A q \in ContactMethod : \A o \in pending[q] \ {m} : o \in pending'[q]
    BY <1>0, <1>2, <2>1, StillPendingIs
  <2>3. ASSUME NEW o \in Message PROVE Tracked(o)'
    <3>1. CASE o = m
      BY <2>1, <3>1, TrackedUnlessSending
    <3>2. CASE o # m
      BY <1>4, <2>1, <2>2, <3>2
    <3> QED
      BY <3>1, <3>2
  <2>4. PendingStatus'
    BY <1>0, <2>1, <2>2 DEF PendingStatus
  <2> QED
    BY <2>3, <2>4, TrackedAfter
<1> QED
  BY <1>5, <1>6, <1>7 DEF Deliver

\* Neither of the actions of the user leaves a message sending, and what was pending
\* becomes an error.
LEMMA MarkedIs ==
  ASSUME TypeOK, IncomingOK, NEW o \in Message, message[o] # NoMessage,
         NEW action \in {"READ", "UNREAD"}
  PROVE  /\ After(message[o].direction, message[o].status, action) # "SENDING"
         /\ message[o].direction = "OUT" /\ message[o].status \in {"SENDING", "ERROR"} =>
              After(message[o].direction, message[o].status, action) \in {"SENDING", "ERROR"}
<1>1. message[o].direction \in Direction /\ message[o].status \in Status
  BY Types DEF MessageRecord
<1>2. CASE message[o].direction = "IN"
  <2>1. message[o].status \in {"READ", "UNREAD"}
    BY <1>2 DEF IncomingOK
  <2>2. After(message[o].direction, message[o].status, action) = action
    BY <1>2, <2>1, IncomingStays DEF After
  <2> QED
    BY <1>2, <2>2
<1>3. CASE message[o].direction = "OUT"
  <2>1. stateMapOut[message[o].status][action] # "SENDING"
    BY <1>1, UserDecidesNothing
  <2>2. \A a \in {"READ", "UNREAD"} : \A s \in {"SENDING", "ERROR"} : stateMapOut[s][a] = "ERROR"
    BY DEF stateMapOut, Status, MessageAction
  <2>3. After(message[o].direction, message[o].status, action) =
          stateMapOut[message[o].status][action]
    BY <1>3 DEF After
  <2> QED
    BY <2>1, <2>2, <2>3
<1> QED
  BY <1>1, <1>2, <1>3 DEF Direction

\* Mark and SetAllRead: what they touch is sending no more.
LEMMA UserTracked ==
  ASSUME Basic, Tracking,
         UNCHANGED <<pending, main, daemon, signals>>,
         \A o \in Message :
           \/ message'[o] = message[o]
           \/ /\ message[o] # NoMessage
              /\ \E action \in {"READ", "UNREAD"} :
                   message'[o].status = After(message[o].direction, message[o].status, action)
  PROVE  Tracking'
<1>0. TypeOK /\ PendingIsOut /\ IncomingOK /\ PendingStatus /\ \A o \in Message : Tracked(o)
  BY TrackedIs DEF Basic, Tracking, TypeOK, IncomingOK
<1>1. ASSUME NEW o \in Message PROVE Tracked(o)'
  <2>1. CASE message'[o] = message[o]
    <3>1. VerdictQueued(o)' <=> VerdictQueued(o)
      BY DEF VerdictQueued
    <3>2. Sending(o) => o \in pending[message[o].recording]
      BY <1>0 DEF Tracked
    <3> QED
      BY <1>0, <2>1, <3>1, <3>2, TrackedKept
  <2>2. CASE message'[o] # message[o]
    <3>1. message'[o].status # "SENDING"
      BY <1>0, <2>2, MarkedIs
    <3> QED
      BY <3>1, TrackedUnlessSending
  <2> QED
    BY <2>1, <2>2
<1>2. PendingStatus'
  <2> SUFFICES ASSUME NEW r \in ContactMethod, NEW o \in pending[r], message'[o] # NoMessage
               PROVE  message'[o].status \in {"SENDING", "ERROR"}
    BY DEF PendingStatus
  <2>1. o \in Message
    BY <1>0, Types
  <2>2. CASE message'[o] = message[o]
    BY <1>0, <2>2 DEF PendingStatus
  <2>3. CASE message'[o] # message[o]
    <3>1. message[o] # NoMessage
      BY <2>1, <2>3
    <3>2. message[o].direction = "OUT" /\ message[o].status \in {"SENDING", "ERROR"}
      BY <1>0, <3>1 DEF PendingIsOut, PendingStatus
    <3> QED
      BY <1>0, <2>1, <2>3, <3>1, <3>2, MarkedIs
  <2> QED
    BY <2>2, <2>3
<1> QED
  BY <1>1, <1>2, TrackedAfter

\* A merge takes a contact method away from its messages, and brings none back.
LEMMA MergeTracked ==
  ASSUME Basic, Tracking, NEW c \in ContactMethod, NEW other \in ContactMethod, Merge(c, other)
  PROVE  Tracking'
<1>0. TypeOK /\ PendingStatus /\ \A o \in Message : Tracked(o)
  BY TrackedIs DEF Basic, Tracking
<1>1. /\ main[c] = c /\ main[other] # c
      /\ main' = [main EXCEPT ![c] = main[other]]
      /\ UNCHANGED <<message, pending, daemon, signals>>
  BY DEF Merge
<1>2. main \in [ContactMethod -> ContactMethod]
  BY <1>0, Types
<1>3. ASSUME NEW o \in Message, Sending(o) PROVE Tracked(o)'
  <2>1. /\ daemon[o] # NoMessage
        /\ o \in pending[message[o].recording]
        /\ Settled(o) /\ ~Orphaned(o) => VerdictQueued(o)
        /\ message[o].recording \in {daemon[o].to, main[daemon[o].to]}
    BY <1>0, <1>3 DEF Tracked
  <2>2. daemon[o].to \in ContactMethod
    BY <1>0, <2>1, Types DEF DaemonRecord
  <2>3. (VerdictQueued(o)' <=> VerdictQueued(o)) /\ (Settled(o)' <=> Settled(o))
    BY <1>1 DEF VerdictQueued, Settled
  <2>4. CASE daemon[o].to = c
    <3>1. message[o].recording = c /\ main'[daemon[o].to] = main[other]
      BY <1>1, <1>2, <2>1, <2>2, <2>4
    <3>2. Orphaned(o)'
      BY <1>1, <3>1 DEF Orphaned
    <3> QED
      BY <1>1, <2>1, <2>4, <3>1, <3>2 DEF Tracked
  <2>5. CASE daemon[o].to # c
    <3>1. main'[daemon[o].to] = main[daemon[o].to]
      BY <1>1, <1>2, <2>2, <2>5
    <3>2. Orphaned(o)' <=> Orphaned(o)
      BY <1>1, <3>1 DEF Orphaned
    <3> QED
      BY <1>1, <2>1, <2>3, <3>1, <3>2 DEF Tracked
  <2> QED
    BY <2>4, <2>5
<1>4. ASSUME NEW o \in Message, ~Sending(o) PROVE Tracked(o)'
  BY <1>1, <1>4 DEF Tracked, Sending
<1>5. PendingStatus'
  BY <1>0, <1>1 DEF PendingStatus
<1> QED
  BY <1>3, <1>4, <1>5, TrackedAfter

LEMMA TrackingInit == Init => Tracking
<1> SUFFICES ASSUME Init PROVE Tracking
  OBVIOUS
<1>1. \A o \in Message : ~Sending(o)
  BY DEF Init, Sending
<1>2. PendingStatus
  BY DEF Init, PendingStatus
<1> QED
  BY <1>1, <1>2 DEF Tracking, SendingIsTracked, SentWhere

LEMMA TrackingStep == Basic /\ Tracking /\ [Next]_vars => Tracking'
<1> SUFFICES ASSUME Basic, Tracking, [Next]_vars PROVE Tracking'
  OBVIOUS
<1>0. TypeOK
  BY DEF Basic
<1>1. ASSUME NEW c \in ContactMethod, NEW m \in Message,
             Send(c, m) \/ SendUntracked(c, m) \/ Receive(c, m)
      PROVE  Tracking'
  BY <1>1, SendTracked
<1>2. ASSUME NEW m \in Message, NEW s \in DaemonStatus, DaemonReports(m, s)
      PROVE  Tracking'
  BY <1>2, DaemonReportsTracked
<1>3. CASE Deliver
  BY <1>3, DeliverTracked
<1>4. ASSUME NEW m \in Message, NEW action \in {"READ", "UNREAD"}, Mark(m, action)
      PROVE  Tracking'
  <2>1. UNCHANGED <<pending, main, daemon, signals>>
    BY <1>4 DEF Mark
  <2>2. /\ message[m] # NoMessage
        /\ message'[m].status = After(message[m].direction, message[m].status, action)
        /\ \A o \in Message \ {m} : message'[o] = message[o]
    BY <1>0, <1>4, MarkIs
  <2> QED
    BY <2>1, <2>2, UserTracked
<1>5. ASSUME NEW r \in ContactMethod, SetAllRead(r)
      PROVE  Tracking'
  <2>1. UNCHANGED <<pending, main, daemon, signals>>
    BY <1>5 DEF SetAllRead
  <2>2. \A o \in Message :
          \/ message'[o] = message[o]
          \/ /\ message[o] # NoMessage
             /\ message'[o].status = After(message[o].direction, message[o].status, "READ")
    BY <1>0, <1>5, SetAllReadIs
  <2> QED
    BY <2>1, <2>2, UserTracked
<1>6. ASSUME NEW c \in ContactMethod, NEW other \in ContactMethod, Merge(c, other)
      PROVE  Tracking'
  BY <1>6, MergeTracked
<1>7. CASE Clear
  <2>1. \A o \in Message : message'[o] = NoMessage
    BY <1>7 DEF Clear
  <2>2. \A o \in Message : Tracked(o)'
    BY <2>1, TrackedUnlessSending
  <2>3. pending' = pending /\ \A r \in ContactMethod : \A o \in pending[r] : o \in Message
    BY <1>0, <1>7, Types DEF Clear
  <2>4. PendingStatus'
    BY <2>1, <2>3 DEF PendingStatus
  <2> QED
    BY <2>2, <2>4, TrackedAfter
<1>8. CASE Restart
  <2>1. ASSUME NEW o \in Message
        PROVE  message'[o] = NoMessage \/ message'[o].status # "SENDING"
    <3>1. message'[o] = NoMessage \/ message'[o].status = Existing(saved[o])
      BY <1>0, <1>8, RestartIs
    <3>2. Existing(saved[o]) # "SENDING"
      BY DEF Existing
    <3> QED
      BY <3>1, <3>2
  <2>2. \A o \in Message : Tracked(o)'
    BY <2>1, TrackedUnlessSending
  <2>3. PendingStatus'
    BY <1>8 DEF Restart, PendingStatus
  <2> QED
    BY <2>2, <2>3, TrackedAfter
<1>9. CASE UNCHANGED vars
  BY <1>9 DEF vars, Tracking, SendingIsTracked, SentWhere, PendingStatus, Sending, Settled,
              Orphaned, VerdictQueued
<1> QED
  BY <1>1, <1>2, <1>3, <1>4, <1>5, <1>6, <1>7, <1>8, <1>9 DEF Next

\* A message that is shown as being sent is waited for, and its answer is not lost.
THEOREM NotForgotten == Spec => []SendingIsTracked
<1>1. Tracking => SendingIsTracked
  BY DEF Tracking
<1> QED
  BY BasicInvariant, TrackingInit, TrackingStep, <1>1, PTL DEF Spec
----------------------------------------------------------------------------
(* The counters agree with the messages.                                   *)

\* What is pending and is no message any more was cleared.
PendingCleared ==
  \A r \in ContactMethod : \A m \in pending[r] : message[m] = NoMessage => m \in cleared

\* CountersAgree, one counter at a time.
EachAgrees ==
  \A r \in ContactMethod, s \in Status : counter[r][s] = Cardinality(InStatus(message, r, s))

LEMMA EachIs ==
  ASSUME TypeOK
  PROVE  CountersAgree <=> (cleared = {} => EachAgrees)
<1>1. counter \in [ContactMethod -> [Status -> Int]]
  BY Types
<1>2. counter = Recount(message) <=> EachAgrees
  BY <1>1, CountPointwise DEF EachAgrees
<1> QED
  BY <1>2 DEF CountersAgree

LEMMA InsertCounted ==
  ASSUME TypeOK, EachAgrees, NEW c \in ContactMethod, NEW m \in Message,
         NEW direction \in Direction, NEW status \in Status, NEW id \in BOOLEAN,
         Insert(c, m, direction, status, id), message[m] = NoMessage
  PROVE  EachAgrees'
<1>1. /\ main[c] \in ContactMethod
      /\ message' = [message EXCEPT ![m] = message'[m]]
      /\ message'[m] \in MessageRecord
      /\ message'[m].recording = main[c] /\ message'[m].status = status
  BY InsertIs
<1>2. message \in [Message -> MessageRecord \cup {NoMessage}]
      /\ counter \in [ContactMethod -> [Status -> Int]]
  BY Types
<1>3. counter' = [counter EXCEPT ![main[c]][status] = @ + 1]
  BY DEF Insert
<1> SUFFICES ASSUME NEW r \in ContactMethod, NEW s \in Status
             PROVE  counter'[r][s] = Cardinality(InStatus(message', r, s))
  BY DEF EachAgrees
<1>4. Cardinality(InStatus(message', r, s)) =
        IF r = main[c] /\ s = status
          THEN Cardinality(InStatus(message, r, s)) + 1
          ELSE Cardinality(InStatus(message, r, s))
  <2> DEFINE new == [message EXCEPT ![m] = message'[m]]
  <2>1. \A q \in ContactMethod, t \in Status :
          Cardinality(InStatus(new, q, t)) =
            IF q = message'[m].recording /\ t = message'[m].status
              THEN Cardinality(InStatus(message, q, t)) + 1
              ELSE Cardinality(InStatus(message, q, t))
    BY <1>1, <1>2, CountAdded, ZenonT(30)
  <2>2. new = message'
    BY <1>1
  <2> HIDE DEF new
  <2> QED
    BY <1>1, <2>1, <2>2
<1>5. counter'[r][s] = IF r = main[c] /\ s = status THEN counter[r][s] + 1 ELSE counter[r][s]
  BY <1>1, <1>2, <1>3
<1> QED
  BY <1>4, <1>5 DEF EachAgrees

\* A message goes from a status to another, and is counted so.
LEMMA MovedCounted ==
  ASSUME TypeOK, EachAgrees, NEW m \in Message, message[m] # NoMessage, NEW to \in Status,
         message' = [message EXCEPT ![m].status = to],
         counter' = Moved(message[m].recording, message[m].status, to)
  PROVE  EachAgrees'
<1>1. /\ message \in [Message -> MessageRecord \cup {NoMessage}]
      /\ counter \in [ContactMethod -> [Status -> Int]]
      /\ message[m].recording \in ContactMethod
  BY Types DEF MessageRecord
<1> SUFFICES ASSUME NEW r \in ContactMethod, NEW s \in Status
             PROVE  counter'[r][s] = Cardinality(InStatus(message', r, s))
  BY DEF EachAgrees
<1>2. Cardinality(InStatus(message', r, s)) =
        IF r = message[m].recording
          THEN Cardinality(InStatus(message, r, s))
                 + (IF s = to THEN 1 ELSE 0)
                 - (IF s = message[m].status THEN 1 ELSE 0)
          ELSE Cardinality(InStatus(message, r, s))
  BY <1>1, CountMoved, ZenonT(40)
<1>3. counter'[r][s] =
        IF r = message[m].recording
          THEN counter[r][s] + (IF s = to THEN 1 ELSE 0) - (IF s = message[m].status THEN 1 ELSE 0)
          ELSE counter[r][s]
  BY <1>1 DEF Moved
<1>4. counter[r][s] = Cardinality(InStatus(message, r, s))
  BY DEF EachAgrees
<1> QED
  BY <1>2, <1>3, <1>4

LEMMA SetAllReadCounted ==
  ASSUME TypeOK, EachAgrees, NEW r \in ContactMethod, SetAllRead(r)
  PROVE  EachAgrees'
<1> DEFINE Left(s) == {m \in InStatus(message, r, s) : message'[m].status # s}
           Entered(s) == {m \in InStatus(message', r, s) : message[m].status # s}
<1>1. counter' = [counter EXCEPT ![r] =
                    [s \in Status |-> @[s] + Cardinality(Entered(s)) - Cardinality(Left(s))]]
  BY DEF SetAllRead
<1>2. counter \in [ContactMethod -> [Status -> Int]]
  BY Types
<1>3. \A m \in Message :
        \/ message'[m] = message[m]
        \/ /\ message[m] # NoMessage /\ message'[m] # NoMessage
           /\ message[m].recording = r /\ message'[m].recording = r
  BY SetAllReadIs
<1> SUFFICES ASSUME NEW q \in ContactMethod, NEW s \in Status
             PROVE  counter'[q][s] = Cardinality(InStatus(message', q, s))
  BY DEF EachAgrees
<1>4. counter[q][s] = Cardinality(InStatus(message, q, s))
  BY DEF EachAgrees
<1>5. CASE q # r
  <2>1. InStatus(message', q, s) = InStatus(message, q, s)
    BY <1>3, <1>5 DEF InStatus
  <2>2. counter'[q] = counter[q]
    BY <1>1, <1>2, <1>5
  <2> QED
    BY <1>4, <2>1, <2>2
<1>6. CASE q = r
  <2>1. Left(s) = InStatus(message, r, s) \ InStatus(message', r, s)
    BY <1>3 DEF InStatus
  <2>2. Entered(s) = InStatus(message', r, s) \ InStatus(message, r, s)
    BY <1>3 DEF InStatus
  <2>3. InStatus(message, r, s) \in SUBSET Message /\ InStatus(message', r, s) \in SUBSET Message
    BY DEF InStatus
  <2>4. Cardinality(InStatus(message', r, s)) =
          Cardinality(InStatus(message, r, s)) + Cardinality(Entered(s)) - Cardinality(Left(s))
    BY <2>1, <2>2, <2>3, CountDifference
  <2> HIDE DEF Left, Entered
  <2>5. counter'[r][s] = counter[r][s] + Cardinality(Entered(s)) - Cardinality(Left(s))
    BY <1>1, <1>2
  <2> QED
    BY <1>4, <1>6, <2>4, <2>5
<1> QED
  BY <1>5, <1>6

LEMMA PendingClearedStep ==
  ASSUME Basic, PendingCleared, [Next]_vars
  PROVE  PendingCleared'
<1>0. TypeOK
  BY DEF Basic
<1>t. pending \in [ContactMethod -> SUBSET Message]
  BY <1>0, Types
\* No message becomes pending, and none ceases to be one.
<1>k. ASSUME \A r \in ContactMethod : pending'[r] \subseteq pending[r],
             \A o \in Message : message'[o] = NoMessage => message[o] = NoMessage,
             cleared' = cleared
      PROVE  PendingCleared'
  BY <1>k, <1>t DEF PendingCleared
<1>1. ASSUME NEW c \in ContactMethod, NEW m \in Message,
             Send(c, m) \/ SendUntracked(c, m) \/ Receive(c, m)
      PROVE  PendingCleared'
  <2>1. PICK direction \in Direction, status \in {"SENDING", "UNKNOWN", "UNREAD"}, id \in BOOLEAN :
          Insert(c, m, direction, status, id)
    BY <1>1, SendIs DEF Direction
  <2>2. status \in Status
    BY DEF Status
  <2>3. message'[m] # NoMessage /\ \A o \in Message \ {m} : message'[o] = message[o]
    BY <1>0, <2>1, <2>2, InsertIs
  <2>4. \A r \in ContactMethod : pending'[r] \subseteq pending[r] \cup {m}
    BY <1>t, <2>1 DEF Insert
  <2>5. cleared' = cleared
    BY <1>1, SendIs
  <2> QED
    BY <1>t, <2>3, <2>4, <2>5 DEF PendingCleared
<1>2. ASSUME NEW m \in Message, NEW s \in DaemonStatus, DaemonReports(m, s)
      PROVE  PendingCleared'
  BY <1>2 DEF DaemonReports, PendingCleared
<1>3. CASE Deliver
  <2> DEFINE signal == Head(signals)
  <2>1. cleared' = cleared /\ signals # <<>>
    BY <1>3 DEF Deliver
  <2>2. signal.id \in Message /\ main[signal.to] \in ContactMethod
    BY <2>1, HeadIs
  <2>3. CASE DeliverStatus(signal.to, signal.id, signal.status)
    <3>1. \A o \in Message : message'[o] = NoMessage => message[o] = NoMessage
      <4>1. /\ message[signal.id] # NoMessage
            /\ Updated(message[signal.id].status, signal.status) \in Status
            /\ message' = [message EXCEPT ![signal.id].status =
                             Updated(message[signal.id].status, signal.status)]
        BY <2>1, <2>3, DeliveredIs
      <4> HIDE DEF signal
      <4>2. /\ message'[signal.id] # NoMessage
            /\ \A o \in Message \ {signal.id} : message'[o] = message[o]
        BY <1>0, <2>2, <4>1, RestatusIs
      <4> QED
        BY <4>2
    <3>2. pending' = StillPending(main[signal.to], signal.id, signal.status)
      BY <2>3 DEF DeliverStatus
    <3> HIDE DEF signal
    <3>3. \A r \in ContactMethod : pending'[r] \subseteq pending[r]
      BY <1>0, <2>2, <3>2, StillPendingIs
    <3> QED
      BY <1>k, <2>1, <3>1, <3>3
  <2>4. CASE DeliverUnknown(signal.to, signal.id)
    BY <2>1, <2>4 DEF DeliverUnknown, PendingCleared
  <2>5. CASE DeliverDangling(signal.to, signal.id, signal.status)
    <3>1. message' = message /\ pending' = StillPending(main[signal.to], signal.id, signal.status)
      BY <2>5 DEF DeliverDangling
    <3> HIDE DEF signal
    <3>2. \A r \in ContactMethod : pending'[r] \subseteq pending[r]
      BY <1>0, <2>2, <3>1, StillPendingIs
    <3> QED
      BY <1>k, <2>1, <3>1, <3>2
  <2> QED
    BY <1>3, <2>3, <2>4, <2>5 DEF Deliver
<1>4. ASSUME NEW m \in Message, NEW action \in {"READ", "UNREAD"}, Mark(m, action)
      PROVE  PendingCleared'
  <2>1. message'[m] # NoMessage /\ \A o \in Message \ {m} : message'[o] = message[o]
    BY <1>0, <1>4, MarkIs
  <2>2. pending' = pending /\ cleared' = cleared
    BY <1>4 DEF Mark
  <2> QED
    BY <1>k, <2>1, <2>2
<1>5. ASSUME NEW r \in ContactMethod, SetAllRead(r)
      PROVE  PendingCleared'
  <2>1. \A o \in Message : message'[o] = NoMessage => message[o] = NoMessage
    BY <1>0, <1>5, SetAllReadIs
  <2>2. pending' = pending /\ cleared' = cleared
    BY <1>5 DEF SetAllRead
  <2> QED
    BY <1>k, <2>1, <2>2
<1>6. ASSUME NEW c \in ContactMethod, NEW other \in ContactMethod, Merge(c, other)
      PROVE  PendingCleared'
  BY <1>6 DEF Merge, PendingCleared
<1>7. CASE Clear
  <2>1. /\ pending' = pending
        /\ cleared' = cleared \cup {m \in Message : message[m] # NoMessage}
    BY <1>7 DEF Clear
  <2> QED
    BY <1>t, <2>1 DEF PendingCleared
<1>8. CASE Restart
  BY <1>8 DEF Restart, PendingCleared
<1>9. CASE UNCHANGED vars
  BY <1>9 DEF vars, PendingCleared
<1> QED
  BY <1>1, <1>2, <1>3, <1>4, <1>5, <1>6, <1>7, <1>8, <1>9 DEF Next

LEMMA CountedStep ==
  ASSUME Basic, PendingCleared, CountersAgree, [Next]_vars
  PROVE  CountersAgree'
<1>0. TypeOK /\ TypeOK'
  BY BasicStep DEF Basic
<1> SUFFICES ASSUME cleared' = {} PROVE EachAgrees'
  <2>1. (CountersAgree <=> (cleared = {} => EachAgrees))'
    BY <1>0, EachIs, PTL
  <2> QED
    BY <2>1
<1>a. cleared = {} => EachAgrees
  BY <1>0, EachIs
<1>1. ASSUME NEW c \in ContactMethod, NEW m \in Message,
             Send(c, m) \/ SendUntracked(c, m) \/ Receive(c, m)
      PROVE  EachAgrees'
  <2>1. PICK direction \in Direction, status \in {"SENDING", "UNKNOWN", "UNREAD"}, id \in BOOLEAN :
          Insert(c, m, direction, status, id)
    BY <1>1, SendIs DEF Direction
  <2>2. status \in Status /\ message[m] = NoMessage /\ cleared' = cleared
    BY <1>1, SendIs DEF Status
  <2> QED
    BY <1>0, <1>a, <2>1, <2>2, InsertCounted
<1>2. CASE UNCHANGED <<message, counter, cleared>>
  BY <1>2, <1>a DEF EachAgrees
<1>3. CASE Deliver
  <2> DEFINE signal == Head(signals)
  <2>1. cleared' = cleared /\ signals # <<>>
    BY <1>3 DEF Deliver
  <2>2. EachAgrees
    BY <1>a, <2>1
  <2>3. CASE DeliverStatus(signal.to, signal.id, signal.status)
    <3>1. /\ signal.id \in Message
          /\ message[signal.id] # NoMessage
          /\ message[signal.id].recording = main[signal.to]
          /\ Updated(message[signal.id].status, signal.status) \in Status
          /\ message' = [message EXCEPT ![signal.id].status =
                           Updated(message[signal.id].status, signal.status)]
          /\ counter' = Moved(message[signal.id].recording, message[signal.id].status,
                              Updated(message[signal.id].status, signal.status))
      BY <2>1, <2>3, DeliveredIs
    <3> HIDE DEF signal
    <3> QED
      BY <1>0, <2>2, <3>1, MovedCounted
  <2>4. CASE DeliverUnknown(signal.to, signal.id)
    BY <1>2, <2>1, <2>4 DEF DeliverUnknown
  <2>5. CASE DeliverDangling(signal.to, signal.id, signal.status)
    <3>1. signal.id \in pending[main[signal.to]] /\ message[signal.id] = NoMessage
      BY <2>5 DEF DeliverDangling
    <3>2. main[signal.to] \in ContactMethod
      BY <2>1, HeadIs
    <3>3. signal.id \in cleared
      BY <3>1, <3>2 DEF PendingCleared
    <3> QED
      BY <2>1, <3>3
  <2> QED
    BY <1>3, <2>3, <2>4, <2>5 DEF Deliver
<1>4. ASSUME NEW m \in Message, NEW action \in {"READ", "UNREAD"}, Mark(m, action)
      PROVE  EachAgrees'
  <2>1. /\ message[m] # NoMessage
        /\ After(message[m].direction, message[m].status, action) \in Status
        /\ message' = [message EXCEPT ![m].status =
                         After(message[m].direction, message[m].status, action)]
    BY <1>0, <1>4, MarkIs
  <2>2. /\ counter' = Moved(message[m].recording, message[m].status,
                            After(message[m].direction, message[m].status, action))
        /\ cleared' = cleared
    BY <1>4 DEF Mark
  <2> QED
    BY <1>0, <1>a, <2>1, <2>2, MovedCounted
<1>5. ASSUME NEW r \in ContactMethod, SetAllRead(r)
      PROVE  EachAgrees'
  <2>1. cleared' = cleared
    BY <1>5 DEF SetAllRead
  <2> QED
    BY <1>0, <1>5, <1>a, <2>1, SetAllReadCounted
<1>6. CASE Clear
  <2>1. /\ message # [m \in Message |-> NoMessage]
        /\ cleared' = cleared \cup {m \in Message : message[m] # NoMessage}
    BY <1>6 DEF Clear
  <2>2. message \in [Message -> MessageRecord \cup {NoMessage}]
    BY <1>0, Types
  <2>3. PICK m \in Message : message[m] # NoMessage
    BY <2>1, <2>2
  <2> QED
    BY <2>1, <2>3
<1>7. CASE Restart
  <2>1. counter' = Recount(message')
    BY <1>7 DEF Restart
  <2> QED
    BY <2>1 DEF Recount, EachAgrees
<1> QED
  BY <1>1, <1>2, <1>3, <1>4, <1>5, <1>6, <1>7 DEF Next, vars, DaemonReports, Merge

\* The counters are what they say they count, until the messages are cleared.
THEOREM Counted == Spec => []CountersAgree
<1>1. Init => PendingCleared
  BY DEF Init, PendingCleared
<1>2. Init => CountersAgree
  <2> SUFFICES ASSUME Init PROVE CountersAgree
    OBVIOUS
  <2>1. TypeOK
    BY BasicInit DEF Basic
  <2>2. EachAgrees
    <3>1. \A r \in ContactMethod, s \in Status : InStatus(message, r, s) = {}
      BY DEF Init, InStatus
    <3> QED
      BY <3>1, FS_EmptySet DEF Init, EachAgrees
  <2> QED
    BY <2>1, <2>2, EachIs
<1>3. Basic /\ PendingCleared /\ [Next]_vars => PendingCleared'
  BY PendingClearedStep
<1>4. Basic /\ PendingCleared /\ CountersAgree /\ [Next]_vars => CountersAgree'
  BY CountedStep
<1> QED
  BY BasicInvariant, <1>1, <1>2, <1>3, <1>4, PTL DEF Spec
=============================================================================
