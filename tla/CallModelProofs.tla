--------------------------- MODULE CallModelProofs ---------------------------
(***************************************************************************)
(* Theorems on CallModel, for any number of calls, conferences and signals.*)
(***************************************************************************)
EXTENDS CallModelProperties, SequenceFolds, SequenceTheorems

-----------------------------------------------------------------------------
(* The objects, and what is always true of them.                           *)

Ids == CallId \cup ConfId

\* No call is ever in NEW.
Reached == State \ {"NEW"}

Size(m) == Len(m.call)

\* The objects that a record refers to are among the first n.
Record(n) ==
  [type : {"CALL", "CONFERENCE"}, id : Ids \cup {""}, state : Reached,
   missed : BOOLEAN, parent : 0..n, children : Seq(1..n)]

\* The list is two levels deep.
Sane(c, n) ==
  /\ c \in Record(n)
  /\ c.type = "CONFERENCE" <=> c.id \in ConfId
  /\ c.type = "CONFERENCE" => c.parent = 0
  /\ c.type # "CONFERENCE" => c.children = <<>>
  /\ c.state = "DIALING" => c.id = ""

Models ==
  [call : Seq(UNION {Record(n) : n \in Nat}), rows : Seq(Nat), known : [Ids -> Nat],
   checks : Seq(Nat), removals : Seq(Nat), answer : AutoAnswers,
   started : BOOLEAN, crashed : BOOLEAN]

Typed ==
  {m \in Models :
     /\ \A o \in 1..Size(m) : Sane(m.call[o], Size(m))
     /\ m.rows \in Seq(1..Size(m))
     /\ m.checks \in Seq(1..Size(m)) /\ m.removals \in Seq(1..Size(m))
     /\ \A i \in Ids : m.known[i] \in 0..Size(m)
                       /\ (m.known[i] # 0 => m.call[m.known[i]].id = i)}

\* What no handler of a call changes: which objects there are and who they are.
\* None becomes one that is being dialed.
Kept(m, n) ==
  /\ Size(n) = Size(m)
  /\ \A o \in 1..Size(m) :
       /\ n.call[o].type = m.call[o].type
       /\ n.call[o].id = m.call[o].id
       /\ n.call[o].state = "DIALING" => m.call[o].state = "DIALING"
  /\ n.known = m.known /\ n.answer = m.answer
  /\ n.started = m.started /\ n.crashed = m.crashed

From(m) == {n \in Typed : Kept(m, n)}

LEMMA KeptTransitive ==
  ASSUME NEW m \in Typed, NEW n \in From(m), NEW p \in From(n)
  PROVE  p \in From(m)
BY DEF From, Kept

LEMMA KeptReflexive ==
  ASSUME NEW m \in Typed
  PROVE  m \in From(m)
BY DEF From, Kept

LEMMA TypedFacts ==
  ASSUME NEW m \in Typed
  PROVE  /\ m \in Models /\ Size(m) \in Nat /\ Size(m) = Len(m.call)
         /\ DOMAIN m.call = 1..Size(m) /\ m.call \in Seq(Record(Size(m)))
         /\ \A o \in 1..Size(m) : Sane(m.call[o], Size(m)) /\ m.call[o] \in Record(Size(m))
         /\ m.rows \in Seq(1..Size(m))
         /\ m.checks \in Seq(1..Size(m)) /\ m.removals \in Seq(1..Size(m))
         /\ \A i \in Ids : m.known[i] \in 0..Size(m)
                           /\ (m.known[i] # 0 => m.call[m.known[i]].id = i)
         /\ 0 \notin 1..Size(m)
<1>1. m \in Models /\ Size(m) \in Nat /\ DOMAIN m.call = 1..Size(m)
  BY DEF Typed, Models, Size
<1>2. \A o \in 1..Size(m) : m.call[o] \in Record(Size(m))
  BY DEF Typed, Sane
<1>3. m.call \in Seq(Record(Size(m)))
  <2>1. m.call \in Seq(UNION {Record(n) : n \in Nat})
    BY <1>1 DEF Models
  <2> QED
    BY <1>1, <1>2, <2>1 DEF Size
<1> QED
  BY <1>1, <1>2, <1>3 DEF Typed, Size

-----------------------------------------------------------------------------
(* One object is changed.                                                  *)

Put(m, o, r) == [m EXCEPT !.call[o] = r]

LEMMA PutFields ==
  ASSUME NEW m \in Typed, NEW o \in 1..Size(m), NEW r, Sane(r, Size(m)),
         r.id = m.call[o].id, r.type = m.call[o].type,
         r.state = "DIALING" => m.call[o].state = "DIALING"
  PROVE  /\ Put(m, o, r) \in From(m)
         /\ Put(m, o, r).call[o] = r
         /\ \A p \in 1..Size(m) : p # o => Put(m, o, r).call[p] = m.call[p]
         /\ Put(m, o, r).rows = m.rows
         /\ Put(m, o, r).checks = m.checks
         /\ Put(m, o, r).removals = m.removals
<1> DEFINE f == [m.call EXCEPT ![o] = r]
           n == [m EXCEPT !.call = f]
<1>1. m \in Models /\ Size(m) \in Nat /\ DOMAIN m.call = 1..Size(m)
      /\ m.call \in Seq(Record(Size(m))) /\ r \in Record(Size(m))
  BY TypedFacts DEF Sane
<1>2. /\ f \in Seq(Record(Size(m))) /\ Len(f) = Size(m) /\ f[o] = r
      /\ \A p \in 1..Size(m) : p # o => f[p] = m.call[p]
  BY <1>1 DEF Size
<1> HIDE DEF f
<1>3. f \in Seq(UNION {Record(k) : k \in Nat})
  BY <1>1, <1>2
<1>4. /\ n \in Models /\ n.call = f /\ Size(n) = Size(m)
      /\ n.rows = m.rows /\ n.checks = m.checks /\ n.removals = m.removals
      /\ n.known = m.known /\ n.answer = m.answer
      /\ n.started = m.started /\ n.crashed = m.crashed
  BY <1>1, <1>2, <1>3 DEF Models, Size
<1>5. Put(m, o, r) = n
  BY DEF Put, f
<1> HIDE DEF n
<1>6. n \in Typed
  <2>1. \A p \in 1..Size(m) : Sane(f[p], Size(m)) /\ f[p].id = m.call[p].id
    BY <1>2, TypedFacts
  <2>2. \A i \in Ids : n.known[i] \in 0..Size(m)
                       /\ (n.known[i] # 0 => n.call[n.known[i]].id = i)
    <3> SUFFICES ASSUME NEW i \in Ids, n.known[i] # 0
                 PROVE  n.call[n.known[i]].id = i
      BY <1>4, TypedFacts
    <3>1. n.known[i] \in 1..Size(m) /\ m.call[m.known[i]].id = i
      BY <1>1, <1>4, TypedFacts
    <3> QED
      BY <1>4, <2>1, <3>1
  <2>3. n.rows \in Seq(1..Size(m)) /\ n.checks \in Seq(1..Size(m)) /\ n.removals \in Seq(1..Size(m))
    BY <1>4, TypedFacts
  <2> QED
    BY <1>4, <2>1, <2>2, <2>3 DEF Typed
<1>7. Kept(m, n)
  BY <1>2, <1>4 DEF Kept
<1> QED
  BY <1>2, <1>4, <1>5, <1>6, <1>7 DEF From

\* The rows, or the objects on a timer, are changed.
LEMMA ListsFields ==
  ASSUME NEW m \in Typed, NEW s \in Seq(1..Size(m))
  PROVE  /\ [m EXCEPT !.rows = s] \in From(m)
         /\ [m EXCEPT !.checks = s] \in From(m)
         /\ [m EXCEPT !.removals = s] \in From(m)
<1> DEFINE Same(n) ==
             /\ n \in Models /\ n.call = m.call /\ n.known = m.known
             /\ n.answer = m.answer /\ n.started = m.started /\ n.crashed = m.crashed
             /\ n.rows \in {m.rows, s} /\ n.checks \in {m.checks, s}
             /\ n.removals \in {m.removals, s}
<1>1. m \in Models /\ s \in Seq(Nat)
  <2>1. 1..Size(m) \subseteq Nat
    OBVIOUS
  <2> QED
    BY <2>1, TypedFacts
<1>2. Same([m EXCEPT !.rows = s]) /\ Same([m EXCEPT !.checks = s])
      /\ Same([m EXCEPT !.removals = s])
  BY <1>1 DEF Models
<1>3. ASSUME NEW n, Same(n) PROVE n \in From(m)
  <2>1. Size(n) = Size(m)
    BY <1>3 DEF Size
  <2>2. n \in Typed
    BY <1>3, <2>1, TypedFacts DEF Typed
  <2> QED
    BY <1>3, <2>1, <2>2 DEF From, Kept
<1> QED
  BY <1>2, <1>3

-----------------------------------------------------------------------------
(* Sequences.                                                              *)

\* Among() keeps the elements of both, and no other.
LEMMA AmongIsPart ==
  ASSUME NEW S, NEW s \in Seq(S), NEW T
  PROVE  /\ Among(s, T) \in Seq(S \cap T)
         /\ \A x \in ToSet(s) \cap T : x \in ToSet(Among(s, T))
<1> DEFINE op(kept, x) == IF x \in T THEN Append(kept, x) ELSE kept
           n == Len(s)
           U == Seq(S \cap T)
           G == [k \in 0..n |->
                   {t \in U : \A j \in 1..k : s[j] \in T => s[j] \in ToSet(t)}]
           F == [p \in U \X (1..n) |-> op(p[1], s[p[2]])]
           IsFold(h) == h = [D \in SUBSET DOMAIN s |->
                               IF D = {} THEN <<>>
                               ELSE op(h[D \ {Max(D)}], s[Max(D)])]
           it == CHOOSE h : IsFold(h)
<1>1. n \in Nat /\ DOMAIN s = 1..n /\ \A k \in 1..n : s[k] \in S
  OBVIOUS
<1>2. \A x \in U, k \in 1..n : F[<<x, k>>] = op(x, s[k]) /\ op(x, s[k]) \in U
  BY <1>1
<1>2a. <<>> \in U /\ <<>> \in G[0]
  OBVIOUS
<1>2b. ASSUME NEW x \in U, NEW k \in 1..n, x \in G[k - 1]
       PROVE  op(x, s[k]) \in G[k]
  <2> DEFINE y == op(x, s[k])
  <2>1. k - 1 \in 0..n /\ k \in 0..n /\ \A j \in 1..k : j \in 1..(k - 1) \/ j = k
    BY <1>1
  <2>2. \A j \in 1..(k - 1) : s[j] \in T => s[j] \in ToSet(x)
    BY <1>2b, <2>1
  <2>3. ToSet(x) \subseteq ToSet(y)
    <3>1. CASE s[k] \in T
      <4> DEFINE e == s[k]
      <4>1. x \in Seq(S \cap T) /\ y = Append(x, e)
        BY <3>1
      <4> HIDE DEF e, y, U
      <4>2. /\ Len(y) = Len(x) + 1 /\ Len(x) \in Nat /\ DOMAIN x = 1..Len(x) /\ DOMAIN y = 1..(Len(x) + 1)
            /\ \A j \in 1..Len(x) : y[j] = x[j]
        BY <4>1
      <4>3. \A j \in 1..Len(x) : j \in 1..(Len(x) + 1)
        BY <4>2
      <4> QED
        BY <4>2, <4>3 DEF ToSet
    <3>2. CASE s[k] \notin T
      BY <3>2
    <3> QED
      BY <3>1, <3>2
  <2>4. s[k] \in T => s[k] \in ToSet(y)
    <3> SUFFICES ASSUME s[k] \in T PROVE s[k] \in ToSet(y)
      OBVIOUS
    <3> DEFINE e == s[k]
    <3>1. x \in Seq(S \cap T) /\ y = Append(x, e)
      OBVIOUS
    <3> HIDE DEF e, y, U
    <3>2. Len(x) + 1 \in DOMAIN y /\ y[Len(x) + 1] = e
      BY <3>1
    <3> QED
      BY <3>2 DEF e, ToSet
  <2>5. y \in U
    BY <1>2
  <2> HIDE DEF y, U
  <2> QED
    BY <2>1, <2>2, <2>3, <2>4, <2>5 DEF y
<1>2c. G[n] = {t \in U : \A j \in 1..n : s[j] \in T => s[j] \in ToSet(t)}
  BY <1>1
<1> HIDE DEF F, U, G, op
<1>3. Stepped(n, U, G, <<>>, F)
  BY <1>1, <1>2, <1>2a, <1>2b DEF Stepped
<1>4. PICK h \in [SUBSET (1..n) -> U] : SequenceFoldsBy(h, n, U, <<>>, F)
  BY <1>3, SequenceFoldExists
<1>5. IsFold(h)
  BY <1>1, <1>2, <1>4 DEF SequenceFoldsBy
<1>6. Among(s, T) = it[1..n]
  BY <1>1, <1>2a DEF Among, FoldLeft, MapThenFoldSet, IsFold, op
<1>7. SequenceFoldsBy(it, n, U, <<>>, F)
  <2> HIDE DEF IsFold
  <2>1. IsFold(it)
    BY <1>5
  <2>2. \A D \in SUBSET (1..n) : D # {} => Max(D) \in D
    BY <1>4 DEF SequenceFoldsBy
  <2>3. /\ it[{}] = <<>>
        /\ \A D \in SUBSET (1..n) : D # {} => it[D] = op(it[D \ {Max(D)}], s[Max(D)])
    BY <1>1, <2>1 DEF IsFold
  <2> QED
    BY <1>2, <2>2, <2>3 DEF SequenceFoldsBy
<1> HIDE DEF IsFold, it
<1>8. Among(s, T) \in U /\ Among(s, T) \in G[n]
  BY <1>3, <1>6, <1>7, SequenceFoldReaches
<1>9. \A j \in 1..n : s[j] \in T => s[j] \in ToSet(Among(s, T))
  BY <1>2c, <1>8
<1> QED
  BY <1>1, <1>8, <1>9 DEF U, ToSet

\* The first occurrence of an element is taken out.
LEMMA RemovedFirst ==
  ASSUME NEW S, NEW s \in Seq(S), NEW e
  PROVE  /\ RemoveFirst(s, e) \in Seq(S)
         /\ \A x \in S : x # e => (x \in ToSet(RemoveFirst(s, e)) <=> x \in ToSet(s))
         /\ e \notin ToSet(s) => RemoveFirst(s, e) = s
         /\ IsInjective(s) => IsInjective(RemoveFirst(s, e)) /\ e \notin ToSet(RemoveFirst(s, e))
<1>1. CASE ~\E i \in 1..Len(s) : s[i] = e
  BY <1>1 DEF RemoveFirst, ToSet
<1>2. CASE \E i \in 1..Len(s) : s[i] = e
  <2> DEFINE I == {i \in 1..Len(s) : s[i] = e}
             k == Min(I)
             t == SubSeq(s, 1, k - 1) \o SubSeq(s, k + 1, Len(s))
  <2>1. I \in SUBSET Nat /\ I # {}
    BY <1>2
  <2>2. k \in I
    BY <2>1, LeastNumber
  <2>3. RemoveFirst(s, e) = t
    BY <1>2, <2>1 DEF RemoveFirst, RemoveAt, SelectInSeq
  <2>4. k \in 1..Len(s) /\ s[k] = e
    BY <2>2
  <2> HIDE DEF k
  <2>5. /\ t \in Seq(S) /\ Len(t) = Len(s) - 1
        /\ \A i \in 1..Len(t) : t[i] = IF i < k THEN s[i] ELSE s[i + 1]
    <3> DEFINE a == SubSeq(s, 1, k - 1)
               b == SubSeq(s, k + 1, Len(s))
    <3>1. /\ a \in Seq(S) /\ Len(a) = k - 1 /\ \A i \in 1..(k - 1) : a[i] = s[i]
      BY <2>4
    <3>2. /\ b \in Seq(S) /\ Len(b) = Len(s) - k
          /\ \A i \in 1..(Len(s) - k) : b[i] = s[k + i]
      BY <2>4
    <3> HIDE DEF a, b
    <3>3. /\ a \o b \in Seq(S) /\ Len(a \o b) = Len(a) + Len(b)
          /\ \A i \in 1..(Len(a) + Len(b)) :
               (a \o b)[i] = IF i <= Len(a) THEN a[i] ELSE b[i - Len(a)]
      BY <3>1, <3>2, ConcatProperties
    <3>4. t = a \o b
      BY DEF a, b
    <3> HIDE DEF t
    <3>5. t \in Seq(S) /\ Len(t) = Len(s) - 1
      <4>1. Len(s) \in Nat /\ k \in Nat /\ (k - 1) + (Len(s) - k) = Len(s) - 1
        BY <2>4
      <4>2. Len(t) = Len(a) + Len(b) /\ t \in Seq(S)
        BY <3>3, <3>4
      <4> QED
        BY <3>1, <3>2, <4>1, <4>2
    <3>6. ASSUME NEW i \in 1..Len(t) PROVE t[i] = IF i < k THEN s[i] ELSE s[i + 1]
      <4>1. CASE i < k
        BY <2>4, <3>1, <3>3, <3>4, <4>1
      <4>2. CASE ~(i < k)
        <5>1. i - (k - 1) \in 1..(Len(s) - k) /\ k + (i - (k - 1)) = i + 1
          BY <2>4, <3>5, <4>2
        <5>2. t[i] = b[i - (k - 1)]
          BY <2>4, <3>1, <3>2, <3>3, <3>4, <4>2
        <5> QED
          BY <3>2, <4>2, <5>1, <5>2
      <4> QED
        BY <4>1, <4>2
    <3> QED
      BY <3>5, <3>6
  <2> HIDE DEF t, I
  <2>6. ASSUME NEW x \in S, x # e PROVE x \in ToSet(t) <=> x \in ToSet(s)
    <3>1. ASSUME NEW i \in 1..Len(s), s[i] = x PROVE \E j \in 1..Len(t) : t[j] = x
      <4>1. CASE i < k
        <5>1. i \in 1..Len(t) /\ t[i] = x
          BY <2>4, <2>5, <3>1, <4>1
        <5> QED
          BY <5>1
      <4>2. CASE i > k
        <5>1. i - 1 \in 1..Len(t) /\ ~(i - 1 < k) /\ (i - 1) + 1 = i
          BY <2>4, <2>5, <4>2
        <5>2. t[i - 1] = x
          BY <2>5, <3>1, <5>1
        <5> QED
          BY <5>1, <5>2
      <4>3. i # k
        BY <2>4, <2>6, <3>1
      <4> QED
        BY <2>4, <4>1, <4>2, <4>3
    <3>2. ASSUME NEW j \in 1..Len(t), t[j] = x PROVE \E i \in 1..Len(s) : s[i] = x
      <4>1. j \in 1..Len(s) /\ j + 1 \in 1..Len(s)
        BY <2>5
      <4> QED
        BY <2>5, <3>2, <4>1
    <3> QED
      BY <2>5, <3>1, <3>2 DEF ToSet
  <2>7. ASSUME IsInjective(s)
        PROVE  IsInjective(t) /\ e \notin ToSet(t)
    <3>1. ASSUME NEW i \in 1..Len(t), NEW j \in 1..Len(t), t[i] = t[j] PROVE i = j
      <4> DEFINE x == IF i < k THEN i ELSE i + 1
                 y == IF j < k THEN j ELSE j + 1
      <4>1. x \in 1..Len(s) /\ y \in 1..Len(s) /\ t[i] = s[x] /\ t[j] = s[y]
        BY <2>4, <2>5
      <4>2. x = y
        <5>1. \A c, d \in 1..Len(s) : s[c] = s[d] => c = d
          BY <2>7 DEF IsInjective
        <5> HIDE DEF x, y
        <5>2. s[x] = s[y]
          BY <3>1, <4>1
        <5> QED
          BY <4>1, <5>1, <5>2
      <4> QED
        BY <2>4, <2>5, <4>2
    <3>2. ASSUME NEW j \in 1..Len(t), t[j] = e PROVE FALSE
      <4> DEFINE at == IF j < k THEN j ELSE j + 1
      <4>1. at \in 1..Len(s) /\ s[at] = e /\ at # k
        BY <2>4, <2>5, <3>2
      <4> HIDE DEF at
      <4> QED
        BY <2>4, <2>7, <4>1 DEF IsInjective
    <3> QED
      BY <2>5, <3>1, <3>2 DEF IsInjective, ToSet
  <2>8. e \in ToSet(s)
    BY <2>4 DEF ToSet
  <2> QED
    BY <2>3, <2>5, <2>6, <2>7, <2>8
<1> QED
  BY <1>1, <1>2

-----------------------------------------------------------------------------
(* The tables.                                                             *)

\* Neither an action nor an event makes a call one that is being dialed.
LEMMA StatesReached ==
  ASSUME NEW s \in Reached
  PROVE  /\ \A a \in {"ACCEPT", "REFUSE"} :
               /\ actionPerformedStateMap[s][a] \in Reached \ {"DIALING"}
         /\ \A e \in DaemonState : stateChangedStateMap[s][e] \in Reached \ {"DIALING"}
<1>1. ASSUME NEW a \in {"ACCEPT", "REFUSE"}
      PROVE  actionPerformedStateMap[s][a] \in Reached \ {"DIALING"}
  <2> USE DEF Reached, State, Action, actionPerformedStateMap, ActionRow
  <2>1. CASE s \in {"INCOMING", "RINGING", "CURRENT", "DIALING", "HOLD"}
    BY <2>1
  <2>2. CASE s \in {"FAILURE", "CONNECTED", "BUSY", "TRANSFERRED", "TRANSF_HOLD"}
    BY <2>2
  <2>3. CASE s \in {"OVER", "ERROR", "ABORTED", "CONFERENCE", "CONFERENCE_HOLD", "INITIALIZATION"}
    BY <2>3
  <2> QED
    BY <2>1, <2>2, <2>3
<1>2. ASSUME NEW e \in DaemonState PROVE stateChangedStateMap[s][e] \in Reached \ {"DIALING"}
  <2> USE DEF Reached, State, DaemonState, stateChangedStateMap, DaemonRow
  <2>1. CASE s \in {"INCOMING", "RINGING", "DIALING"}
    BY <2>1
  <2>2. CASE s \in {"CURRENT", "HOLD", "FAILURE", "BUSY"}
    BY <2>2
  <2>3. CASE s \in {"TRANSFERRED", "TRANSF_HOLD", "OVER", "ERROR", "ABORTED"}
    BY <2>3
  <2>4. CASE s \in {"CONFERENCE", "CONFERENCE_HOLD", "INITIALIZATION", "CONNECTED"}
    BY <2>4
  <2> QED
    BY <2>1, <2>2, <2>3, <2>4
<1> QED
  BY <1>1, <1>2

-----------------------------------------------------------------------------
(* Handlers that change the objects and the list.                          *)

LEMMA RestoredFrom ==
  ASSUME NEW m \in Typed, NEW o \in 1..Size(m)
  PROVE  removeInternal(m, o) \in From(m) /\ Restored(m, o) \in From(m)
<1> DEFINE rest == RemoveFirst(m.rows, o)
           left == [m EXCEPT !.rows = rest]
           back == {c \in DOMAIN m.call : m.call[c].state \notin {"OVER", "ERROR"}}
           kept == Among(m.call[o].children, back)
<1>1. rest \in Seq(1..Size(m))
  BY TypedFacts, RemovedFirst
<1>2. kept \in Seq(1..Size(m))
  <2> DEFINE S == 1..Size(m)
             s == m.call[o].children
  <2>1. s \in Seq(S)
    BY TypedFacts DEF Record
  <2> HIDE DEF S, s, back
  <2>2. Among(s, back) \in Seq(S \cap back)
    BY <2>1, AmongIsPart
  <2>3. S \cap back \subseteq S
    OBVIOUS
  <2>4. Among(s, back) \in Seq(S)
    BY <2>2, <2>3, SeqMonotonic
  <2> QED
    BY <2>4 DEF S, s
<1> HIDE DEF rest, kept
<1>3. left \in From(m)
  BY <1>1, ListsFields
<1>4. rest \o kept \in Seq(1..Size(m))
  BY <1>1, <1>2
<1>5. [m EXCEPT !.rows = rest \o kept] \in From(m)
  BY <1>4, ListsFields
<1>6. m \in Models
  BY TypedFacts
<1>7. removeInternal(m, o) = left
  BY DEF removeInternal, rest
<1>8. Restored(m, o) = [left EXCEPT !.rows = @ \o kept]
  BY <1>7 DEF Restored, kept
<1>9. left.rows = rest /\ [left EXCEPT !.rows = @ \o kept] = [m EXCEPT !.rows = rest \o kept]
  BY <1>6 DEF Models
<1> QED
  BY <1>3, <1>5, <1>7, <1>8, <1>9

LEMMA ScheduleFrom ==
  ASSUME NEW m \in Typed, NEW o \in 1..Size(m)
  PROVE  Schedule(m, o) \in From(m)
<1>1. Append(m.checks, o) \in Seq(1..Size(m))
  BY TypedFacts
<1> QED
  BY <1>1, ListsFields DEF Schedule

\* The state of a call, and its missed flag.
Restated(c, s) == [c EXCEPT !.state = s]

LEMMA RestatedSane ==
  ASSUME NEW n \in Nat, NEW c, Sane(c, n), NEW s \in Reached \ {"DIALING"}
  PROVE  /\ Sane(Restated(c, s), n)
         /\ Restated(c, s).id = c.id /\ Restated(c, s).type = c.type
         /\ Restated(c, s).state = s /\ Restated(c, s).missed = c.missed
BY DEF Restated, Sane, Record

LEMMA StateFrom ==
  ASSUME NEW m \in Typed, NEW o \in 1..Size(m), NEW s \in Reached \ {"DIALING"}
  PROVE  LET n == [m EXCEPT !.call[o].state = s]
         IN  /\ n = Put(m, o, Restated(m.call[o], s)) /\ n \in From(m)
             /\ n.call[o] = Restated(m.call[o], s)
             /\ n.rows = m.rows /\ n.checks = m.checks /\ n.removals = m.removals
             /\ \A p \in 1..Size(m) : p # o => n.call[p] = m.call[p]
<1>1. [m EXCEPT !.call[o].state = s] = Put(m, o, Restated(m.call[o], s))
  BY DEF Put, Restated
<1>2. Size(m) \in Nat /\ Sane(m.call[o], Size(m))
  BY TypedFacts
<1> DEFINE r == Restated(m.call[o], s)
<1>3. Sane(r, Size(m)) /\ r.id = m.call[o].id /\ r.type = m.call[o].type /\ r.state = s
  BY <1>2, RestatedSane
<1> HIDE DEF r
<1>4. /\ Put(m, o, r) \in From(m) /\ Put(m, o, r).call[o] = r
      /\ Put(m, o, r).rows = m.rows /\ Put(m, o, r).checks = m.checks
      /\ Put(m, o, r).removals = m.removals
      /\ \A p \in 1..Size(m) : p # o => Put(m, o, r).call[p] = m.call[p]
  BY <1>3, PutFields
<1> QED
  BY <1>1, <1>4 DEF r

LEMMA MissedFrom ==
  ASSUME NEW m \in Typed, NEW o \in 1..Size(m)
  PROVE  LET n == SetMissed(m, o)
         IN  /\ n \in From(m)
             /\ n.call[o] = [m.call[o] EXCEPT !.missed = TRUE]
             /\ n.rows = m.rows /\ n.checks = m.checks /\ n.removals = m.removals
             /\ \A p \in 1..Size(m) : p # o => n.call[p] = m.call[p]
<1> DEFINE r == [m.call[o] EXCEPT !.missed = TRUE]
<1>1. SetMissed(m, o) = Put(m, o, r)
  BY DEF Put, SetMissed
<1>2. Sane(m.call[o], Size(m))
  BY TypedFacts
<1>3. Sane(r, Size(m)) /\ r.id = m.call[o].id /\ r.type = m.call[o].type
      /\ r.state = m.call[o].state
  BY <1>2 DEF Sane, Record
<1> HIDE DEF r
<1>4. /\ Put(m, o, r) \in From(m) /\ Put(m, o, r).call[o] = r
      /\ Put(m, o, r).rows = m.rows /\ Put(m, o, r).checks = m.checks
      /\ Put(m, o, r).removals = m.removals
      /\ \A p \in 1..Size(m) : p # o => Put(m, o, r).call[p] = m.call[p]
  BY <1>3, PutFields
<1> QED
  BY <1>1, <1>4 DEF r

LEMMA EndConferenceFrom ==
  ASSUME NEW m \in Typed, NEW o \in 1..Size(m)
  PROVE  EndConference(m, o) \in From(m)
<1> DEFINE n == [m EXCEPT !.call[o].state = "OVER"]
<1>1. "OVER" \in Reached \ {"DIALING"}
  BY DEF Reached, State
<1>2. n \in From(m)
  BY <1>1, StateFrom
<1> HIDE DEF n
<1>2a. n \in Typed /\ o \in 1..Size(n)
  BY <1>2 DEF From, Kept
<1>3. Schedule(n, o) \in From(n)
  BY <1>2a, ScheduleFrom
<1>4. Schedule(n, o) \in From(m)
  BY <1>2, <1>3, KeptTransitive
<1> QED
  BY <1>4, KeptReflexive DEF EndConference, n

\* Two handlers in a row.
LEMMA ThenFrom ==
  ASSUME NEW m \in Typed, NEW n \in From(m)
  PROVE  /\ n \in Typed /\ Size(n) = Size(m)
         /\ \A o \in 1..Size(m) : n.call[o].id = m.call[o].id /\ n.call[o].type = m.call[o].type
         /\ \A p \in From(n) : p \in From(m)
BY KeptTransitive DEF From, Kept

\* What each removal of a conference keeps, the loop of removeCall() keeps.
LEMMA SweepReaches ==
  ASSUME NEW m \in Typed, NEW U, m \in U,
         \A x \in U : \A o \in 1..Size(m) :
           IsConference(m, o) => EndConference(Restored(x, o), o) \in U
  PROVE  Sweep(m) \in U
<1> DEFINE op(done, o) == EndConference(Restored(done, o), o)
           s == Among(m.rows, {o \in DOMAIN m.call : Hollow(m, o)})
           n == Len(s)
           G == [k \in 0..n |-> U]
           F == [p \in U \X (1..n) |-> op(p[1], s[p[2]])]
           IsFold(h) == h = [D \in SUBSET DOMAIN s |->
                               IF D = {} THEN m
                               ELSE op(h[D \ {Max(D)}], s[Max(D)])]
           it == CHOOSE h : IsFold(h)
<1>1. n \in Nat /\ DOMAIN s = 1..n
      /\ \A k \in 1..n : s[k] \in 1..Size(m) /\ IsConference(m, s[k])
  <2> DEFINE T == (1..Size(m)) \cap {o \in DOMAIN m.call : Hollow(m, o)}
  <2>1. s \in Seq(T)
    BY TypedFacts, AmongIsPart
  <2>2. \A o \in T : o \in 1..Size(m) /\ IsConference(m, o)
    BY DEF Hollow
  <2> HIDE DEF s, T
  <2> QED
    BY <2>1, <2>2
<1>1a. Sweep(m) = FoldLeft(LAMBDA done, o : EndConference(Restored(done, o), o), m, s)
  BY DEF Sweep
<1> HIDE DEF s
<1>2. \A x \in U, k \in 1..n : F[<<x, k>>] = op(x, s[k]) /\ op(x, s[k]) \in U
  BY <1>1
<1>2a. m \in U /\ \A k \in 0..n : G[k] = U
  OBVIOUS
<1> HIDE DEF F, G, op
<1>3. Stepped(n, U, G, m, F)
  BY <1>1, <1>2, <1>2a DEF Stepped
<1>4. PICK h \in [SUBSET (1..n) -> U] : SequenceFoldsBy(h, n, U, m, F)
  BY <1>3, SequenceFoldExists
<1>5. IsFold(h)
  BY <1>1, <1>2, <1>4 DEF SequenceFoldsBy
<1>6. SUFFICES it[1..n] \in G[n]
  BY <1>1, <1>1a, <1>2a, SMTT(60) DEF FoldLeft, MapThenFoldSet, IsFold, op
<1>7. SequenceFoldsBy(it, n, U, m, F)
  <2> HIDE DEF IsFold
  <2>1. IsFold(it)
    BY <1>5
  <2>2. \A D \in SUBSET (1..n) : D # {} => Max(D) \in D
    BY <1>4 DEF SequenceFoldsBy
  <2>3. /\ it[{}] = m
        /\ \A D \in SUBSET (1..n) : D # {} => it[D] = op(it[D \ {Max(D)}], s[Max(D)])
    BY <1>1, <2>1 DEF IsFold
  <2> QED
    BY <1>2, <2>2, <2>3 DEF SequenceFoldsBy
<1> HIDE DEF IsFold, it
<1> QED
  BY <1>3, <1>7, SequenceFoldReaches

LEMMA SweepFrom ==
  ASSUME NEW m \in Typed
  PROVE  Sweep(m) \in From(m)
<1> DEFINE U == From(m)
<1>1. m \in U
  BY KeptReflexive
<1>2. ASSUME NEW x \in U, NEW o \in 1..Size(m) PROVE EndConference(Restored(x, o), o) \in U
  <2> DEFINE y == Restored(x, o)
  <2>1. x \in Typed /\ o \in 1..Size(x) /\ \A p \in From(x) : p \in U
    BY ThenFrom
  <2>2. y \in From(x)
    BY <2>1, RestoredFrom
  <2> HIDE DEF y
  <2>3. y \in Typed /\ o \in 1..Size(y) /\ \A p \in From(y) : p \in From(x)
    BY <2>1, <2>2, ThenFrom
  <2>4. EndConference(y, o) \in From(y)
    BY <2>3, EndConferenceFrom
  <2> QED
    BY <2>1, <2>3, <2>4 DEF y
<1> HIDE DEF U
<1>3. Sweep(m) \in U
  BY <1>1, <1>2, SweepReaches
<1> QED
  BY <1>3 DEF U

LEMMA RemoveCallFrom ==
  ASSUME NEW m \in Typed, NEW o \in 1..Size(m)
  PROVE  removeCall(m, o) \in From(m)
<1> DEFINE n == Restored(m, o)
<1>1. n \in From(m) /\ n \in Typed
  BY RestoredFrom DEF From
<1> HIDE DEF n
<1>2. Sweep(n) \in From(n)
  BY <1>1, SweepFrom
<1>3. Sweep(n) \in From(m)
  BY <1>1, <1>2, KeptTransitive
<1> QED
  BY <1>3 DEF removeCall, n

LEMMA RemoveConferenceFrom ==
  ASSUME NEW m \in Typed, NEW o \in 1..Size(m)
  PROVE  removeConference(m, o) \in From(m)
<1> DEFINE n == removeCall(m, o)
<1>1. n \in From(m)
  BY RemoveCallFrom
<1> HIDE DEF n
<1>2. n \in Typed /\ o \in 1..Size(n)
  BY <1>1 DEF From, Kept
<1>3. EndConference(n, o) \in From(n)
  BY <1>2, EndConferenceFrom
<1>4. EndConference(n, o) \in From(m)
  BY <1>1, <1>2, <1>3, KeptTransitive
<1> QED
  BY <1>4 DEF removeConference, n

LEMMA CallChangedFrom ==
  ASSUME NEW m \in Typed, NEW o \in 1..Size(m)
  PROVE  slotCallChanged(m, o) \in From(m)
<1>1. removeCall(m, o) \in From(m) /\ Schedule(m, o) \in From(m) /\ m \in From(m)
  BY RemoveCallFrom, ScheduleFrom, KeptReflexive
<1> QED
  BY <1>1 DEF slotCallChanged

LEMMA SetStateFrom ==
  ASSUME NEW m \in Typed, NEW o \in 1..Size(m), NEW s \in Reached \ {"DIALING"}
  PROVE  SetState(m, o, s) \in From(m)
<1> DEFINE n == [m EXCEPT !.call[o].state = s]
<1>1. n \in From(m)
  BY StateFrom
<1>2. SetState(m, o, s) \in {m, slotCallChanged(n, o)}
  BY DEF SetState
<1> HIDE DEF n
<1>3. n \in Typed /\ o \in 1..Size(n)
  BY <1>1 DEF From, Kept
<1>4. slotCallChanged(n, o) \in From(n)
  BY <1>3, CallChangedFrom
<1>5. slotCallChanged(n, o) \in From(m) /\ m \in From(m)
  BY <1>1, <1>3, <1>4, KeptTransitive, KeptReflexive
<1> QED
  BY <1>2, <1>5

DaemonReports == {"INCOMING", "CONNECTING", "RINGING", "CURRENT", "HUNGUP", "FAILURE", "OVER"}

LEMMA ReportsAreStates ==
  \A s \in DaemonReports : toDaemonCallState(s) \in DaemonState
BY DEF DaemonReports, toDaemonCallState, DaemonState

LEMMA StateChangedFrom ==
  ASSUME NEW m \in Typed, NEW o \in 1..Size(m), NEW s \in DaemonReports
  PROVE  stateChanged(m, o, s) \in From(m)
<1> DEFINE d     == toDaemonCallState(s)
           moved == SetState(m, o, stateChangedStateMap[m.call[o].state][d])
           erred == SetState(moved, o, "ERROR")
           miss  == SetMissed(moved, o)
<1>1. m.call[o].state \in Reached /\ d \in DaemonState /\ "ERROR" \in Reached \ {"DIALING"}
  <2>1. m.call[o] \in Record(Size(m))
    BY TypedFacts
  <2> QED
    BY <2>1, ReportsAreStates DEF Record, Reached, State
<1>2. stateChangedStateMap[m.call[o].state][d] \in Reached \ {"DIALING"}
  BY <1>1, StatesReached
<1>3. moved \in From(m)
  BY <1>2, SetStateFrom
<1>4. stateChanged(m, o, s) \in {erred, slotCallChanged(miss, o), slotCallChanged(moved, o)}
  BY DEF stateChanged
<1> HIDE DEF moved
<1>5. moved \in Typed /\ o \in 1..Size(moved) /\ \A p \in From(moved) : p \in From(m)
  BY <1>3, ThenFrom
<1>6. erred \in From(moved) /\ miss \in From(moved) /\ slotCallChanged(moved, o) \in From(moved)
  BY <1>1, <1>5, SetStateFrom, MissedFrom, CallChangedFrom
<1> HIDE DEF miss, erred
<1>7. miss \in Typed /\ o \in 1..Size(miss) /\ \A p \in From(miss) : p \in From(moved)
  BY <1>5, <1>6, ThenFrom
<1>8. slotCallChanged(miss, o) \in From(miss)
  BY <1>7, CallChangedFrom
<1> QED
  BY <1>4, <1>5, <1>6, <1>7, <1>8

LEMMA CallStateChangedFrom ==
  ASSUME NEW m \in Typed, NEW o \in 1..Size(m), NEW s \in DaemonReports
  PROVE  CallStateChanged(m, o, s) \in From(m)
<1> DEFINE done == stateChanged(m, o, s)
<1>1. done \in From(m)
  BY StateChangedFrom
<1>2. CallStateChanged(m, o, s) \in {done, Schedule(done, o)}
  BY DEF CallStateChanged
<1> HIDE DEF done
<1>3. done \in Typed /\ o \in 1..Size(done) /\ \A p \in From(done) : p \in From(m)
  BY <1>1, ThenFrom
<1>4. Schedule(done, o) \in From(done)
  BY <1>3, ScheduleFrom
<1> QED
  BY <1>1, <1>2, <1>3, <1>4

-----------------------------------------------------------------------------
(* The daemon.                                                             *)

Signals ==
  [signal : {"callStateChanged"}, id : CallId, state : DaemonReports]
    \cup [signal : {"incomingCall"}, id : CallId, state : {""}]
    \cup [signal : {"conferenceCreated", "conferenceChanged", "conferenceRemoved"},
          id : ConfId, state : {""}]

Rings ==
  [calls : [CallId -> DaemonCall], confs : [ConfId -> {"free", "live", "removed"}],
   parts : [ConfId -> SUBSET CallId], late : SUBSET CallId, queue : Seq(Signals)]

\* An identifier that was given is not taken back.
After(d) == {e \in Rings : \A i \in CallId : e.calls[i] = "free" => d.calls[i] = "free"}

LEMMA AfterFacts ==
  ASSUME NEW d \in Rings
  PROVE  /\ d \in After(d)
         /\ \A e \in After(d) : e \in Rings /\ After(e) \subseteq After(d)
BY DEF After

LEMMA EmitAfter ==
  ASSUME NEW d \in Rings, NEW s, NEW i, NEW t, [signal |-> s, id |-> i, state |-> t] \in Signals
  PROVE  Emit(d, s, i, t) \in After(d)
<1> DEFINE q == Append(d.queue, [signal |-> s, id |-> i, state |-> t])
<1>1. q \in Seq(Signals)
  BY DEF Rings
<1>2. Emit(d, s, i, t) = [d EXCEPT !.queue = q]
  BY DEF Emit
<1> HIDE DEF q
<1> QED
  BY <1>1, <1>2 DEF Rings, After

LEMMA MovedAfter ==
  ASSUME NEW d \in Rings, NEW i \in CallId, NEW to \in DaemonCall \ {"free"}, NEW s \in DaemonReports
  PROVE  Moved(d, i, to, s) \in After(d)
<1> DEFINE e == [d EXCEPT !.calls[i] = to]
<1>1. e \in After(d)
  BY DEF Rings, After
<1>2. [signal |-> "callStateChanged", id |-> i, state |-> s] \in Signals
  BY DEF Signals
<1>3. e \in Rings
  BY <1>1, AfterFacts
<1> HIDE DEF e
<1>4. Emit(e, "callStateChanged", i, s) \in After(e)
  BY <1>2, <1>3, EmitAfter
<1> QED
  BY <1>1, <1>4, AfterFacts DEF Moved, e

LEMMA ConferenceAfter ==
  ASSUME NEW d \in Rings, NEW f \in ConfId, NEW p \in SUBSET CallId
  PROVE  /\ [d EXCEPT !.parts[f] = p] \in After(d)
         /\ \A s \in {"live", "removed"} : [d EXCEPT !.confs[f] = s, !.parts[f] = p] \in After(d)
         /\ \A s \in {"conferenceCreated", "conferenceChanged", "conferenceRemoved"} :
              [signal |-> s, id |-> f, state |-> ""] \in Signals
BY DEF Rings, After, Signals

LEMMA LeavesAfter ==
  ASSUME NEW d \in Rings, NEW i \in CallId
  PROVE  Leaves(d, i) \in After(d)
<1>1. CASE ConferencesOf(d, i) = {}
  BY <1>1, AfterFacts DEF Leaves
<1>2. CASE ConferencesOf(d, i) # {}
  <2> DEFINE f == CHOOSE f \in ConferencesOf(d, i) : TRUE
             e == [d EXCEPT !.parts[f] = @ \ {i}]
  <2>1. f \in ConfId
    BY <1>2 DEF ConferencesOf
  <2>2. Leaves(d, i) = Emit(e, "conferenceChanged", f, "")
    BY <1>2 DEF Leaves
  <2> HIDE DEF f
  <2>3. d.parts[f] \ {i} \in SUBSET CallId
    BY <2>1 DEF Rings
  <2>4. e \in After(d) /\ [signal |-> "conferenceChanged", id |-> f, state |-> ""] \in Signals
    BY <2>1, <2>3, ConferenceAfter
  <2> HIDE DEF e
  <2>5. e \in Rings /\ After(e) \subseteq After(d)
    BY <2>4, AfterFacts
  <2>6. Emit(e, "conferenceChanged", f, "") \in After(e)
    BY <2>4, <2>5, EmitAfter
  <2> QED
    BY <2>2, <2>5, <2>6
<1> QED
  BY <1>1, <1>2

LEMMA EndedAfter ==
  ASSUME NEW d \in Rings, NEW i \in CallId, NEW s \in DaemonReports
  PROVE  Ended(d, i, s) \in After(d)
<1>1. Leaves(d, i) \in After(d) /\ Leaves(d, i) \in Rings
  BY LeavesAfter, AfterFacts
<1>2. "ended" \in DaemonCall \ {"free"}
  BY DEF DaemonCall
<1>3. Moved(Leaves(d, i), i, "ended", s) \in After(Leaves(d, i))
  BY <1>1, <1>2, MovedAfter
<1> QED
  BY <1>1, <1>3, AfterFacts DEF Ended

LEMMA RequestsAfter ==
  ASSUME NEW d \in Rings, NEW i
  PROVE  Accepted(d, i) \in After(d) /\ HungUp(d, i) \in After(d)
<1>1. "current" \in DaemonCall \ {"free"} /\ {"CURRENT", "HUNGUP"} \subseteq DaemonReports
  BY DEF DaemonCall, Alive, DaemonReports
<1>2. Known(d, i) => i \in CallId
  BY DEF Known
<1> QED
  BY <1>1, <1>2, MovedAfter, EndedAfter, AfterFacts DEF Accepted, HungUp

\* What the end of each participant keeps, the end of their conference keeps.
LEMMA HungUpConferenceReaches ==
  ASSUME NEW d \in Rings, NEW f \in ConfId, NEW U, [d EXCEPT !.parts[f] = {}] \in U,
         \A x \in U, i \in CallId : Moved(x, i, "ended", "HUNGUP") \in U
  PROVE  HungUpConference(d, f) \in U
<1> DEFINE op(done, i) == Moved(done, i, "ended", "HUNGUP")
           m == [d EXCEPT !.parts[f] = {}]
           s == SetToSeq(d.parts[f])
           n == Len(s)
           G == [k \in 0..n |-> U]
           F == [p \in U \X (1..n) |-> op(p[1], s[p[2]])]
           IsFold(h) == h = [D \in SUBSET DOMAIN s |->
                               IF D = {} THEN m
                               ELSE op(h[D \ {Max(D)}], s[Max(D)])]
           it == CHOOSE h : IsFold(h)
<1>1. n \in Nat /\ DOMAIN s = 1..n /\ \A k \in 1..n : s[k] \in CallId
  <2>1. IsFiniteSet(d.parts[f]) /\ d.parts[f] \subseteq CallId
    <3>1. d.parts[f] \subseteq CallId
      BY DEF Rings
    <3> QED
      BY <3>1, CallIdAssumption, FS_Subset
  <2>2. s \in Seq(d.parts[f])
    BY <2>1, SequenceOfSet
  <2> HIDE DEF s
  <2> QED
    BY <2>1, <2>2
<1>1a. HungUpConference(d, f) = FoldLeft(LAMBDA done, i : Moved(done, i, "ended", "HUNGUP"), m, s)
  BY DEF HungUpConference
<1>2a. m \in U /\ \A k \in 0..n : G[k] = U
  OBVIOUS
<1> HIDE DEF s, m
<1>2. \A x \in U, k \in 1..n : F[<<x, k>>] = op(x, s[k]) /\ op(x, s[k]) \in U
  <2> SUFFICES ASSUME NEW x \in U, NEW k \in 1..n PROVE op(x, s[k]) \in U
    OBVIOUS
  <2> QED
    BY <1>1
<1> HIDE DEF F, G, op
<1>3. Stepped(n, U, G, m, F)
  BY <1>1, <1>2, <1>2a DEF Stepped
<1>4. PICK h \in [SUBSET (1..n) -> U] : SequenceFoldsBy(h, n, U, m, F)
  BY <1>3, SequenceFoldExists
<1>5. IsFold(h)
  BY <1>1, <1>2, <1>4 DEF SequenceFoldsBy
<1>6. SUFFICES it[1..n] \in G[n]
  BY <1>1, <1>1a, <1>2a, SMTT(60) DEF FoldLeft, MapThenFoldSet, IsFold, op
<1>7. SequenceFoldsBy(it, n, U, m, F)
  <2> HIDE DEF IsFold
  <2>1. IsFold(it)
    BY <1>5
  <2>2. \A D \in SUBSET (1..n) : D # {} => Max(D) \in D
    BY <1>4 DEF SequenceFoldsBy
  <2>3. /\ it[{}] = m
        /\ \A D \in SUBSET (1..n) : D # {} => it[D] = op(it[D \ {Max(D)}], s[Max(D)])
    BY <1>1, <2>1 DEF IsFold
  <2> QED
    BY <1>2, <2>2, <2>3 DEF SequenceFoldsBy
<1> HIDE DEF IsFold, it
<1> QED
  BY <1>3, <1>7, SequenceFoldReaches

LEMMA HungUpConferenceAfter ==
  ASSUME NEW d \in Rings, NEW f \in ConfId
  PROVE  HungUpConference(d, f) \in After(d)
<1> DEFINE U == After(d)
<1>1. [d EXCEPT !.parts[f] = {}] \in U
  BY ConferenceAfter
<1>2. "ended" \in DaemonCall \ {"free"} /\ "HUNGUP" \in DaemonReports
  BY DEF DaemonCall, DaemonReports
<1>3. ASSUME NEW x \in U, NEW i \in CallId PROVE Moved(x, i, "ended", "HUNGUP") \in U
  <2>1. x \in Rings /\ After(x) \subseteq U
    BY AfterFacts
  <2> QED
    BY <1>2, <2>1, MovedAfter
<1> HIDE DEF U
<1>4. HungUpConference(d, f) \in U
  BY <1>1, <1>3, HungUpConferenceReaches
<1> QED
  BY <1>4 DEF U

LEMMA JoinedAfter ==
  ASSUME NEW d \in Rings, NEW i \in CallId, NEW j \in CallId
  PROVE  Joined(d, i, j) \in After(d)
<1>1. CASE ~(/\ \A k \in {i, j} : d.calls[k] = "current" /\ ConferencesOf(d, k) = {}
             /\ \E f \in ConfId : d.confs[f] = "free")
  BY <1>1, AfterFacts DEF Joined
<1>2. CASE /\ \A k \in {i, j} : d.calls[k] = "current" /\ ConferencesOf(d, k) = {}
           /\ \E f \in ConfId : d.confs[f] = "free"
  <2> DEFINE f == CHOOSE f \in ConfId : d.confs[f] = "free"
             e == [d EXCEPT !.confs[f] = "live", !.parts[f] = {i, j}]
  <2>1. f \in ConfId
    BY <1>2
  <2>2. Joined(d, i, j) = Emit(e, "conferenceCreated", f, "")
    BY <1>2 DEF Joined
  <2> HIDE DEF f
  <2>3. {i, j} \in SUBSET CallId
    OBVIOUS
  <2>4. e \in After(d) /\ [signal |-> "conferenceCreated", id |-> f, state |-> ""] \in Signals
    BY <2>1, <2>3, ConferenceAfter
  <2> HIDE DEF e
  <2>5. Emit(e, "conferenceCreated", f, "") \in After(e)
    BY <2>4, AfterFacts, EmitAfter
  <2> QED
    BY <2>2, <2>4, <2>5, AfterFacts
<1> QED
  BY <1>1, <1>2

LEMMA MergedAfter ==
  ASSUME NEW d \in Rings, NEW f \in ConfId, NEW g \in ConfId
  PROVE  Merged(d, f, g) \in After(d)
<1>1. CASE ~\A h \in {f, g} : d.confs[h] = "live" /\ d.parts[h] # {}
  BY <1>1, AfterFacts DEF Merged
<1>2. CASE \A h \in {f, g} : d.confs[h] = "live" /\ d.parts[h] # {}
  <2> DEFINE e == [d EXCEPT !.confs[f] = "removed", !.parts[f] = {}, !.parts[g] = @ \cup d.parts[f]]
             one == Emit(e, "conferenceChanged", g, "")
             two == Emit(one, "conferenceRemoved", f, "")
  <2>1. e \in After(d)
    BY DEF Rings, After
  <2>2. Merged(d, f, g) = two
    BY <1>2 DEF Merged
  <2>3. /\ [signal |-> "conferenceChanged", id |-> g, state |-> ""] \in Signals
        /\ [signal |-> "conferenceRemoved", id |-> f, state |-> ""] \in Signals
    BY DEF Signals
  <2> HIDE DEF e
  <2>4. one \in After(e)
    BY <2>1, <2>3, AfterFacts, EmitAfter
  <2>5. one \in After(d) /\ one \in Rings
    BY <2>1, <2>4, AfterFacts
  <2> HIDE DEF one
  <2>6. two \in After(one)
    BY <2>3, <2>5, EmitAfter
  <2> QED
    BY <2>2, <2>5, <2>6, AfterFacts
<1> QED
  BY <1>1, <1>2

-----------------------------------------------------------------------------
(* A call is added.                                                        *)

\* Each object that has an identifier is the one that it leads to.
Unique(m) ==
  \A o \in 1..Size(m) : m.call[o].id # "" => m.known[m.call[o].id] = o

\* What a handler may make of the model when it adds an object for each of the
\* identifiers K: no two objects share one unless one of them had an object.
Grown(m, K) ==
  {n \in Typed :
     /\ n.started = m.started
     /\ Unique(m) /\ (\A i \in K \cap Ids : m.known[i] = 0) => Unique(n)
     /\ \A i \in Ids \ K : n.known[i] = m.known[i]}

LEMMA FromIsGrown ==
  ASSUME NEW m \in Typed, NEW K
  PROVE  m \in From(m) /\ From(m) \subseteq Grown(m, K)
<1>1. ASSUME NEW n \in From(m) PROVE n \in Grown(m, K)
  <2>1. Unique(m) => Unique(n)
    BY DEF Unique, From, Kept
  <2> QED
    BY <2>1 DEF From, Kept, Grown
<1> QED
  BY <1>1, KeptReflexive

LEMMA GrownThen ==
  ASSUME NEW m \in Typed, NEW K, NEW L, K \cap L = {}, NEW n \in Grown(m, K),
         NEW p \in Grown(n, L)
  PROVE  p \in Grown(m, K \cup L)
<1>1. p \in Typed /\ p.started = m.started
  BY DEF Grown
<1>2. \A i \in Ids \ (K \cup L) : p.known[i] = m.known[i]
  BY DEF Grown
<1>3. ASSUME Unique(m), \A i \in (K \cup L) \cap Ids : m.known[i] = 0 PROVE Unique(p)
  <2>1. Unique(n)
    BY <1>3 DEF Grown
  <2>2. \A i \in L \cap Ids : n.known[i] = 0
    BY <1>3 DEF Grown
  <2> QED
    BY <2>1, <2>2 DEF Grown
<1> QED
  BY <1>1, <1>2, <1>3 DEF Grown

LEMMA GrownFrom ==
  ASSUME NEW m \in Typed, NEW K, NEW n \in Grown(m, K), NEW p \in From(n)
  PROVE  p \in Grown(m, K)
<1>1. n \in Typed
  BY DEF Grown
<1>2. p \in Grown(n, {})
  BY <1>1, FromIsGrown
<1>3. p \in Grown(m, K \cup {})
  BY <1>2, GrownThen
<1>4. K \cup {} = K
  OBVIOUS
<1> QED
  BY <1>3, <1>4

LEMMA RecordGrows ==
  ASSUME NEW n \in Nat, NEW c, Sane(c, n)
  PROVE  Sane(c, n + 1)
<1>1. 0..n \subseteq 0..(n + 1) /\ 1..n \subseteq 1..(n + 1)
  OBVIOUS
<1>2. \A s \in Seq(1..n) : s \in Seq(1..(n + 1))
  BY <1>1, SeqMonotonic
<1> QED
  BY <1>1, <1>2 DEF Sane, Record

LEMMA Ranges ==
  \A n \in Nat : /\ n + 1 \in Nat /\ n + 1 # 0 /\ 0 \in 0..n /\ 0 \notin 1..n
                 /\ n + 1 \in 1..(n + 1)
                 /\ \A p \in 1..(n + 1) : p = n + 1 \/ p \in 1..n
                 /\ \A p \in 0..n : p # 0 => p \in 1..n
OBVIOUS

LEMMA NewConference ==
  ASSUME NEW m \in Typed, NEW f \in ConfId
  PROVE  LET c == NewCall("CONFERENCE", f, "CONFERENCE")
         IN  /\ Sane(c, Size(m)) /\ c.id = f /\ c.type = "CONFERENCE" /\ c.state = "CONFERENCE"
<1> DEFINE c == NewCall("CONFERENCE", f, "CONFERENCE")
           k == Size(m)
<1>1. /\ c.id = f /\ c.type = "CONFERENCE" /\ c.state = "CONFERENCE" /\ c.missed = FALSE
      /\ c.children = <<>> /\ c.parent = 0
  BY DEF NewCall
<1>2. k \in Nat /\ f \in Ids \cup {""} /\ f \in ConfId /\ "CONFERENCE" \in Reached
  BY TypedFacts, CallIdAssumption DEF Ids, Reached, State
<1> HIDE DEF k
<1>3. 0 \in 0..k /\ <<>> \in Seq(1..k)
  BY <1>2, Ranges, EmptySeq
<1>4. c \in Record(k)
  BY <1>2, <1>3 DEF NewCall, Record
<1> HIDE DEF c
<1>5. Sane(c, k)
  BY <1>1, <1>2, <1>4 DEF Sane
<1> QED
  BY <1>1, <1>5 DEF c, k

LEMMA NewDialedCall ==
  ASSUME NEW m \in Typed
  PROVE  LET c == NewCall("CALL", "", "DIALING")
         IN  /\ Sane(c, Size(m)) /\ c.id = "" /\ c.type = "CALL" /\ c.state = "DIALING"
<1> DEFINE c == NewCall("CALL", "", "DIALING")
           k == Size(m)
<1>1. /\ c.id = "" /\ c.type = "CALL" /\ c.state = "DIALING" /\ c.missed = FALSE
      /\ c.children = <<>> /\ c.parent = 0
  BY DEF NewCall
<1>2. k \in Nat /\ "" \in Ids \cup {""} /\ "" \notin ConfId /\ "DIALING" \in Reached
  BY TypedFacts, CallIdAssumption DEF Ids, Reached, State
<1> HIDE DEF k
<1>3. 0 \in 0..k /\ <<>> \in Seq(1..k)
  BY <1>2, Ranges, EmptySeq
<1>4. c \in Record(k)
  BY <1>2, <1>3 DEF NewCall, Record
<1> HIDE DEF c
<1>5. Sane(c, k)
  BY <1>1, <1>2, <1>4 DEF Sane
<1> QED
  BY <1>1, <1>5 DEF c, k

LEMMA NewCallOfId ==
  ASSUME NEW m \in Typed, NEW i \in CallId, NEW s \in Reached \ {"DIALING"}
  PROVE  LET c == NewCall("CALL", i, s)
         IN  /\ Sane(c, Size(m)) /\ c.id = i /\ c.type = "CALL" /\ c.state = s /\ ~c.missed
             /\ c.children = <<>> /\ c.parent = 0
<1> DEFINE c == NewCall("CALL", i, s)
           k == Size(m)
<1>1. /\ c.id = i /\ c.type = "CALL" /\ c.state = s /\ c.missed = FALSE
      /\ c.children = <<>> /\ c.parent = 0
  BY DEF NewCall
<1>2. k \in Nat /\ i \in Ids \cup {""} /\ i \notin ConfId
  BY TypedFacts, CallIdAssumption DEF Ids
<1> HIDE DEF k
<1>3. 0 \in 0..k /\ <<>> \in Seq(1..k)
  BY <1>2, Ranges, EmptySeq
<1>4. c \in Record(k)
  BY <1>2, <1>3 DEF NewCall, Record
<1> HIDE DEF c
<1>5. Sane(c, k)
  BY <1>1, <1>2, <1>4 DEF Sane
<1> QED
  BY <1>1, <1>5 DEF c, k

LEMMA AddCallFields ==
  ASSUME NEW m \in Typed, NEW c, Sane(c, Size(m))
  PROVE  LET n == addCall(m, c)
             o == Size(m) + 1
         IN  /\ n \in Typed /\ Size(n) = o
             /\ n.call[o] = c /\ \A p \in 1..Size(m) : n.call[p] = m.call[p]
             /\ \A i \in Ids : n.known[i] = IF i = c.id THEN o ELSE m.known[i]
             /\ n.rows = IF metaStateMap[c.state] = "FINISHED" THEN m.rows
                         ELSE Append(m.rows, o)
             /\ n.checks = m.checks /\ n.removals = m.removals
             /\ n.started = m.started /\ n.answer = m.answer /\ n.crashed = m.crashed
<1> DEFINE k == Size(m)
           o == k + 1
           calls == Append(m.call, c)
           rows == IF metaStateMap[c.state] = "FINISHED" THEN m.rows ELSE Append(m.rows, o)
           known == IF c.id = "" THEN m.known ELSE [m.known EXCEPT ![c.id] = o]
           n == [m EXCEPT !.call = calls, !.rows = rows, !.known = known]
<1>1. k \in Nat /\ k = Len(m.call)
  BY TypedFacts
<1>2. m \in Models /\ m.call \in Seq(Record(k)) /\ c \in Record(k)
  BY TypedFacts DEF Sane
<1>3. c.id \in Ids \cup {""} /\ "" \notin Ids
  <2>1. c.id \in Ids \cup {""}
    BY <1>2 DEF Record
  <2> QED
    BY <2>1, CallIdAssumption DEF Ids
<1>4. addCall(m, c) = n
  BY <1>1 DEF addCall
<1>5. \A p \in 1..k : Sane(m.call[p], k)
  BY TypedFacts
<1>6. m.rows \in Seq(1..k) /\ m.checks \in Seq(1..k) /\ m.removals \in Seq(1..k)
  BY TypedFacts
<1>7. \A i \in Ids : m.known[i] \in 0..k /\ (m.known[i] # 0 => m.call[m.known[i]].id = i)
  BY TypedFacts
<1> HIDE DEF k
<1>8. o \in Nat /\ 1..k \subseteq 1..o /\ o \in 1..o /\ 0..k \subseteq 0..o /\ 1..o \subseteq Nat
      /\ o \notin 1..k /\ \A p \in 1..o : p = o \/ p \in 1..k
  BY <1>1
<1>9. /\ calls \in Seq(Record(k)) /\ Len(calls) = o /\ calls[o] = c
      /\ \A p \in 1..k : calls[p] = m.call[p]
  BY <1>1, <1>2, AppendProperties
<1>10. known \in [Ids -> Nat] /\ \A i \in Ids : known[i] = IF i = c.id THEN o ELSE m.known[i]
  <2>1. m.known \in [Ids -> Nat]
    BY <1>2 DEF Models
  <2> HIDE DEF o
  <2> QED
    BY <1>3, <1>8, <2>1
<1>11. rows \in Seq(1..o) /\ m.checks \in Seq(1..o) /\ m.removals \in Seq(1..o)
  <2> HIDE DEF o
  <2>1. m.rows \in Seq(1..o) /\ m.checks \in Seq(1..o) /\ m.removals \in Seq(1..o)
    BY <1>6, <1>8, SeqMonotonic
  <2>2. Append(m.rows, o) \in Seq(1..o)
    BY <1>8, <2>1, AppendProperties
  <2> QED
    BY <2>1, <2>2
<1> HIDE DEF calls, known, rows, o
<1>12. /\ n.call = calls /\ n.rows = rows /\ n.known = known
       /\ n.checks = m.checks /\ n.removals = m.removals
       /\ n.started = m.started /\ n.answer = m.answer /\ n.crashed = m.crashed
  BY <1>2 DEF Models
<1>13. Size(n) = o
  BY <1>9, <1>12 DEF Size
<1>14. n \in Models
  <2>1. calls \in Seq(UNION {Record(j) : j \in Nat})
    <3>1. Record(k) \subseteq UNION {Record(j) : j \in Nat}
      BY <1>1
    <3> QED
      BY <1>9, <3>1, SeqMonotonic
  <2>2. rows \in Seq(Nat)
    BY <1>8, <1>11, SeqMonotonic
  <2> QED
    BY <1>2, <1>10, <2>1, <2>2 DEF Models
<1> HIDE DEF n
<1>15. n \in Typed
  <2>1. \A p \in 1..o : Sane(n.call[p], o)
    <3>1. \A r : Sane(r, k) => Sane(r, o)
      BY <1>1, RecordGrows DEF o
    <3>2. Sane(c, k)
      BY DEF k
    <3> QED
      BY <1>5, <1>8, <1>9, <1>12, <3>1, <3>2
  <2>2. ASSUME NEW i \in Ids
        PROVE  n.known[i] \in 0..o /\ (n.known[i] # 0 => n.call[n.known[i]].id = i)
    <3>1. CASE i = c.id
      <4>1. n.known[i] = o
        BY <1>10, <1>12, <3>1
      <4>2. n.call[o].id = i /\ o \in 0..o
        BY <1>8, <1>9, <1>12, <3>1
      <4> QED
        BY <4>1, <4>2
    <3>2. CASE i # c.id
      <4>1. n.known[i] = m.known[i]
        BY <1>10, <1>12, <3>2
      <4>2. m.known[i] \in 0..k /\ (m.known[i] # 0 => m.call[m.known[i]].id = i)
        BY <1>7
      <4>3. m.known[i] # 0 => m.known[i] \in 1..k
        BY <1>1, <4>2
      <4>4. m.known[i] # 0 => n.call[m.known[i]].id = i
        BY <1>9, <1>12, <4>2, <4>3
      <4> QED
        BY <1>8, <4>1, <4>2, <4>4
    <3> QED
      BY <3>1, <3>2
  <2> QED
    BY <1>11, <1>12, <1>13, <1>14, <2>1, <2>2 DEF Typed
<1> QED
  BY <1>4, <1>9, <1>10, <1>12, <1>13, <1>15 DEF rows, k, o

\* An object is added to those that are there.
LEMMA AddCallGrown ==
  ASSUME NEW m \in Typed, NEW c, Sane(c, Size(m))
  PROVE  addCall(m, c) \in Grown(m, {c.id})
<1> DEFINE n == addCall(m, c)
           k == Size(m)
           o == Size(m) + 1
<1> HIDE DEF n, k, o
<1>1. k \in Nat /\ \A p \in 1..k : m.call[p] \in Record(k)
  BY TypedFacts DEF k
<1>2. /\ n \in Typed /\ Size(n) = o
      /\ n.call[o] = c
      /\ \A p \in 1..k : n.call[p] = m.call[p]
      /\ \A i \in Ids : n.known[i] = IF i = c.id THEN o ELSE m.known[i]
      /\ n.started = m.started
  <2>1. /\ addCall(m, c) \in Typed /\ Size(addCall(m, c)) = Size(m) + 1
        /\ addCall(m, c).call[Size(m) + 1] = c
        /\ \A p \in 1..Size(m) : addCall(m, c).call[p] = m.call[p]
        /\ \A i \in Ids : addCall(m, c).known[i] = IF i = c.id THEN Size(m) + 1 ELSE m.known[i]
        /\ addCall(m, c).started = m.started
    BY AddCallFields
  <2> QED
    BY <2>1 DEF n, k, o
<1>3. c.id \in Ids \cup {""} /\ \A p \in 1..k : m.call[p].id \in Ids \cup {""}
  BY <1>1 DEF Sane, Record
<1>4. Unique(m) => \A p \in 1..k : m.call[p].id # "" => m.known[m.call[p].id] = p
  BY DEF Unique, k
<1>5a. k \in Nat /\ o = k + 1
  BY <1>1 DEF k, o
<1>5. 0 \notin 1..k /\ \A p \in 1..o : p = o \/ p \in 1..k
  BY <1>5a, Ranges
<1>6. Unique(m) /\ (\A i \in {c.id} \cap Ids : m.known[i] = 0) => Unique(n)
  <2> SUFFICES ASSUME Unique(m), \A i \in {c.id} \cap Ids : m.known[i] = 0,
                      NEW p \in 1..o, n.call[p].id # ""
               PROVE  n.known[n.call[p].id] = p
    BY <1>2 DEF Unique
  <2>1. CASE p = o
    BY <1>2, <1>3, <2>1
  <2>2. CASE p \in 1..k
    <3>1. n.call[p].id = m.call[p].id /\ m.call[p].id \in Ids /\ m.known[m.call[p].id] = p
      BY <1>2, <1>3, <1>4, <2>2
    <3>2. m.call[p].id # c.id
      BY <1>3, <1>5, <2>2, <3>1
    <3> QED
      BY <1>2, <3>1, <3>2
  <2> QED
    BY <1>5, <2>1, <2>2
<1> QED
  BY <1>2, <1>6 DEF Grown, n

\* What an action of the user does to the objects and to the daemon.
LEMMA PerformedFrom ==
  ASSUME NEW m \in Typed, NEW d \in Rings, NEW o \in 1..Size(m), NEW a \in {"ACCEPT", "REFUSE"}
  PROVE  Performed(m, d, o, a).model \in From(m) /\ Performed(m, d, o, a).ring \in After(d)
<1> DEFINE c == m.call[o]
           e == SetState(m, o, actionPerformedStateMap[c.state][a])
           miss == SetMissed(e, o)
           erred == SetState(miss, o, "ERROR")
           over == SetState(e, o, "OVER")
           gone == slotCallChanged(e, o)
           hung == IF IsConference(m, o) THEN HungUpConference(d, c.id) ELSE HungUp(d, c.id)
<1>1. c.state \in Reached /\ (IsConference(m, o) => c.id \in ConfId)
  <2>1. Sane(c, Size(m))
    BY TypedFacts
  <2> QED
    BY <2>1 DEF Sane, Record, IsConference
<1>2. actionPerformedStateMap[c.state][a] \in Reached \ {"DIALING"}
  BY <1>1, StatesReached
<1>3. e \in From(m)
  BY <1>2, SetStateFrom
<1>4. hung \in After(d) /\ d \in After(d) /\ Accepted(d, c.id) \in After(d)
  BY <1>1, RequestsAfter, HungUpConferenceAfter, AfterFacts
<1>5. /\ Performed(m, d, o, a).model \in {e, miss, erred, over, gone}
      /\ Performed(m, d, o, a).ring \in {d, hung, Accepted(d, c.id)}
  BY DEF Performed
<1> HIDE DEF c, e, hung
<1>6. e \in Typed /\ o \in 1..Size(e) /\ \A p \in From(e) : p \in From(m)
  BY <1>3, ThenFrom
<1>7. "ERROR" \in Reached \ {"DIALING"} /\ "OVER" \in Reached \ {"DIALING"}
  BY DEF Reached, State
<1>8. miss \in From(e) /\ over \in From(e) /\ gone \in From(e)
  BY <1>6, <1>7, MissedFrom, SetStateFrom, CallChangedFrom
<1> HIDE DEF miss, over, gone
<1>9. miss \in Typed /\ o \in 1..Size(miss) /\ \A p \in From(miss) : p \in From(e)
  BY <1>6, <1>8, ThenFrom
<1>10. erred \in From(miss)
  BY <1>7, <1>9, SetStateFrom
<1> HIDE DEF erred
<1> QED
  BY <1>3, <1>4, <1>5, <1>6, <1>8, <1>9, <1>10

\* The call of identifier i that a handler may add.
New(m, d, i) == IF Known(d, i) /\ m.known[i] = 0 THEN {i} ELSE {}

LEMMA AddIncomingCallGrown ==
  ASSUME NEW m \in Typed, NEW d \in Rings, NEW i \in CallId
  PROVE  LET r == addIncomingCall(m, d, i)
         IN  r.model \in Grown(m, New(m, d, i)) /\ r.ring \in After(d)
<1> DEFINE K == New(m, d, i)
           b == IF m.known[i] = 0 THEN addCall(m, NewCall("CALL", i, "INCOMING")) ELSE m
           a == IF m.answer = "AUTO_ANSWER" THEN "ACCEPT" ELSE "REFUSE"
           r == addIncomingCall(m, d, i)
<1>1. CASE m.known[i] = 0 /\ ~Known(d, i)
  <2>1. r = [model |-> m, ring |-> d]
    BY <1>1 DEF addIncomingCall
  <2> QED
    BY <2>1, FromIsGrown, AfterFacts
<1>2. CASE ~(m.known[i] = 0 /\ ~Known(d, i))
  <2>1. b \in Grown(m, K) /\ b \in Typed
    <3>1. CASE m.known[i] # 0
      BY <3>1, FromIsGrown
    <3>2. CASE m.known[i] = 0
      <4> DEFINE c == NewCall("CALL", i, "INCOMING")
      <4>1. i \in Ids /\ "INCOMING" \in Reached \ {"DIALING"}
        BY DEF Ids, Reached, State
      <4>2. Sane(c, Size(m)) /\ c.id = i
        BY <4>1, NewCallOfId
      <4> HIDE DEF c
      <4>3. addCall(m, c) \in Grown(m, {c.id})
        BY <3>2, <4>2, AddCallGrown
      <4>4. b = addCall(m, c) /\ K = {c.id}
        BY <1>2, <3>2, <4>1, <4>2 DEF c, New
      <4> QED
        BY <4>3, <4>4 DEF Grown
    <3> QED
      BY <3>1, <3>2
  <2>2. b.known[i] \in 1..Size(b)
    <3>1. m.known[i] = 0 => b.known[i] # 0
      <4> SUFFICES ASSUME m.known[i] = 0 PROVE b.known[i] # 0
        OBVIOUS
      <4> DEFINE c == NewCall("CALL", i, "INCOMING")
      <4>1. i \in Ids /\ "INCOMING" \in Reached \ {"DIALING"}
        BY DEF Ids, Reached, State
      <4>2. Sane(c, Size(m)) /\ c.id = i
        BY <4>1, NewCallOfId
      <4> HIDE DEF c
      <4>3. addCall(m, c).known[i] = Size(m) + 1
        BY <4>1, <4>2, AddCallFields
      <4>4. b = addCall(m, c) /\ Size(m) \in Nat
        BY TypedFacts DEF c
      <4> QED
        BY <4>3, <4>4, Ranges
    <3>1a. m.known[i] # 0 => b.known[i] # 0
      OBVIOUS
    <3> HIDE DEF b
    <3>2. b.known[i] \in 0..Size(b) /\ Size(b) \in Nat
      BY <2>1, TypedFacts DEF Ids
    <3> QED
      BY <3>1, <3>1a, <3>2, Ranges
  <2>3. a \in {"ACCEPT", "REFUSE"}
    OBVIOUS
  <2>4. \/ r.model = b /\ r.ring = d
        \/ r = Performed(b, d, b.known[i], a)
    BY <1>2 DEF addIncomingCall
  <2> HIDE DEF a, r, b, K
  <2>5. Performed(b, d, b.known[i], a).model \in From(b)
        /\ Performed(b, d, b.known[i], a).ring \in After(d)
    BY <2>1, <2>2, <2>3, PerformedFrom
  <2>6. \A p \in From(b) : p \in Grown(m, K)
    BY <2>1, GrownFrom
  <2> QED
    BY <2>1, <2>4, <2>5, <2>6, AfterFacts DEF r, K
<1> QED
  BY <1>1, <1>2

LEMMA AddExistingCallGrown ==
  ASSUME NEW m \in Typed, NEW d \in Rings, NEW i \in CallId
  PROVE  addExistingCall(m, d, i) \in Grown(m, IF Known(d, i) THEN {i} ELSE {})
<1> DEFINE s == StartState(d, i)
           c == NewCall("CALL", i, s)
<1>1. CASE ~Known(d, i)
  BY <1>1, FromIsGrown DEF addExistingCall
<1>2. CASE Known(d, i)
  <2>1. s \in Reached /\ s # "DIALING"
    BY <1>2 DEF StartState, Known, Alive, Reached, State
  <2> HIDE DEF s
  <2>3. Sane(c, Size(m)) /\ c.id = i
    BY <2>1, NewCallOfId
  <2>4. addExistingCall(m, d, i) = addCall(m, c)
    BY <1>2 DEF addExistingCall, s
  <2> HIDE DEF c
  <2>5. addCall(m, c) \in Grown(m, {c.id})
    BY <2>3, AddCallGrown
  <2> QED
    BY <1>2, <2>3, <2>4, <2>5
<1> QED
  BY <1>1, <1>2

-----------------------------------------------------------------------------
(* Conferences.                                                            *)

\* The fields of an object that make it the parent or the child of another.
LEMMA ChildrenFrom ==
  ASSUME NEW m \in Typed, NEW o \in 1..Size(m), NEW s \in Seq(1..Size(m)),
         m.call[o].type = "CONFERENCE" \/ s = <<>>
  PROVE  [m EXCEPT !.call[o].children = s] \in From(m)
<1> DEFINE r == [m.call[o] EXCEPT !.children = s]
<1>1. [m EXCEPT !.call[o].children = s] = Put(m, o, r)
  BY DEF Put
<1>2. Sane(m.call[o], Size(m))
  BY TypedFacts
<1>3. Sane(r, Size(m)) /\ r.id = m.call[o].id /\ r.type = m.call[o].type
      /\ r.state = m.call[o].state
  BY <1>2 DEF Sane, Record
<1> HIDE DEF r
<1> QED
  BY <1>1, <1>3, PutFields

LEMMA ParentFrom ==
  ASSUME NEW m \in Typed, NEW o \in 1..Size(m), NEW p \in 0..Size(m),
         m.call[o].type # "CONFERENCE" \/ p = 0
  PROVE  [m EXCEPT !.call[o].parent = p] \in From(m)
<1> DEFINE r == [m.call[o] EXCEPT !.parent = p]
<1>1. [m EXCEPT !.call[o].parent = p] = Put(m, o, r)
  BY DEF Put
<1>2. Sane(m.call[o], Size(m))
  BY TypedFacts
<1>3. Sane(r, Size(m)) /\ r.id = m.call[o].id /\ r.type = m.call[o].type
      /\ r.state = m.call[o].state
  BY <1>2 DEF Sane, Record
<1> HIDE DEF r
<1> QED
  BY <1>1, <1>3, PutFields

LEMMA ChildrenOf ==
  ASSUME NEW m \in Typed, NEW o \in 1..Size(m)
  PROVE  /\ m.call[o].children \in Seq(1..Size(m)) /\ m.call[o].parent \in 0..Size(m)
         /\ m.call[o].type # "CONFERENCE" => m.call[o].children = <<>>
         /\ m.call[o].type = "CONFERENCE" <=> m.call[o].id \in ConfId
BY TypedFacts DEF Sane, Record

\* The children that are in a set of objects.
LEMMA AmongChildren ==
  ASSUME NEW m \in Typed, NEW o \in 1..Size(m), NEW T
  PROVE  /\ Among(m.call[o].children, T) \in Seq(1..Size(m))
         /\ m.call[o].type # "CONFERENCE" => Among(m.call[o].children, T) = <<>>
<1> DEFINE s == m.call[o].children
           k == Size(m)
<1>1. s \in Seq(1..k) /\ (m.call[o].type # "CONFERENCE" => s = <<>>)
  BY ChildrenOf
<1> HIDE DEF s, k
<1>2. Among(s, T) \in Seq((1..k) \cap T)
  BY <1>1, AmongIsPart
<1>3. Among(s, T) \in Seq(1..k)
  BY <1>2, SeqMonotonic
<1>4. s = <<>> => Among(s, T) = <<>>
  <2> SUFFICES ASSUME s = <<>> PROVE Among(s, T) = <<>>
    OBVIOUS
  <2>1. s \in Seq({})
    BY EmptySeq
  <2>2. Among(s, T) \in Seq({} \cap T)
    BY <2>1, AmongIsPart
  <2> HIDE DEF s
  <2> QED
    BY <2>2
<1> QED
  BY <1>1, <1>3, <1>4 DEF s, k

LEMMA AdoptFrom ==
  ASSUME NEW m \in Typed, NEW o \in 1..Size(m), NEW c \in 1..Size(m),
         m.call[o].type = "CONFERENCE", m.call[c].type # "CONFERENCE"
  PROVE  Adopt(m, o, c) \in From(m)
<1> DEFINE k    == Size(m)
           p    == m.call[c].parent
           fewer == Among(m.call[p].children, DOMAIN m.call \ {c})
           left == IF p \in {0, o} THEN m ELSE [m EXCEPT !.call[p].children = fewer]
           kids == IF Contains(left.call[o].children, c) THEN left.call[o].children
                   ELSE Append(left.call[o].children, c)
           out  == removeInternal(left, c)
           told == [out EXCEPT !.call[c].parent = o]
           done == [told EXCEPT !.call[o].children = kids]
<1>1. left \in From(m)
  <2>1. CASE p \in {0, o}
    BY <2>1, KeptReflexive
  <2>2. CASE p \notin {0, o}
    <3>1. p \in 1..k
      <4>1. p \in 0..k /\ k \in Nat
        BY ChildrenOf, TypedFacts
      <4> HIDE DEF p, k
      <4> QED
        BY <2>2, <4>1, Ranges
    <3> HIDE DEF p
    <3>2. fewer \in Seq(1..k) /\ (m.call[p].type # "CONFERENCE" => fewer = <<>>)
      BY <3>1, AmongChildren
    <3> HIDE DEF fewer
    <3>3. [m EXCEPT !.call[p].children = fewer] \in From(m)
      BY <3>1, <3>2, ChildrenFrom
    <3> QED
      BY <2>2, <3>3
  <2> QED
    BY <2>1, <2>2
<1> HIDE DEF left
<1>2. /\ left \in Typed /\ Size(left) = k /\ left.call[o].type = "CONFERENCE"
      /\ left.call[c].type # "CONFERENCE" /\ \A n \in From(left) : n \in From(m)
  BY <1>1, ThenFrom
<1>3. kids \in Seq(1..k)
  <2> DEFINE s == left.call[o].children
  <2>1. s \in Seq(1..k) /\ c \in 1..k
    BY <1>2, ChildrenOf
  <2> HIDE DEF s, k
  <2>2. Append(s, c) \in Seq(1..k)
    BY <2>1, AppendProperties
  <2>3. kids \in {s, Append(s, c)}
    BY DEF s
  <2> HIDE DEF kids
  <2> QED
    BY <2>1, <2>2, <2>3
<1> HIDE DEF kids
<1>4. out \in From(left)
  BY <1>2, RestoredFrom
<1> HIDE DEF out
<1>5. /\ out \in Typed /\ Size(out) = k /\ out.call[o].type = "CONFERENCE"
      /\ out.call[c].type # "CONFERENCE" /\ \A n \in From(out) : n \in From(left)
  BY <1>2, <1>4, ThenFrom
<1>6. o \in 0..k
  OBVIOUS
<1>7. told \in From(out)
  BY <1>5, <1>6, ParentFrom
<1>8. Adopt(m, o, c) = done
  <2>1. Adopt(m, o, c) = [out EXCEPT !.call[c].parent = o, !.call[o].children = kids]
    BY DEF Adopt, left, out, kids
  <2> QED
    BY <2>1
<1> HIDE DEF told
<1>9. /\ told \in Typed /\ Size(told) = k /\ told.call[o].type = "CONFERENCE"
      /\ \A n \in From(told) : n \in From(out)
  BY <1>5, <1>7, ThenFrom
<1>10. done \in From(told)
  BY <1>3, <1>9, ChildrenFrom
<1> QED
  BY <1>2, <1>5, <1>8, <1>9, <1>10

\* What an identifier leads to.
LEMMA KnownObject ==
  ASSUME NEW m \in Typed, NEW i \in Ids, m.known[i] # 0
  PROVE  /\ m.known[i] \in 1..Size(m)
         /\ i \in CallId => m.call[m.known[i]].type # "CONFERENCE"
         /\ i \in ConfId => m.call[m.known[i]].type = "CONFERENCE"
<1> DEFINE o == m.known[i]
           k == Size(m)
<1>1. o \in 0..k /\ k \in Nat /\ m.call[o].id = i
  BY TypedFacts
<1>2. o # 0
  OBVIOUS
<1> HIDE DEF o, k
<1>3. o \in 1..k
  BY <1>1, <1>2, Ranges
<1>4. m.call[o].type = "CONFERENCE" <=> i \in ConfId
  BY <1>1, <1>3, ChildrenOf DEF k
<1> QED
  BY <1>3, <1>4, CallIdAssumption DEF o, k

AdoptKnown(m, o, i) == IF m.known[i] = 0 THEN m ELSE Adopt(m, o, m.known[i])

\* What the adoption of each participant keeps, that of them all keeps.  G tells what
\* is true when so many of them are adopted.
LEMMA AdoptAllReaches ==
  ASSUME NEW m, NEW o, NEW s \in Seq(CallId), NEW U, NEW G, m \in U, m \in G[0],
         \A x \in U, k \in 1..Len(s) : AdoptKnown(x, o, s[k]) \in U,
         \A x \in U, k \in 1..Len(s) : x \in G[k - 1] => AdoptKnown(x, o, s[k]) \in G[k]
  PROVE  AdoptAll(m, o, s) \in G[Len(s)] /\ AdoptAll(m, o, s) \in U
<1> DEFINE op(done, i) == AdoptKnown(done, o, i)
           n == Len(s)
           F == [p \in U \X (1..n) |-> op(p[1], s[p[2]])]
           IsFold(h) == h = [D \in SUBSET DOMAIN s |->
                               IF D = {} THEN m
                               ELSE op(h[D \ {Max(D)}], s[Max(D)])]
           it == CHOOSE h : IsFold(h)
<1>1. n \in Nat /\ DOMAIN s = 1..n /\ \A k \in 1..n : s[k] \in CallId
  OBVIOUS
<1>1a. AdoptAll(m, o, s) = FoldLeft(LAMBDA done, i : AdoptKnown(done, o, i), m, s)
  BY DEF AdoptAll, AdoptKnown
<1>2. \A x \in U, k \in 1..n :
        /\ F[<<x, k>>] = op(x, s[k]) /\ op(x, s[k]) \in U
        /\ x \in G[k - 1] => op(x, s[k]) \in G[k]
  OBVIOUS
<1> HIDE DEF F, op
<1>3. Stepped(n, U, G, m, F)
  BY <1>1, <1>2 DEF Stepped
<1>4. PICK h \in [SUBSET (1..n) -> U] : SequenceFoldsBy(h, n, U, m, F)
  BY <1>3, SequenceFoldExists
<1>5. IsFold(h)
  BY <1>1, <1>2, <1>4 DEF SequenceFoldsBy
<1>6. SUFFICES it[1..n] \in G[n] /\ it[1..n] \in U
  BY <1>1, <1>1a, SMTT(60) DEF FoldLeft, MapThenFoldSet, IsFold, op
<1>7. SequenceFoldsBy(it, n, U, m, F)
  <2> HIDE DEF IsFold
  <2>1. IsFold(it)
    BY <1>5
  <2>2. \A D \in SUBSET (1..n) : D # {} => Max(D) \in D
    BY <1>4 DEF SequenceFoldsBy
  <2>3. /\ it[{}] = m
        /\ \A D \in SUBSET (1..n) : D # {} => it[D] = op(it[D \ {Max(D)}], s[Max(D)])
    BY <1>1, <2>1 DEF IsFold
  <2> QED
    BY <1>2, <2>2, <2>3 DEF SequenceFoldsBy
<1> HIDE DEF IsFold, it
<1> QED
  BY <1>3, <1>7, SequenceFoldReaches

LEMMA AdoptAllFrom ==
  ASSUME NEW m \in Typed, NEW o \in 1..Size(m), m.call[o].type = "CONFERENCE",
         NEW s \in Seq(CallId)
  PROVE  AdoptAll(m, o, s) \in From(m)
<1> DEFINE U == From(m)
           G == [k \in 0..Len(s) |-> U]
<1>1. m \in U /\ \A k \in 0..Len(s) : G[k] = U
  BY KeptReflexive
<1>2. ASSUME NEW x \in U, NEW i \in CallId PROVE AdoptKnown(x, o, i) \in U
  <2> DEFINE c == x.known[i]
  <2>1. i \in Ids
    BY DEF Ids
  <2>2. x \in Typed /\ Size(x) = Size(m) /\ x.call[o].type = "CONFERENCE"
        /\ \A p \in From(x) : p \in From(m)
    BY ThenFrom
  <2>3. c # 0 => c \in 1..Size(x) /\ x.call[c].type # "CONFERENCE"
    BY <2>1, <2>2, KnownObject
  <2> HIDE DEF c
  <2>4. c # 0 => Adopt(x, o, c) \in From(x)
    BY <2>2, <2>3, AdoptFrom
  <2> QED
    BY <2>2, <2>4 DEF c, AdoptKnown
<1>3. Len(s) \in Nat /\ \A k \in 1..Len(s) : s[k] \in CallId
  OBVIOUS
<1> HIDE DEF U, G
<1>4. AdoptAll(m, o, s) \in U
  BY <1>1, <1>2, <1>3, AdoptAllReaches
<1> QED
  BY <1>4 DEF U

LEMMA ParticipantsAreCalls ==
  ASSUME NEW d \in Rings, NEW f \in ConfId
  PROVE  Participants(d, f) \in Seq(CallId)
<1>1. d.parts[f] \subseteq CallId
  BY DEF Rings
<1> DEFINE S == d.parts[f]
<1>2. IsFiniteSet(S)
  BY <1>1, CallIdAssumption, FS_Subset
<1> HIDE DEF S
<1>3. SetToSeq(S) \in Seq(S)
  BY <1>2, SequenceOfSet
<1>4. S \subseteq CallId
  BY <1>1 DEF S
<1>5. SetToSeq(S) \in Seq(CallId)
  BY <1>3, <1>4, SeqMonotonic
<1> QED
  BY <1>5 DEF Participants, S

LEMMA AddConferenceGrown ==
  ASSUME NEW m \in Typed, NEW d \in Rings, NEW f \in ConfId
  PROVE  addConference(m, d, f) \in Grown(m, {f})
<1>1. CASE NoAccount(m, d, f)
  BY <1>1, FromIsGrown DEF addConference
<1>2. CASE ~NoAccount(m, d, f)
  <2> DEFINE c == NewCall("CONFERENCE", f, "CONFERENCE")
             added == addCall(m, c)
             o == added.known[f]
             ids == Participants(d, f)
  <2>1. Sane(c, Size(m)) /\ c.id = f /\ c.type = "CONFERENCE"
    BY NewConference
  <2>2. addConference(m, d, f) = AdoptAll(added, o, ids)
    BY <1>2 DEF addConference
  <2>3. ids \in Seq(CallId) /\ f \in Ids
    BY ParticipantsAreCalls DEF Ids
  <2> HIDE DEF c, ids
  <2>4. added \in Typed /\ o = Size(m) + 1
    BY <2>1, <2>3, AddCallFields
  <2>5. added \in Grown(m, {f})
    BY <2>1, AddCallGrown
  <2>6. o # 0
    BY <2>4, TypedFacts, Ranges
  <2> HIDE DEF added
  <2>7. o \in 1..Size(added) /\ added.call[o].type = "CONFERENCE"
    BY <2>3, <2>4, <2>6, KnownObject
  <2> HIDE DEF o
  <2>8. AdoptAll(added, o, ids) \in From(added)
    BY <2>3, <2>4, <2>7, AdoptAllFrom
  <2> QED
    BY <2>2, <2>5, <2>8, GrownFrom
<1> QED
  BY <1>1, <1>2

Freed(m, c) == [m EXCEPT !.call[c].parent = 0]

AllFreed(m, s) ==
  FoldLeft(LAMBDA done, c : [done EXCEPT !.call[c].parent = 0], m, s)

\* What it keeps that each child loses its parent, it keeps that all do.
LEMMA FreedReaches ==
  ASSUME NEW m, NEW S, NEW s \in Seq(S), NEW U, m \in U,
         \A x \in U, c \in S : Freed(x, c) \in U
  PROVE  AllFreed(m, s) \in U
<1> DEFINE op(done, c) == Freed(done, c)
           it0 == FoldLeft(LAMBDA done, c : [done EXCEPT !.call[c].parent = 0], m, s)
           n == Len(s)
           G == [k \in 0..n |-> U]
           F == [p \in U \X (1..n) |-> op(p[1], s[p[2]])]
           IsFold(h) == h = [D \in SUBSET DOMAIN s |->
                               IF D = {} THEN m
                               ELSE op(h[D \ {Max(D)}], s[Max(D)])]
           it == CHOOSE h : IsFold(h)
<1>1. n \in Nat /\ DOMAIN s = 1..n /\ \A k \in 1..n : s[k] \in S
  OBVIOUS
<1>1a. it0 = FoldLeft(LAMBDA done, c : Freed(done, c), m, s)
  BY DEF Freed
<1>1b. SUFFICES it0 \in U
  BY DEF AllFreed
<1> HIDE DEF it0
<1>2. \A x \in U, k \in 1..n : F[<<x, k>>] = op(x, s[k]) /\ op(x, s[k]) \in U
  BY <1>1
<1>2a. m \in U /\ \A k \in 0..n : G[k] = U
  OBVIOUS
<1> HIDE DEF F, G, op
<1>3. Stepped(n, U, G, m, F)
  BY <1>1, <1>2, <1>2a DEF Stepped
<1>4. PICK h \in [SUBSET (1..n) -> U] : SequenceFoldsBy(h, n, U, m, F)
  BY <1>3, SequenceFoldExists
<1>5. IsFold(h)
  BY <1>1, <1>2, <1>4 DEF SequenceFoldsBy
<1>6. SUFFICES it[1..n] \in G[n]
  BY <1>1, <1>1a, <1>2a, SMTT(60) DEF FoldLeft, MapThenFoldSet, IsFold, op
<1>7. SequenceFoldsBy(it, n, U, m, F)
  <2> HIDE DEF IsFold
  <2>1. IsFold(it)
    BY <1>5
  <2>2. \A D \in SUBSET (1..n) : D # {} => Max(D) \in D
    BY <1>4 DEF SequenceFoldsBy
  <2>3. /\ it[{}] = m
        /\ \A D \in SUBSET (1..n) : D # {} => it[D] = op(it[D \ {Max(D)}], s[Max(D)])
    BY <1>1, <2>1 DEF IsFold
  <2> QED
    BY <1>2, <2>2, <2>3 DEF SequenceFoldsBy
<1> HIDE DEF IsFold, it
<1> QED
  BY <1>3, <1>7, SequenceFoldReaches

LEMMA FreedFrom ==
  ASSUME NEW m \in Typed, NEW s \in Seq(1..Size(m))
  PROVE  AllFreed(m, s) \in From(m)
<1> DEFINE U == From(m)
           S == 1..Size(m)
<1>1. m \in U /\ s \in Seq(S)
  BY KeptReflexive
<1>2. ASSUME NEW x \in U, NEW c \in S PROVE Freed(x, c) \in U
  <2>1. x \in Typed /\ Size(x) = Size(m) /\ \A p \in From(x) : p \in From(m)
    BY ThenFrom
  <2>2. 0 \in 0..Size(x)
    BY <2>1, TypedFacts, Ranges
  <2>3. [x EXCEPT !.call[c].parent = 0] \in From(x)
    BY <2>1, <2>2, ParentFrom
  <2> QED
    BY <2>1, <2>3 DEF Freed
<1> HIDE DEF U, S
<1>3. AllFreed(m, s) \in U
  BY <1>1, <1>2, FreedReaches
<1> QED
  BY <1>3 DEF U

LEMMA DropChildrenFrom ==
  ASSUME NEW m \in Typed, NEW o \in 1..Size(m), NEW ids
  PROVE  DropChildren(m, o, ids) \in From(m)
<1> DEFINE back == Among(m.call[o].children,
                         {c \in DOMAIN m.call : m.call[c].id \notin ToSet(ids)
                                                  /\ LifeCycle(m, c) # "FINISHED"})
           freed == AllFreed(m, back)
           rows == freed.rows \o back
           listed == [freed EXCEPT !.rows = rows]
           done == [listed EXCEPT !.call[o].children = <<>>]
<1>1. back \in Seq(1..Size(m))
  BY AmongChildren
<1>2. DropChildren(m, o, ids) = [freed EXCEPT !.rows = @ \o back, !.call[o].children = <<>>]
  BY DEF DropChildren, AllFreed
<1> HIDE DEF back
<1>3. freed \in From(m)
  BY <1>1, FreedFrom
<1> HIDE DEF freed
<1>4. freed \in Typed /\ Size(freed) = Size(m) /\ \A p \in From(freed) : p \in From(m)
  BY <1>3, ThenFrom
<1>5. freed.rows \in Seq(1..Size(m))
  BY <1>4, TypedFacts
<1>6. rows \in Seq(1..Size(freed))
  BY <1>1, <1>4, <1>5, ConcatProperties
<1>7. DropChildren(m, o, ids) = done
  BY <1>2
<1> HIDE DEF rows
<1>8. listed \in From(freed)
  BY <1>4, <1>6, ListsFields
<1> HIDE DEF listed
<1>9. listed \in Typed /\ Size(listed) = Size(m) /\ \A p \in From(listed) : p \in From(freed)
  BY <1>4, <1>8, ThenFrom
<1>10. <<>> \in Seq(1..Size(listed))
  BY EmptySeq
<1>11. done \in From(listed)
  BY <1>9, <1>10, ChildrenFrom
<1> QED
  BY <1>4, <1>7, <1>9, <1>11

LEMMA ReconcileFrom ==
  ASSUME NEW m \in Typed, NEW d \in Rings, NEW i \in CallId
  PROVE  Reconcile(m, d, i) \in From(m)
<1> DEFINE c    == m.known[i]
           f    == CHOOSE f \in ConferencesOf(d, i) : TRUE
           conf == IF ConferencesOf(d, i) = {} THEN 0 ELSE m.known[f]
           kids == IF Contains(m.call[conf].children, c) THEN m.call[conf].children
                   ELSE Append(m.call[conf].children, c)
           freed == [m EXCEPT !.call[c].parent = 0]
           left == removeInternal(m, c)
           done == [left EXCEPT !.call[conf].children = kids]
<1>1. Reconcile(m, d, i) \in {m} \cup (IF c # 0 THEN {freed} ELSE {})
                              \cup (IF c # 0 /\ conf # 0 THEN {done} ELSE {})
  BY DEF Reconcile
<1>2. i \in Ids
  BY DEF Ids
<1>3. c # 0 => c \in 1..Size(m)
  BY <1>2, KnownObject
<1>4. conf # 0 => conf \in 1..Size(m) /\ m.call[conf].type = "CONFERENCE"
  <2> SUFFICES ASSUME conf # 0 PROVE conf \in 1..Size(m) /\ m.call[conf].type = "CONFERENCE"
    OBVIOUS
  <2>1. ConferencesOf(d, i) # {} /\ conf = m.known[f]
    OBVIOUS
  <2>2. f \in ConfId
    BY <2>1 DEF ConferencesOf
  <2> HIDE DEF conf, f
  <2> QED
    BY <2>1, <2>2, KnownObject DEF Ids
<1> HIDE DEF c, conf, f
<1>5. c # 0 => freed \in From(m)
  <2>1. 0 \in 0..Size(m)
    BY TypedFacts, Ranges
  <2> QED
    BY <1>3, <2>1, ParentFrom
<1>6. ASSUME c # 0, conf # 0 PROVE done \in From(m)
  <2> DEFINE s == m.call[conf].children
             k == Size(m)
  <2>1. s \in Seq(1..k) /\ c \in 1..k
    BY <1>3, <1>4, <1>6, ChildrenOf
  <2>2. left \in From(m)
    BY <1>3, <1>6, RestoredFrom
  <2> HIDE DEF s, k
  <2>3. Append(s, c) \in Seq(1..k)
    BY <2>1, AppendProperties
  <2>4. kids \in {s, Append(s, c)}
    BY DEF s
  <2> HIDE DEF kids, left
  <2>5. kids \in Seq(1..k)
    BY <2>1, <2>3, <2>4
  <2>6. /\ left \in Typed /\ Size(left) = Size(m) /\ left.call[conf].type = "CONFERENCE"
        /\ \A p \in From(left) : p \in From(m)
    BY <1>4, <1>6, <2>2, ThenFrom
  <2>7. done \in From(left)
    BY <1>4, <1>6, <2>5, <2>6, ChildrenFrom DEF k
  <2> QED
    BY <2>6, <2>7
<1> QED
  BY <1>1, <1>5, <1>6, KeptReflexive

AllReconciled(m, d) ==
  FoldLeft(LAMBDA done, i : Reconcile(done, d, i), m, SetToSeq(CallId))

\* What each call that is compared with the daemon keeps, they all keep.
LEMMA ReconciledReaches ==
  ASSUME NEW m, NEW d, NEW U, m \in U,
         \A x \in U, i \in CallId : Reconcile(x, d, i) \in U
  PROVE  AllReconciled(m, d) \in U
<1> DEFINE op(done, i) == Reconcile(done, d, i)
           s == SetToSeq(CallId)
           it0 == FoldLeft(LAMBDA done, i : Reconcile(done, d, i), m, s)
           n == Len(s)
           G == [k \in 0..n |-> U]
           F == [p \in U \X (1..n) |-> op(p[1], s[p[2]])]
           IsFold(h) == h = [D \in SUBSET DOMAIN s |->
                               IF D = {} THEN m
                               ELSE op(h[D \ {Max(D)}], s[Max(D)])]
           it == CHOOSE h : IsFold(h)
<1>1. n \in Nat /\ DOMAIN s = 1..n /\ \A k \in 1..n : s[k] \in CallId
  <2>1. s \in Seq(CallId)
    BY CallIdAssumption, SequenceOfSet
  <2> HIDE DEF s
  <2> QED
    BY <2>1
<1>1a. it0 = FoldLeft(LAMBDA done, i : Reconcile(done, d, i), m, s)
  OBVIOUS
<1>1b. SUFFICES it0 \in U
  BY DEF AllReconciled
<1> HIDE DEF it0, s
<1>2. \A x \in U, k \in 1..n : F[<<x, k>>] = op(x, s[k]) /\ op(x, s[k]) \in U
  BY <1>1
<1>2a. m \in U /\ \A k \in 0..n : G[k] = U
  OBVIOUS
<1> HIDE DEF F, G, op
<1>3. Stepped(n, U, G, m, F)
  BY <1>1, <1>2, <1>2a DEF Stepped
<1>4. PICK h \in [SUBSET (1..n) -> U] : SequenceFoldsBy(h, n, U, m, F)
  BY <1>3, SequenceFoldExists
<1>5. IsFold(h)
  BY <1>1, <1>2, <1>4 DEF SequenceFoldsBy
<1>6. SUFFICES it[1..n] \in G[n]
  BY <1>1, <1>1a, <1>2a, SMTT(60) DEF FoldLeft, MapThenFoldSet, IsFold, op
<1>7. SequenceFoldsBy(it, n, U, m, F)
  <2> HIDE DEF IsFold
  <2>1. IsFold(it)
    BY <1>5
  <2>2. \A D \in SUBSET (1..n) : D # {} => Max(D) \in D
    BY <1>4 DEF SequenceFoldsBy
  <2>3. /\ it[{}] = m
        /\ \A D \in SUBSET (1..n) : D # {} => it[D] = op(it[D \ {Max(D)}], s[Max(D)])
    BY <1>1, <2>1 DEF IsFold
  <2> QED
    BY <1>2, <2>2, <2>3 DEF SequenceFoldsBy
<1> HIDE DEF IsFold, it
<1> QED
  BY <1>3, <1>7, SequenceFoldReaches

LEMMA ReconciledFrom ==
  ASSUME NEW m \in Typed, NEW d \in Rings
  PROVE  AllReconciled(m, d) \in From(m)
<1> DEFINE U == From(m)
<1>1. m \in U
  BY KeptReflexive
<1>2. ASSUME NEW x \in U, NEW i \in CallId PROVE Reconcile(x, d, i) \in U
  <2>1. x \in Typed /\ \A p \in From(x) : p \in From(m)
    BY ThenFrom
  <2>2. Reconcile(x, d, i) \in From(x)
    BY <2>1, ReconcileFrom
  <2> QED
    BY <2>1, <2>2
<1> HIDE DEF U
<1>3. AllReconciled(m, d) \in U
  BY <1>1, <1>2, ReconciledReaches
<1> QED
  BY <1>3 DEF U

LEMMA ChangingConferenceFrom ==
  ASSUME NEW m \in Typed, NEW d \in Rings, NEW f \in ConfId
  PROVE  slotChangingConference(m, d, f) \in From(m)
<1> DEFINE o       == m.known[f]
           ids     == Participants(d, f)
           stated  == [m EXCEPT !.call[o].state = "CONFERENCE"]
           changed == DropChildren(stated, o, ids)
           adopted == AdoptAll(changed, o, ids)
           swept   == IF \E r \in ToSet(adopted.rows) :
                           IsConference(adopted, r) /\ adopted.call[r].children = <<>>
                      THEN Sweep(adopted) ELSE adopted
           done    == AllReconciled(swept, d)
<1>1. CASE o = 0 \/ ~Contains(m.rows, o)
  <2>1. slotChangingConference(m, d, f) = m
    BY <1>1 DEF slotChangingConference
  <2> QED
    BY <2>1, KeptReflexive
<1>2. CASE ~(o = 0 \/ ~Contains(m.rows, o))
  <2>1. slotChangingConference(m, d, f) = done
    BY <1>2 DEF slotChangingConference, AllReconciled
  <2>2. o \in 1..Size(m) /\ m.call[o].type = "CONFERENCE"
    BY <1>2, KnownObject DEF Ids
  <2>3. ids \in Seq(CallId)
    BY ParticipantsAreCalls
  <2>4. "CONFERENCE" \in Reached \ {"DIALING"}
    BY DEF Reached, State
  <2> HIDE DEF o, ids
  <2>5. stated \in From(m)
    BY <2>2, <2>4, StateFrom
  <2> HIDE DEF stated
  <2>6. /\ stated \in Typed /\ o \in 1..Size(stated) /\ stated.call[o].type = "CONFERENCE"
        /\ \A p \in From(stated) : p \in From(m)
    BY <2>2, <2>5, ThenFrom
  <2>7. changed \in From(stated)
    BY <2>6, DropChildrenFrom
  <2> HIDE DEF changed
  <2>8. /\ changed \in Typed /\ o \in 1..Size(changed) /\ changed.call[o].type = "CONFERENCE"
        /\ \A p \in From(changed) : p \in From(m)
    BY <2>6, <2>7, ThenFrom
  <2>9. adopted \in From(changed)
    BY <2>3, <2>8, AdoptAllFrom
  <2> HIDE DEF adopted
  <2>10. adopted \in Typed /\ \A p \in From(adopted) : p \in From(m)
    BY <2>8, <2>9, ThenFrom
  <2>11. swept \in From(adopted)
    BY <2>10, SweepFrom, KeptReflexive
  <2> HIDE DEF swept
  <2>12. swept \in Typed /\ \A p \in From(swept) : p \in From(m)
    BY <2>10, <2>11, ThenFrom
  <2>13. done \in From(swept)
    BY <2>12, ReconciledFrom
  <2> QED
    BY <2>1, <2>12, <2>13
<1> QED
  BY <1>1, <1>2

LEMMA CrashGrown ==
  ASSUME NEW m \in Typed, NEW K
  PROVE  Crash(m) \in Grown(m, K)
<1> DEFINE n == [m EXCEPT !.crashed = TRUE]
<1>1. /\ n \in Models /\ n.call = m.call /\ n.rows = m.rows /\ n.known = m.known
      /\ n.checks = m.checks /\ n.removals = m.removals /\ n.started = m.started
  BY TypedFacts DEF Models
<1> HIDE DEF n
<1>2. Size(n) = Size(m)
  BY <1>1 DEF Size
<1>3. n \in Typed
  BY <1>1, <1>2, TypedFacts DEF Typed
<1>4. Unique(m) => Unique(n)
  BY <1>1, <1>2 DEF Unique
<1> QED
  BY <1>1, <1>3, <1>4 DEF Crash, Grown, n

\* What a signal does to the objects and to the daemon.
LEMMA CallStateChangedGrown ==
  ASSUME NEW m \in Typed, NEW d \in Rings, NEW i \in CallId, NEW s \in DaemonReports
  PROVE  LET r == slotCallStateChanged(m, d, i, s)
         IN  r.model \in Grown(m, New(m, d, i)) /\ r.ring \in After(d)
<1> DEFINE r == slotCallStateChanged(m, d, i, s)
           K == New(m, d, i)
<1>1. \/ m.known[i] # 0 /\ r = [model |-> CallStateChanged(m, m.known[i], s), ring |-> d]
      \/ m.known[i] = 0 /\ r = [model |-> m, ring |-> d]
      \/ m.known[i] = 0 /\ r = addIncomingCall(m, d, i)
      \/ m.known[i] = 0 /\ r = [model |-> addExistingCall(m, d, i), ring |-> d]
  BY DEF slotCallStateChanged
<1> HIDE DEF r, K
<1>2. CASE m.known[i] # 0 /\ r = [model |-> CallStateChanged(m, m.known[i], s), ring |-> d]
  <2>1. m.known[i] \in 1..Size(m)
    BY <1>2, KnownObject DEF Ids
  <2>2. CallStateChanged(m, m.known[i], s) \in Grown(m, K)
    BY <2>1, CallStateChangedFrom, FromIsGrown
  <2> QED
    BY <1>2, <2>2, AfterFacts DEF r, K
<1>3. CASE r = [model |-> m, ring |-> d]
  BY <1>3, FromIsGrown, AfterFacts DEF r, K
<1>4. CASE r = addIncomingCall(m, d, i)
  BY <1>4, AddIncomingCallGrown DEF r, K
<1>5. CASE m.known[i] = 0 /\ r = [model |-> addExistingCall(m, d, i), ring |-> d]
  <2>1. addExistingCall(m, d, i) \in Grown(m, K)
    <3>1. K = IF Known(d, i) THEN {i} ELSE {}
      BY <1>5 DEF K, New
    <3> QED
      BY <3>1, AddExistingCallGrown
  <2> QED
    BY <1>5, <2>1, AfterFacts DEF r, K
<1> QED
  BY <1>1, <1>2, <1>3, <1>4, <1>5

\* The objects that a signal may add: a call that the daemon has, or a conference.
Added(m, d, e) ==
  IF e.id \in ConfId /\ m.known[e.id] = 0 THEN {e.id} ELSE New(m, d, e.id)

LEMMA DeliveredGrown ==
  ASSUME NEW m \in Typed, NEW d \in Rings, NEW e \in Signals
  PROVE  Delivered(m, d, e).model \in Grown(m, Added(m, d, e)) /\ Delivered(m, d, e).ring \in After(d)
<1> DEFINE r == Delivered(m, d, e)
<1>1. CASE e.signal = "callStateChanged"
  <2>1. e.id \in CallId /\ e.state \in DaemonReports /\ e.id \notin ConfId
    BY <1>1, CallIdAssumption DEF Signals
  <2>2. r = slotCallStateChanged(m, d, e.id, e.state)
    BY <1>1 DEF Delivered
  <2> QED
    BY <2>1, <2>2, CallStateChangedGrown DEF Added
<1>2. CASE e.signal = "incomingCall"
  <2>1. e.id \in CallId /\ e.id \notin ConfId
    BY <1>2, CallIdAssumption DEF Signals
  <2>2. r = addIncomingCall(m, d, e.id)
    BY <1>2 DEF Delivered
  <2> QED
    BY <2>1, <2>2, AddIncomingCallGrown DEF Added
<1>3. ASSUME e.signal \in {"conferenceCreated", "conferenceChanged", "conferenceRemoved"}
      PROVE  e.id \in ConfId /\ (m.known[e.id] = 0 => Added(m, d, e) = {e.id})
  BY <1>3 DEF Signals, Added
<1>4. CASE e.signal = "conferenceCreated"
  <2>1. r = [model |-> slotIncomingConference(m, d, e.id), ring |-> d]
    BY <1>4 DEF Delivered
  <2>2. \/ slotIncomingConference(m, d, e.id) \in {m, Crash(m)}
        \/ m.known[e.id] = 0 /\ slotIncomingConference(m, d, e.id) = addConference(m, d, e.id)
    BY DEF slotIncomingConference
  <2>3. m \in Grown(m, Added(m, d, e)) /\ Crash(m) \in Grown(m, Added(m, d, e))
    BY FromIsGrown, CrashGrown
  <2>4. slotIncomingConference(m, d, e.id) \in Grown(m, Added(m, d, e))
    BY <1>3, <1>4, <2>2, <2>3, AddConferenceGrown
  <2> QED
    BY <1>3, <1>4, <2>1, <2>4, AfterFacts
<1>5. CASE e.signal = "conferenceChanged"
  <2>1. r = [model |-> slotChangingConference(m, d, e.id), ring |-> d]
    BY <1>5 DEF Delivered
  <2>2. slotChangingConference(m, d, e.id) \in Grown(m, Added(m, d, e))
    BY <1>3, <1>5, ChangingConferenceFrom, FromIsGrown
  <2> QED
    BY <1>3, <1>5, <2>1, <2>2, AfterFacts
<1>6. CASE e.signal = "conferenceRemoved"
  <2>1. r = [model |-> slotConferenceRemoved(m, e.id), ring |-> d]
    BY <1>6 DEF Delivered
  <2>2. m.known[e.id] # 0 => m.known[e.id] \in 1..Size(m)
    BY <1>3, <1>6, KnownObject DEF Ids
  <2>3. slotConferenceRemoved(m, e.id) \in Grown(m, Added(m, d, e))
    BY <2>2, CrashGrown, RemoveConferenceFrom, FromIsGrown DEF slotConferenceRemoved
  <2> QED
    BY <1>3, <1>6, <2>1, <2>3, AfterFacts
<1> QED
  BY <1>1, <1>2, <1>4, <1>5, <1>6 DEF Signals

\* Folds over a set of identifiers, by what they have done.
AddedCalls(m, d, E) == FoldLeft(LAMBDA x, i : addExistingCall(x, d, i), m, SetToSeq(E))

LEMMA AddedCallsReach ==
  ASSUME NEW d, NEW E, NEW U, NEW G, NEW m,
         Graded(E, U, G, m, [p \in U \X E |-> addExistingCall(p[1], d, p[2])])
  PROVE  AddedCalls(m, d, E) \in G[E]
<1> DEFINE F == [p \in U \X E |-> addExistingCall(p[1], d, p[2])]
           s == SetToSeq(E)
           n == Len(s)
           IsFold(h) == h = [T \in SUBSET DOMAIN s |->
                               IF T = {} THEN m
                               ELSE addExistingCall(h[T \ {Max(T)}], d, s[Max(T)])]
           it == CHOOSE h : IsFold(h)
<1>1. Graded(E, U, G, m, F)
      /\ \A x \in U, e \in E : F[<<x, e>>] = addExistingCall(x, d, e)
  OBVIOUS
<1>2. s \in Seq(E) /\ n \in Nat /\ DOMAIN s = 1..n
  BY <1>1, SequenceOfSet DEF Graded
<1> HIDE DEF F
<1>3. PICK h \in [SUBSET DOMAIN s -> U] : SetFolds(h, E, U, m, F)
  BY <1>1, SetFoldExists
<1>4. IsFold(h)
  BY <1>1, <1>3 DEF SetFolds
<1>5. SUFFICES it[1..n] \in G[E]
  BY <1>2 DEF AddedCalls, FoldLeft, MapThenFoldSet, IsFold
<1>6. SetFolds(it, E, U, m, F)
  <2> HIDE DEF IsFold
  <2>1. IsFold(it)
    BY <1>4
  <2>2. /\ it[{}] = m
        /\ \A T \in SUBSET DOMAIN s : T # {} =>
             it[T] = addExistingCall(it[T \ {Max(T)}], d, s[Max(T)])
    BY <2>1 DEF IsFold
  <2>3. \A T \in SUBSET DOMAIN s : T # {} => s[Max(T)] \in E
    BY <1>3 DEF SetFolds
  <2> QED
    BY <1>1, <2>2, <2>3 DEF SetFolds
<1> HIDE DEF IsFold, it
<1> QED
  BY <1>1, <1>6, SetFoldReaches

AddedConferences(m, d, E) == FoldLeft(LAMBDA x, f : addConference(x, d, f), m, SetToSeq(E))

LEMMA AddedConferencesReach ==
  ASSUME NEW d, NEW E, NEW U, NEW G, NEW m,
         Graded(E, U, G, m, [p \in U \X E |-> addConference(p[1], d, p[2])])
  PROVE  AddedConferences(m, d, E) \in G[E]
<1> DEFINE F == [p \in U \X E |-> addConference(p[1], d, p[2])]
           s == SetToSeq(E)
           n == Len(s)
           IsFold(h) == h = [T \in SUBSET DOMAIN s |->
                               IF T = {} THEN m
                               ELSE addConference(h[T \ {Max(T)}], d, s[Max(T)])]
           it == CHOOSE h : IsFold(h)
<1>1. Graded(E, U, G, m, F)
      /\ \A x \in U, e \in E : F[<<x, e>>] = addConference(x, d, e)
  OBVIOUS
<1>2. s \in Seq(E) /\ n \in Nat /\ DOMAIN s = 1..n
  BY <1>1, SequenceOfSet DEF Graded
<1> HIDE DEF F
<1>3. PICK h \in [SUBSET DOMAIN s -> U] : SetFolds(h, E, U, m, F)
  BY <1>1, SetFoldExists
<1>4. IsFold(h)
  BY <1>1, <1>3 DEF SetFolds
<1>5. SUFFICES it[1..n] \in G[E]
  BY <1>2 DEF AddedConferences, FoldLeft, MapThenFoldSet, IsFold
<1>6. SetFolds(it, E, U, m, F)
  <2> HIDE DEF IsFold
  <2>1. IsFold(it)
    BY <1>4
  <2>2. /\ it[{}] = m
        /\ \A T \in SUBSET DOMAIN s : T # {} =>
             it[T] = addConference(it[T \ {Max(T)}], d, s[Max(T)])
    BY <2>1 DEF IsFold
  <2>3. \A T \in SUBSET DOMAIN s : T # {} => s[Max(T)] \in E
    BY <1>3 DEF SetFolds
  <2> QED
    BY <1>1, <2>2, <2>3 DEF SetFolds
<1> HIDE DEF IsFold, it
<1> QED
  BY <1>1, <1>6, SetFoldReaches

\* What the timer of init() makes of the model.
LEMMA AddedCallsGrown ==
  ASSUME NEW m \in Typed, NEW d \in Rings, NEW E \in SUBSET CallId, \A i \in E : Known(d, i)
  PROVE  AddedCalls(m, d, E) \in Grown(m, E)
<1> DEFINE G == [D \in SUBSET E |-> Grown(m, D)]
           F == [p \in Typed \X E |-> addExistingCall(p[1], d, p[2])]
<1>1. \A D \in SUBSET E : G[D] \subseteq Typed /\ G[D] = Grown(m, D)
  BY DEF Grown
<1>2. m \in G[{}]
  BY <1>1, FromIsGrown
<1>3. ASSUME NEW D \in SUBSET E, NEW i \in E \ D, NEW x \in G[D]
      PROVE  F[<<x, i>>] \in G[D \cup {i}]
  <2>1. x \in Typed /\ x \in Grown(m, D) /\ Known(d, i) /\ i \in CallId
    BY <1>1
  <2>2. addExistingCall(x, d, i) \in Grown(x, {i})
    BY <2>1, AddExistingCallGrown
  <2>3. addExistingCall(x, d, i) \in Grown(m, D \cup {i})
    BY <2>1, <2>2, GrownThen
  <2>4. F[<<x, i>>] = addExistingCall(x, d, i) /\ D \cup {i} \in SUBSET E
    BY <2>1
  <2> QED
    BY <1>1, <2>3, <2>4
<1>4. IsFiniteSet(E)
  BY CallIdAssumption, FS_Subset
<1>5. Graded(E, Typed, G, m, F)
  <2> HIDE DEF G, F
  <2> QED
    BY <1>1, <1>2, <1>3, <1>4 DEF Graded
<1>6. AddedCalls(m, d, E) \in G[E]
  <2> HIDE DEF G
  <2> QED
    BY <1>5, AddedCallsReach
<1> QED
  BY <1>6

LEMMA AddedConferencesGrown ==
  ASSUME NEW m \in Typed, NEW d \in Rings, NEW E \in SUBSET ConfId
  PROVE  AddedConferences(m, d, E) \in Grown(m, E)
<1> DEFINE G == [D \in SUBSET E |-> Grown(m, D)]
           F == [p \in Typed \X E |-> addConference(p[1], d, p[2])]
<1>1. \A D \in SUBSET E : G[D] \subseteq Typed /\ G[D] = Grown(m, D)
  BY DEF Grown
<1>2. m \in G[{}]
  BY <1>1, FromIsGrown
<1>3. ASSUME NEW D \in SUBSET E, NEW i \in E \ D, NEW x \in G[D]
      PROVE  F[<<x, i>>] \in G[D \cup {i}]
  <2>1. x \in Typed /\ x \in Grown(m, D) /\ i \in ConfId
    BY <1>1
  <2>2. addConference(x, d, i) \in Grown(x, {i})
    BY <2>1, AddConferenceGrown
  <2>3. addConference(x, d, i) \in Grown(m, D \cup {i})
    BY <2>1, <2>2, GrownThen
  <2>4. F[<<x, i>>] = addConference(x, d, i) /\ D \cup {i} \in SUBSET E
    BY <2>1
  <2> QED
    BY <1>1, <2>3, <2>4
<1>4. IsFiniteSet(E)
  BY CallIdAssumption, FS_Subset
<1>5. Graded(E, Typed, G, m, F)
  <2> HIDE DEF G, F
  <2> QED
    BY <1>1, <1>2, <1>3, <1>4 DEF Graded
<1>6. AddedConferences(m, d, E) \in G[E]
  <2> HIDE DEF G
  <2> QED
    BY <1>5, AddedConferencesReach
<1> QED
  BY <1>6

LEMMA StartedFields ==
  ASSUME NEW m \in Typed
  PROVE  LET n == [m EXCEPT !.started = TRUE]
         IN  n \in Typed /\ n.started /\ n.known = m.known /\ (Unique(m) => Unique(n))
<1> DEFINE n == [m EXCEPT !.started = TRUE]
<1>1. /\ n \in Models /\ n.call = m.call /\ n.rows = m.rows /\ n.known = m.known
      /\ n.checks = m.checks /\ n.removals = m.removals /\ n.started
  BY TypedFacts DEF Models
<1> HIDE DEF n
<1>2. Size(n) = Size(m)
  BY <1>1 DEF Size
<1>3. n \in Typed
  BY <1>1, <1>2, TypedFacts DEF Typed
<1>4. Unique(m) => Unique(n)
  BY <1>1, <1>2 DEF Unique
<1> QED
  BY <1>1, <1>3, <1>4 DEF n

\* An object that is being dialed is given its identifier.
Placed(m, o, i) ==
  [SetState(m, o, "INITIALIZATION") EXCEPT !.call[o].id = i, !.known[i] = o]

Identified(c, i) == [c EXCEPT !.state = "INITIALIZATION", !.id = i]

LEMMA PlacedFields ==
  ASSUME NEW m \in Typed, NEW o \in 1..Size(m), NEW i \in CallId, m.call[o].state = "DIALING"
  PROVE  /\ Placed(m, o, i) \in Typed /\ Size(Placed(m, o, i)) = Size(m)
         /\ Placed(m, o, i).call[o] = Identified(m.call[o], i)
         /\ \A p \in 1..Size(m) : p # o => Placed(m, o, i).call[p] = m.call[p]
         /\ Placed(m, o, i).known[i] = o
         /\ \A j \in Ids : j # i => Placed(m, o, i).known[j] = m.known[j]
         /\ Placed(m, o, i).rows = m.rows /\ Placed(m, o, i).checks = m.checks
         /\ Placed(m, o, i).removals = m.removals /\ Placed(m, o, i).started = m.started
         /\ m.call[o].type # "CONFERENCE" /\ m.call[o].children = <<>>
<1> DEFINE k == Size(m)
           r == [m.call[o] EXCEPT !.state = "INITIALIZATION", !.id = i]
           calls == [m.call EXCEPT ![o] = r]
           known == [m.known EXCEPT ![i] = o]
           n == [m EXCEPT !.call = calls, !.known = known]
<1>1. /\ m \in Models /\ k \in Nat /\ DOMAIN m.call = 1..k /\ m.call \in Seq(Record(k))
      /\ Sane(m.call[o], k) /\ m.call[o] \in Record(k)
  BY TypedFacts
<1>2. i \in Ids /\ i \notin ConfId /\ i # "" /\ "" \notin Ids
  BY CallIdAssumption DEF Ids
<1>3. m.call[o].id = "" /\ m.call[o].type # "CONFERENCE"
  <2>1. m.call[o].id = ""
    BY <1>1 DEF Sane
  <2>2. m.call[o].id \notin ConfId
    BY <1>2, <2>1 DEF Ids
  <2> QED
    BY <1>1, <2>1, <2>2 DEF Sane
<1>4. SetState(m, o, "INITIALIZATION") = [m EXCEPT !.call[o].state = "INITIALIZATION"]
  <2> DEFINE p == [m EXCEPT !.call[o].state = "INITIALIZATION"]
  <2>1. "INITIALIZATION" \in Reached \ {"DIALING"}
    BY DEF Reached, State
  <2>2. p.call[o] = Restated(m.call[o], "INITIALIZATION")
    BY <2>1, StateFrom
  <2>3. Restated(m.call[o], "INITIALIZATION").state = "INITIALIZATION"
    BY <1>1, <2>1, RestatedSane
  <2>4. SetState(m, o, "INITIALIZATION") = slotCallChanged(p, o)
    BY DEF SetState
  <2> HIDE DEF p
  <2>5. p.call[o].state = "INITIALIZATION"
    BY <2>2, <2>3
  <2>6. slotCallChanged(p, o) = p
    BY <2>5 DEF slotCallChanged
  <2> QED
    BY <2>4, <2>6 DEF p
<1>5. Placed(m, o, i) = n
  <2> DEFINE stated == [m.call EXCEPT ![o].state = "INITIALIZATION"]
             p == [m EXCEPT !.call = stated]
  <2>1. p = SetState(m, o, "INITIALIZATION") /\ p.call = stated /\ p.known = m.known
    BY <1>1, <1>4 DEF Models
  <2>2. Placed(m, o, i) = [p EXCEPT !.call[o].id = i, !.known[i] = o]
    BY <2>1 DEF Placed
  <2>3. [stated EXCEPT ![o].id = i] = calls
    BY <1>1
  <2>4. [p EXCEPT !.call[o].id = i, !.known[i] = o]
          = [p EXCEPT !.call = [stated EXCEPT ![o].id = i], !.known = known]
    BY <2>1
  <2>5. [p EXCEPT !.call = calls, !.known = known] = n
    BY <1>1 DEF Models
  <2> QED
    BY <2>2, <2>3, <2>4, <2>5
<1>6. Sane(r, k) /\ r.id = i
  BY <1>1, <1>2, <1>3 DEF Sane, Record, Reached, State
<1>6a. k = Len(m.call) /\ o \in 1..k
  BY DEF Size
<1> HIDE DEF r, k
<1>7. /\ calls \in Seq(Record(k)) /\ Len(calls) = k /\ calls[o] = r
      /\ \A p \in 1..k : p # o => calls[p] = m.call[p]
  <2>1. r \in Record(k)
    BY <1>6 DEF Sane
  <2> QED
    BY <1>1, <1>6a, <2>1
<1>7a. m.known \in [Ids -> Nat] /\ o \in Nat
  BY <1>1, <1>6a DEF Models
<1>8. known \in [Ids -> Nat] /\ known[i] = o /\ \A j \in Ids : j # i => known[j] = m.known[j]
  BY <1>2, <1>7a
<1> HIDE DEF calls, known
<1>9. calls \in Seq(UNION {Record(j) : j \in Nat})
  BY <1>1, <1>7
<1>10. /\ n \in Models /\ n.call = calls /\ n.known = known /\ n.rows = m.rows
       /\ n.checks = m.checks /\ n.removals = m.removals /\ n.started = m.started
  BY <1>1, <1>8, <1>9 DEF Models
<1> HIDE DEF n
<1>11. Size(n) = k
  BY <1>7, <1>10 DEF Size
<1>12. n \in Typed
  <2>1. \A p \in 1..k : Sane(n.call[p], k)
    BY <1>6, <1>7, <1>10, TypedFacts DEF k
  <2>2. ASSUME NEW j \in Ids
        PROVE  n.known[j] \in 0..k /\ (n.known[j] # 0 => n.call[n.known[j]].id = j)
    <3>1. CASE j = i
      <4>1. n.known[j] = o /\ n.call[o].id = j
        BY <1>6, <1>7, <1>8, <1>10, <3>1
      <4>2. o \in 0..k
        BY <1>1, <1>6a
      <4> QED
        BY <4>1, <4>2
    <3>2. CASE j # i
      <4> DEFINE p == m.known[j]
      <4>1. n.known[j] = p /\ p \in 0..k /\ (p # 0 => m.call[p].id = j)
        BY <1>8, <1>10, <3>2, TypedFacts DEF k
      <4> HIDE DEF p
      <4>2. p # 0 => p # o /\ p \in 1..k
        BY <1>1, <1>2, <1>3, <4>1, Ranges
      <4>3. p # 0 => n.call[p].id = j
        BY <1>7, <1>10, <4>1, <4>2
      <4> QED
        BY <4>1, <4>3
    <3> QED
      BY <3>1, <3>2
  <2>3. n.rows \in Seq(1..k) /\ n.checks \in Seq(1..k) /\ n.removals \in Seq(1..k)
    BY <1>10, TypedFacts DEF k
  <2> QED
    BY <1>10, <1>11, <2>1, <2>2, <2>3 DEF Typed
<1>13. m.call[o].children = <<>>
  BY <1>1, <1>3 DEF Sane
<1> QED
  BY <1>3, <1>5, <1>7, <1>8, <1>10, <1>11, <1>12, <1>13, ZenonT(60) DEF k, r, Identified

LEMMA PlacedGrown ==
  ASSUME NEW m \in Typed, NEW o \in 1..Size(m), NEW i \in CallId, m.call[o].state = "DIALING"
  PROVE  Placed(m, o, i) \in Grown(m, {i})
<1> DEFINE n == Placed(m, o, i)
           r == Identified(m.call[o], i)
           k == Size(m)
<1>1. /\ n \in Typed /\ Size(n) = k /\ n.call[o] = r
      /\ \A p \in 1..k : p # o => n.call[p] = m.call[p]
      /\ n.known[i] = o /\ \A j \in Ids : j # i => n.known[j] = m.known[j]
      /\ n.started = m.started
  BY PlacedFields
<1>2. i \in Ids /\ k \in Nat
  BY TypedFacts DEF Ids
<1>6. r.id = i
  <2>1. m.call[o] \in Record(k)
    BY TypedFacts
  <2> QED
    BY <2>1 DEF Record, Identified
<1> HIDE DEF n, r, k
<1>13. ASSUME Unique(m), m.known[i] = 0 PROVE Unique(n)
  <2> SUFFICES ASSUME NEW p \in 1..k, n.call[p].id # "" PROVE n.known[n.call[p].id] = p
    BY <1>1 DEF Unique
  <2>1. CASE p = o
    BY <1>1, <1>6, <2>1
  <2>2. CASE p # o
    <3> DEFINE j == m.call[p].id
    <3>1. n.call[p].id = j
      BY <1>1, <2>2
    <3>2. j \in Ids \cup {""} /\ j # ""
      <4>1. m.call[p] \in Record(k)
        BY TypedFacts DEF k
      <4> QED
        BY <3>1, <4>1 DEF Record
    <3>3. m.known[j] = p /\ 0 \notin 1..k
      BY <1>2, <1>13, <3>2, Ranges DEF Unique, k
    <3> HIDE DEF j
    <3>4. j # i
      BY <1>13, <3>3
    <3> QED
      BY <1>1, <3>1, <3>2, <3>3, <3>4
  <2> QED
    BY <2>1, <2>2
<1> QED
  BY <1>1, <1>2, <1>13 DEF Grown, n

-----------------------------------------------------------------------------
(* The steps.                                                              *)

TypeInv == model \in Typed /\ ring \in Rings

\* What keeps two objects from sharing a call: an identifier that the daemon has not
\* given leads to no object, and there is none before the running calls are listed.
Separate(m, d) ==
  /\ Unique(m)
  /\ \A i \in CallId : d.calls[i] = "free" => m.known[i] = 0
  /\ ~m.started => d.queue = <<>> /\ \A i \in Ids : m.known[i] = 0

LEMMA ElementsOf ==
  ASSUME NEW S, NEW s \in Seq(S)
  PROVE  ToSet(s) \subseteq S
BY DEF ToSet

\* The listed objects are objects.
LEMMA ListedObjects ==
  ASSUME NEW m \in Typed, NEW o \in Listed(m)
  PROVE  o \in 1..Size(m)
<1>1. \A r \in ToSet(m.rows) : r \in 1..Size(m)
  BY TypedFacts, ElementsOf
<1>2. \A r \in ToSet(m.rows) : ToSet(m.call[r].children) \subseteq 1..Size(m)
  <2> SUFFICES ASSUME NEW r \in ToSet(m.rows) PROVE ToSet(m.call[r].children) \subseteq 1..Size(m)
    OBVIOUS
  <2>1. m.call[r].children \in Seq(1..Size(m))
    BY <1>1, ChildrenOf
  <2> QED
    BY <2>1, ElementsOf
<1> QED
  BY <1>1, <1>2 DEF Listed

\* A handler that runs once the model has started, or that adds nothing.
LEMMA GrownSeparate ==
  ASSUME NEW m \in Typed, NEW d \in Rings, NEW K, NEW n \in Grown(m, K), NEW e \in After(d),
         Separate(m, d),
         \A i \in K \cap Ids : m.known[i] = 0 /\ (i \in CallId => e.calls[i] # "free"),
         m.started \/ (K = {} /\ e = d)
  PROVE  Separate(n, e)
<1>1. Unique(n)
  BY DEF Separate, Grown
<1>2. ASSUME NEW i \in CallId, e.calls[i] = "free" PROVE n.known[i] = 0
  <2>1. i \in Ids /\ i \notin K
    BY <1>2 DEF Ids
  <2>2. d.calls[i] = "free"
    BY <1>2 DEF After
  <2> QED
    BY <2>1, <2>2 DEF Separate, Grown
<1>3. n.started = m.started /\ \A i \in Ids \ K : n.known[i] = m.known[i]
  BY DEF Grown
<1>4. ~n.started => e.queue = <<>> /\ \A i \in Ids : n.known[i] = 0
  BY <1>3 DEF Separate
<1> QED
  BY <1>1, <1>2, <1>4 DEF Separate

\* What a step does, in the type invariant and, when the daemon does not act before the
\* running calls are listed, in what keeps the objects apart.
Step == TypeInv' /\ (~EarlySignals /\ Separate(model, ring) => Separate(model', ring'))

\* A step that changes the objects and the daemon as their handlers do.
LEMMA StepBy ==
  ASSUME TypeInv, NEW K, model' \in Grown(model, K), ring' \in After(ring),
         ~EarlySignals =>
           /\ model.started \/ (K = {} /\ ring' = ring)
           /\ \A i \in K \cap Ids :
                model.known[i] = 0 /\ (i \in CallId => ring'.calls[i] # "free")
  PROVE  Step
<1>1. model' \in Typed /\ ring' \in Rings
  BY DEF Grown, After
<1>2. ASSUME ~EarlySignals, Separate(model, ring) PROVE Separate(model', ring')
  BY <1>2, GrownSeparate DEF TypeInv
<1> QED
  BY <1>1, <1>2 DEF Step, TypeInv

LEMMA InitInv ==
  Init => TypeInv /\ Separate(model, ring)
<1> SUFFICES ASSUME Init PROVE TypeInv /\ Separate(model, ring)
  OBVIOUS
<1> DEFINE none == [i \in Ids |-> 0]
<1>1. PICK answer \in AutoAnswers :
        model = [call |-> <<>>, rows |-> <<>>, known |-> none,
                 checks |-> <<>>, removals |-> <<>>,
                 answer |-> answer, started |-> FALSE, crashed |-> FALSE]
  BY DEF Init, Ids
<1>2. /\ model.call = <<>> /\ model.rows = <<>> /\ model.checks = <<>> /\ model.removals = <<>>
      /\ model.known = none
  BY <1>1
<1>3. none \in [Ids -> Nat] /\ \A i \in Ids : none[i] = 0
  OBVIOUS
<1> HIDE DEF none
<1>4. Size(model) = 0
  BY <1>2, EmptySeq DEF Size
<1>5. \A S : <<>> \in Seq(S)
  BY EmptySeq
<1>6. model \in Models
  BY <1>1, <1>3, <1>5 DEF Models
<1>7. 1..0 = {} /\ 0 \in 0..0
  OBVIOUS
<1>8. model \in Typed
  BY <1>2, <1>3, <1>4, <1>5, <1>6, <1>7 DEF Typed
<1>9. /\ ring = [calls |-> [i \in CallId |-> IF i \in Running THEN "current" ELSE "free"],
                 confs |-> [f \in ConfId |-> "free"], parts |-> [f \in ConfId |-> {}],
                 late |-> {}, queue |-> <<>>]
  BY DEF Init
<1>10. ring \in Rings /\ ring.queue = <<>>
  <2>1. [i \in CallId |-> IF i \in Running THEN "current" ELSE "free"] \in [CallId -> DaemonCall]
    BY DEF DaemonCall, Alive
  <2> QED
    BY <1>5, <1>9, <2>1 DEF Rings
<1>11. Separate(model, ring)
  BY <1>2, <1>3, <1>4, <1>7, <1>10 DEF Separate, Unique, Ids
<1> QED
  BY <1>8, <1>10, <1>11 DEF TypeInv

LEMMA StartStep ==
  ASSUME TypeInv, Start
  PROVE  Step
<1> DEFINE C == {i \in CallId : Known(ring, i)}
           F == {f \in ConfId : ring.confs[f] = "live"}
           added == AddedCalls(model, ring, C)
           done == AddedConferences(added, ring, F)
           n == [done EXCEPT !.started = TRUE]
<1>1. model \in Typed /\ ring \in Rings
  BY DEF TypeInv
<1>2. model' = n /\ ring' = ring /\ ~model.started
  BY DEF Start, AddedCalls, AddedConferences
<1>3. C \in SUBSET CallId /\ F \in SUBSET ConfId /\ \A i \in C : Known(ring, i)
  OBVIOUS
<1>4. \A i \in C : ring.calls[i] # "free"
  BY DEF Known, Alive
<1> HIDE DEF C, F
<1>5. added \in Grown(model, C)
  BY <1>1, <1>3, AddedCallsGrown
<1> HIDE DEF added
<1>6. added \in Typed
  BY <1>5 DEF Grown
<1>7. done \in Grown(added, F)
  BY <1>1, <1>3, <1>6, AddedConferencesGrown
<1> HIDE DEF done
<1>8. C \cap F = {}
  BY <1>3, CallIdAssumption
<1>9. done \in Grown(model, C \cup F)
  BY <1>1, <1>5, <1>7, <1>8, GrownThen
<1>10. done \in Typed
  BY <1>9 DEF Grown
<1>11. n \in Typed /\ n.started /\ n.known = done.known /\ (Unique(done) => Unique(n))
  BY <1>10, StartedFields
<1> HIDE DEF n
<1>12. ASSUME Separate(model, ring) PROVE Separate(n, ring)
  <2>1. \A i \in Ids : model.known[i] = 0
    BY <1>2, <1>12 DEF Separate
  <2>2. Unique(done)
    BY <1>9, <1>12, <2>1 DEF Separate, Grown
  <2>3. ASSUME NEW i \in CallId, ring.calls[i] = "free" PROVE n.known[i] = 0
    <3>1. i \in Ids /\ i \notin C \cup F
      BY <1>3, <1>4, <2>3, CallIdAssumption DEF Ids
    <3>2. done.known[i] = model.known[i]
      BY <1>9, <3>1 DEF Grown
    <3> QED
      BY <1>11, <2>1, <3>1, <3>2
  <2> QED
    BY <1>11, <2>2, <2>3 DEF Separate
<1> QED
  BY <1>1, <1>2, <1>11, <1>12 DEF Step, TypeInv

LEMMA StartedWhenRoom ==
  RoomInQueue /\ ~EarlySignals => model.started
BY DEF RoomInQueue

\* A step that adds no object.
LEMMA StepFrom ==
  ASSUME TypeInv, model' \in From(model), ring' \in After(ring),
         ~EarlySignals => model.started \/ ring' = ring
  PROVE  Step
<1> DEFINE K == {}
<1>1. model \in Typed /\ ring \in Rings
  BY DEF TypeInv
<1>2. model' \in Grown(model, K)
  BY <1>1, FromIsGrown
<1>3. ~EarlySignals => /\ model.started \/ (K = {} /\ ring' = ring)
                      /\ \A i \in K \cap Ids :
                           model.known[i] = 0 /\ (i \in CallId => ring'.calls[i] # "free")
  OBVIOUS
<1> HIDE DEF K
<1> QED
  BY <1>2, <1>3, StepBy

LEMMA DialingCallStep ==
  ASSUME TypeInv, DialingCall
  PROVE  Step
<1> DEFINE c == NewCall("CALL", "", "DIALING")
           n == addCall(model, c)
<1>1. model \in Typed /\ ring \in Rings
  BY DEF TypeInv
<1>2. model' = n /\ ring' = ring
  BY DEF DialingCall
<1>3. Sane(c, Size(model)) /\ c.id = ""
  BY <1>1, NewDialedCall
<1> HIDE DEF c
<1>4. n \in Grown(model, {c.id})
  BY <1>1, <1>3, AddCallGrown
<1>5. {c.id} \cap Ids = {}
  BY <1>3, CallIdAssumption DEF Ids
<1>6. n \in Grown(model, {})
  BY <1>4, <1>5 DEF Grown
<1> HIDE DEF n
<1> QED
  BY <1>1, <1>2, <1>6, StepBy, AfterFacts

LEMMA PlaceCallStep ==
  ASSUME TypeInv, NEW o \in Listed(model), PlaceCall(o)
  PROVE  Step
<1>1. model \in Typed /\ ring \in Rings /\ o \in 1..Size(model)
  BY ListedObjects DEF TypeInv
<1>2. PICK i \in CallId :
        /\ RoomInQueue /\ model.call[o].state = "DIALING" /\ ring.calls[i] = "free"
        /\ model' = Placed(model, o, i)
        /\ ring' = Moved(ring, i, "connecting", "CONNECTING")
  BY DEF PlaceCall, Placed
<1>3. model' \in Grown(model, {i})
  BY <1>1, <1>2, PlacedGrown
<1>4. ring' \in After(ring) /\ ring'.calls[i] # "free"
  <2>1. "connecting" \in DaemonCall \ {"free"} /\ "CONNECTING" \in DaemonReports
    BY DEF DaemonCall, Alive, DaemonReports
  <2>2. ring' \in After(ring)
    BY <1>1, <1>2, <2>1, MovedAfter
  <2>3. ring'.calls[i] = "connecting"
    BY <1>1, <1>2 DEF Moved, Emit, Rings
  <2> QED
    BY <2>2, <2>3
<1>5. ASSUME ~EarlySignals, Separate(model, ring)
      PROVE  model.started /\ model.known[i] = 0
  BY <1>2, <1>5, StartedWhenRoom DEF Separate
<1> DEFINE K == {i}
<1>6. model' \in Grown(model, K)
  BY <1>3
<1>7. ~EarlySignals /\ Separate(model, ring) =>
        \A j \in K \cap Ids : model.known[j] = 0 /\ (j \in CallId => ring'.calls[j] # "free")
  BY <1>4, <1>5
<1> HIDE DEF K
<1>8. ~EarlySignals /\ Separate(model, ring) => Separate(model', ring')
  BY <1>1, <1>4, <1>5, <1>6, <1>7, GrownSeparate
<1>9. model' \in Typed /\ ring' \in Rings
  BY <1>3, <1>4 DEF Grown, After
<1> QED
  BY <1>8, <1>9 DEF Step, TypeInv

LEMMA PerformActionStep ==
  ASSUME TypeInv, NEW o \in Listed(model), NEW a \in {"ACCEPT", "REFUSE"}, PerformAction(o, a)
  PROVE  Step
<1>1. model \in Typed /\ ring \in Rings /\ o \in 1..Size(model)
  BY ListedObjects DEF TypeInv
<1>2. /\ RoomInQueue /\ model' = Performed(model, ring, o, a).model
      /\ ring' = Performed(model, ring, o, a).ring
  BY DEF PerformAction
<1>3. model' \in From(model) /\ ring' \in After(ring)
  BY <1>1, <1>2, PerformedFrom
<1> QED
  BY <1>2, <1>3, StepFrom, StartedWhenRoom

\* What the user does to conferences.
LEMMA ConferenceStep ==
  ASSUME TypeInv, NEW o \in Listed(model), NEW p \in Listed(model),
         JoinCalls(o, p) \/ MergeConferences(o, p) \/ DetachParticipant(o)
  PROVE  Step
<1> DEFINE i == model.call[o].id
           j == model.call[p].id
<1>1. model \in Typed /\ ring \in Rings /\ o \in 1..Size(model) /\ p \in 1..Size(model)
  BY ListedObjects DEF TypeInv
<1>2. Sane(model.call[o], Size(model)) /\ Sane(model.call[p], Size(model))
  BY <1>1, TypedFacts
<1>3. i \in Ids \cup {""} /\ j \in Ids \cup {""}
  BY <1>2 DEF Sane, Record
<1>4. RoomInQueue /\ model' = model
  BY DEF JoinCalls, MergeConferences, DetachParticipant
<1>5. ring' \in After(ring)
  <2>1. CASE JoinCalls(o, p)
    <3>1. i \in CallId /\ j \in CallId /\ ring' = Joined(ring, i, j)
      BY <1>2, <1>3, <2>1 DEF JoinCalls, IsConference, Sane, Ids
    <3> QED
      BY <1>1, <3>1, JoinedAfter
  <2>2. CASE MergeConferences(o, p)
    <3>1. i \in ConfId /\ j \in ConfId /\ ring' = Merged(ring, i, j)
      BY <1>2, <2>2 DEF MergeConferences, IsConference, Sane
    <3> QED
      BY <1>1, <3>1, MergedAfter
  <2>3. CASE DetachParticipant(o)
    <3>1. i \in CallId /\ ring' = Leaves(ring, i)
      BY <2>3 DEF DetachParticipant
    <3> QED
      BY <1>1, <3>1, LeavesAfter
  <2> QED
    BY <2>1, <2>2, <2>3
<1>6. model' \in From(model)
  BY <1>1, <1>4, KeptReflexive
<1> QED
  BY <1>4, <1>5, <1>6, StepFrom, StartedWhenRoom

\* The daemon acts on its own, in the room that the queue has.
LEMMA RingStep ==
  ASSUME TypeInv, Ring
  PROVE  Step
<1>1. model \in Typed /\ ring \in Rings
  BY DEF TypeInv
<1>2. model' = model /\ RoomInQueue
  BY DEF Ring, RingReceives, RingAnnouncesLate, RingDials, RingMoves, RingForgets,
         RingDissolves, RingAdds
<1>3. model' \in From(model)
  BY <1>1, <1>2, KeptReflexive
<1>4. /\ {"incoming", "connecting", "ringing", "current", "gone"} \subseteq DaemonCall \ {"free"}
      /\ {"INCOMING", "CONNECTING", "RINGING", "CURRENT", "OVER"} \subseteq DaemonReports
      /\ Endings \subseteq DaemonReports
  BY EndingsAssumption DEF DaemonCall, Alive, DaemonReports
<1>5. ring' \in After(ring)
  <2>1. CASE RingReceives
    <3>1. PICK i \in CallId :
            LET announced == Emit([ring EXCEPT !.calls[i] = "incoming"], "incomingCall", i, "")
            IN  ring' \in {Moved(announced, i, "incoming", "INCOMING"),
                           [Moved(ring, i, "incoming", "INCOMING") EXCEPT !.late = @ \cup {i}]}
      BY <2>1 DEF RingReceives
    <3> DEFINE rung == [ring EXCEPT !.calls[i] = "incoming"]
               announced == Emit(rung, "incomingCall", i, "")
               first == Moved(announced, i, "incoming", "INCOMING")
               moved == Moved(ring, i, "incoming", "INCOMING")
               other == [moved EXCEPT !.late = @ \cup {i}]
    <3>2. ring' \in {first, other}
      BY <3>1
    <3>3. rung \in After(ring) /\ [signal |-> "incomingCall", id |-> i, state |-> ""] \in Signals
      BY <1>1, <1>4 DEF After, Rings, Signals
    <3> HIDE DEF rung
    <3>4. announced \in After(ring) /\ announced \in Rings
      BY <1>1, <3>3, EmitAfter, AfterFacts
    <3> HIDE DEF announced
    <3>5. first \in After(ring)
      BY <1>1, <1>4, <3>4, MovedAfter, AfterFacts
    <3>6. moved \in After(ring)
      BY <1>1, <1>4, MovedAfter
    <3> HIDE DEF first, moved
    <3>7. other \in After(ring)
      BY <3>6 DEF After, Rings
    <3> QED
      BY <3>2, <3>5, <3>7
  <2>2. CASE RingAnnouncesLate
    <3>1. PICK i \in ring.late :
            ring' = Emit([ring EXCEPT !.late = @ \ {i}], "incomingCall", i, "")
      BY <2>2 DEF RingAnnouncesLate
    <3> DEFINE d == [ring EXCEPT !.late = @ \ {i}]
    <3>2. d \in After(ring) /\ d \in Rings
          /\ [signal |-> "incomingCall", id |-> i, state |-> ""] \in Signals
      BY <1>1 DEF After, Rings, Signals
    <3> HIDE DEF d
    <3> QED
      BY <1>1, <3>1, <3>2, EmitAfter, AfterFacts DEF d
  <2>3. CASE RingDials
    BY <1>1, <1>4, <2>3, MovedAfter DEF RingDials
  <2>4. CASE RingMoves
    <3>1. \E i \in CallId :
            \/ ring' = Moved(ring, i, "ringing", "RINGING")
            \/ ring' = Moved(ring, i, "current", "CURRENT")
            \/ \E s \in Endings : ring' = Ended(ring, i, s)
      BY <2>4 DEF RingMoves
    <3> QED
      BY <1>1, <1>4, <3>1, MovedAfter, EndedAfter
  <2>5. CASE RingForgets
    BY <1>1, <1>4, <2>5, MovedAfter DEF RingForgets
  <2>6. CASE RingDissolves
    <3>1. PICK f \in ConfId :
            ring' = Emit([ring EXCEPT !.confs[f] = "removed", !.parts[f] = {}],
                         "conferenceRemoved", f, "")
      BY <2>6 DEF RingDissolves
    <3> DEFINE d == [ring EXCEPT !.confs[f] = "removed", !.parts[f] = {}]
    <3>2. d \in After(ring) /\ [signal |-> "conferenceRemoved", id |-> f, state |-> ""] \in Signals
      BY <1>1, ConferenceAfter
    <3> HIDE DEF d
    <3> QED
      BY <1>1, <3>1, <3>2, EmitAfter, AfterFacts DEF d
  <2>7. CASE RingAdds
    <3>1. PICK i \in CallId, f \in ConfId :
            ring' = Emit([ring EXCEPT !.parts[f] = @ \cup {i}], "conferenceChanged", f, "")
      BY <2>7 DEF RingAdds
    <3> DEFINE p == ring.parts[f] \cup {i}
               d == [ring EXCEPT !.parts[f] = p]
    <3>2. p \in SUBSET CallId
      BY <1>1 DEF Rings
    <3>3. ring' = Emit(d, "conferenceChanged", f, "")
      BY <3>1
    <3> HIDE DEF p
    <3>4. d \in After(ring) /\ [signal |-> "conferenceChanged", id |-> f, state |-> ""] \in Signals
      BY <1>1, <3>2, ConferenceAfter
    <3> HIDE DEF d
    <3> QED
      BY <1>1, <3>3, <3>4, EmitAfter, AfterFacts
  <2> QED
    BY <2>1, <2>2, <2>3, <2>4, <2>5, <2>6, <2>7 DEF Ring
<1> QED
  BY <1>2, <1>3, <1>5, StepFrom, StartedWhenRoom

LEMMA DeliverStep ==
  ASSUME TypeInv, Deliver
  PROVE  Step
<1> DEFINE d == [ring EXCEPT !.queue = Tail(@)]
           e == Head(ring.queue)
           K == Added(model, d, e)
<1>1. model \in Typed /\ ring \in Rings /\ ring.queue # <<>>
  BY DEF TypeInv, Deliver
<1>2. model' = Delivered(model, d, e).model /\ ring' = Delivered(model, d, e).ring
  BY DEF Deliver
<1>3. e \in Signals /\ Tail(ring.queue) \in Seq(Signals)
  <2>1. ring.queue \in Seq(Signals)
    BY <1>1 DEF Rings
  <2> QED
    BY <1>1, <2>1
<1>4. d \in Rings /\ d.calls = ring.calls
  BY <1>1, <1>3 DEF Rings
<1> HIDE DEF d, e
<1>5. model' \in Grown(model, K) /\ ring' \in After(d)
  BY <1>1, <1>2, <1>3, <1>4, DeliveredGrown
<1>6. model' \in Typed /\ ring' \in Rings
  BY <1>5 DEF Grown, After
<1>7. ASSUME Separate(model, ring) PROVE Separate(model', ring')
  <2>1. model.started
    BY <1>1, <1>7 DEF Separate
  <2>2. Separate(model, d)
    BY <1>4, <1>7, <2>1 DEF Separate
  <2>3. \A i \in K \cap Ids : model.known[i] = 0 /\ (i \in CallId => ring'.calls[i] # "free")
    <3> SUFFICES ASSUME NEW i \in K \cap Ids
                 PROVE  model.known[i] = 0 /\ (i \in CallId => ring'.calls[i] # "free")
      OBVIOUS
    <3>1. i = e.id /\ model.known[i] = 0 /\ (i \in ConfId \/ Known(d, i))
      BY DEF Added, New
    <3>2. i \in CallId => d.calls[i] # "free"
      BY <3>1, CallIdAssumption DEF Known, Alive
    <3> QED
      BY <1>5, <3>1, <3>2 DEF After
  <2> HIDE DEF K
  <2> QED
    BY <1>1, <1>4, <1>5, <2>1, <2>2, <2>3, GrownSeparate
<1> QED
  BY <1>6, <1>7 DEF Step, TypeInv

LEMMA TimerStep ==
  ASSUME TypeInv, Check \/ AutoClean
  PROVE  Step
<1>1. model \in Typed /\ ring \in Rings /\ ring' = ring
  BY DEF TypeInv, Check, AutoClean
<1>2. model' \in From(model)
  <2>1. CASE Check
    <3> DEFINE o == Head(model.checks)
               t == Tail(model.checks)
               rest == [model EXCEPT !.checks = t]
               later == [rest EXCEPT !.removals = Append(@, o)]
    <3>1. o \in 1..Size(model) /\ t \in Seq(1..Size(model))
      <4>1. model.checks \in Seq(1..Size(model)) /\ model.checks # <<>>
        BY <1>1, <2>1, TypedFacts DEF Check
      <4> QED
        BY <4>1, HeadTailProperties
    <3>2. model' \in {removeCall(rest, o), later, rest}
      BY <2>1 DEF Check
    <3> HIDE DEF o, t
    <3>3. rest \in From(model)
      BY <1>1, <3>1, ListsFields
    <3> HIDE DEF rest
    <3>4. rest \in Typed /\ o \in 1..Size(rest) /\ \A p \in From(rest) : p \in From(model)
      BY <1>1, <3>1, <3>3, ThenFrom
    <3>5. removeCall(rest, o) \in From(rest)
      BY <3>4, RemoveCallFrom
    <3>6. later \in From(rest)
      <4> DEFINE s == Append(rest.removals, o)
      <4>1. rest.removals \in Seq(1..Size(rest))
        BY <3>4, TypedFacts
      <4>2. s \in Seq(1..Size(rest))
        BY <3>4, <4>1, AppendProperties
      <4>3. later = [rest EXCEPT !.removals = s]
        OBVIOUS
      <4> HIDE DEF s
      <4> QED
        BY <3>4, <4>2, <4>3, ListsFields
    <3> QED
      BY <3>2, <3>3, <3>4, <3>5, <3>6
  <2>2. CASE AutoClean
    <3> DEFINE o == Head(model.removals)
               t == Tail(model.removals)
               rest == [model EXCEPT !.removals = t]
    <3>1. o \in 1..Size(model) /\ t \in Seq(1..Size(model))
      <4>1. model.removals \in Seq(1..Size(model)) /\ model.removals # <<>>
        BY <1>1, <2>2, TypedFacts DEF AutoClean
      <4> QED
        BY <4>1, HeadTailProperties
    <3>2. model' = removeCall(rest, o)
      BY <2>2 DEF AutoClean
    <3> HIDE DEF o, t
    <3>3. rest \in From(model)
      BY <1>1, <3>1, ListsFields
    <3> HIDE DEF rest
    <3>4. rest \in Typed /\ o \in 1..Size(rest) /\ \A p \in From(rest) : p \in From(model)
      BY <1>1, <3>1, <3>3, ThenFrom
    <3>5. removeCall(rest, o) \in From(rest)
      BY <3>4, RemoveCallFrom
    <3> QED
      BY <3>2, <3>4, <3>5
  <2> QED
    BY <2>1, <2>2
<1> QED
  BY <1>1, <1>2, AfterFacts, StepFrom

LEMMA NextStep ==
  ASSUME TypeInv, [Next]_vars
  PROVE  Step
<1>1. CASE Start
  BY <1>1, StartStep
<1>2. CASE User
  <2>1. CASE DialingCall
    BY <2>1, DialingCallStep
  <2>2. CASE \E o \in Listed(model) : PlaceCall(o)
    BY <2>2, PlaceCallStep
  <2>3. CASE \E o \in Listed(model) : \E a \in {"ACCEPT", "REFUSE"} : PerformAction(o, a)
    BY <2>3, PerformActionStep
  <2>4. CASE \E o, p \in Listed(model) :
               JoinCalls(o, p) \/ MergeConferences(o, p) \/ DetachParticipant(o)
    BY <2>4, ConferenceStep
  <2> QED
    BY <1>2, <2>1, <2>2, <2>3, <2>4 DEF User
<1>3. CASE Ring
  BY <1>3, RingStep
<1>4. CASE Deliver
  BY <1>4, DeliverStep
<1>5. CASE Check \/ AutoClean
  BY <1>5, TimerStep
<1>6. CASE UNCHANGED vars
  BY <1>6 DEF vars, Step, TypeInv
<1> QED
  BY <1>1, <1>2, <1>3, <1>4, <1>5, <1>6 DEF Next

LEMMA TypeInvImplies ==
  TypeInv => TypeOK
<1> SUFFICES ASSUME TypeInv PROVE TypeOK
  OBVIOUS
<1> DEFINE k == Size(model)
<1>1. model \in Typed /\ ring \in Rings
  BY DEF TypeInv
<1>2. /\ model \in Models /\ k \in Nat /\ DOMAIN model.call = 1..k
      /\ model.call \in Seq(Record(k))
      /\ \A o \in 1..k : Sane(model.call[o], k)
      /\ model.rows \in Seq(1..k) /\ model.checks \in Seq(1..k) /\ model.removals \in Seq(1..k)
  BY <1>1, TypedFacts
<1>3. \A i \in Ids : model.known[i] # 0 => model.known[i] \in 1..k
                                           /\ model.call[model.known[i]].id = i
  BY <1>1, TypedFacts, KnownObject
<1> HIDE DEF k
<1>4. Objects = 1..k
  BY <1>2 DEF Objects
<1>5. Record(k) \subseteq CallRecord
  <2>1. 0..k \subseteq Objects \cup {0}
    BY <1>2, <1>4, Ranges
  <2> QED
    BY <1>4, <2>1 DEF Record, CallRecord, Reached, Ids
<1>6. model.call \in Seq(CallRecord)
  BY <1>2, <1>5, SeqMonotonic
<1>7. \A o \in Objects :
        /\ IsConference(model, o) <=> model.call[o].id \in ConfId
        /\ IsConference(model, o) => model.call[o].parent = 0
        /\ ~IsConference(model, o) => model.call[o].children = <<>>
  BY <1>2, <1>4 DEF IsConference, Sane
<1>8. Signals \subseteq Signal
  BY DEF Signals, Signal, DaemonReports
<1>9. ring.queue \in Seq(Signal)
  <2>1. ring.queue \in Seq(Signals)
    BY <1>1 DEF Rings
  <2> QED
    BY <1>8, <2>1, SeqMonotonic
<1>10. /\ model.answer \in AutoAnswers /\ {model.started, model.crashed} \subseteq BOOLEAN
  BY <1>2 DEF Models
<1>11. /\ ring.calls \in [CallId -> DaemonCall] /\ ring.late \subseteq CallId
       /\ ring.confs \in [ConfId -> {"free", "live", "removed"}]
       /\ ring.parts \in [ConfId -> SUBSET CallId]
  BY <1>1 DEF Rings
<1> QED
  BY <1>2, <1>3, <1>4, <1>6, <1>7, <1>9, <1>10, <1>11 DEF TypeOK, Ids

-----------------------------------------------------------------------------
(* The calls that are not over.                                            *)

\* No call is ever in BUSY, the one state that is over and that a table leaves again.
Ordinary == Reached \ {"BUSY"}

FinalStates == {"FAILURE", "OVER", "ERROR", "ABORTED"}

LEMMA OrdinaryStates ==
  \A s \in Ordinary : metaStateMap[s] = "FINISHED" <=> s \in FinalStates
BY DEF Ordinary, Reached, State, FinalStates, metaStateMap

\* What is over stays over, and what is hung up is over.
LEMMA OverStaysOver ==
  ASSUME NEW s \in Ordinary
  PROVE  /\ \A a \in {"ACCEPT", "REFUSE"} :
              /\ actionPerformedStateMap[s][a] \in Ordinary \ {"DIALING"}
              /\ s \in FinalStates => actionPerformedStateMap[s][a] \in FinalStates
         /\ \A r \in DaemonReports :
              LET t == stateChangedStateMap[s][toDaemonCallState(r)]
              IN  t \in Ordinary \ {"DIALING"} /\ (s \in FinalStates \/ r = "HUNGUP" => t \in FinalStates)
<1>1. ASSUME NEW a \in {"ACCEPT", "REFUSE"}
      PROVE  /\ actionPerformedStateMap[s][a] \in Ordinary \ {"DIALING"}
             /\ s \in FinalStates => actionPerformedStateMap[s][a] \in FinalStates
  <2> USE DEF Ordinary, Reached, State, Action, FinalStates, actionPerformedStateMap, ActionRow
  <2>1. CASE s \in {"INCOMING", "RINGING", "CURRENT", "DIALING", "HOLD"}
    BY <2>1
  <2>2. CASE s \in {"FAILURE", "CONNECTED", "TRANSFERRED", "TRANSF_HOLD"}
    BY <2>2
  <2>3. CASE s \in {"OVER", "ERROR", "ABORTED", "CONFERENCE", "CONFERENCE_HOLD", "INITIALIZATION"}
    BY <2>3
  <2> QED
    BY <2>1, <2>2, <2>3
<1>2. ASSUME NEW r \in DaemonReports
      PROVE  LET t == stateChangedStateMap[s][toDaemonCallState(r)]
             IN  t \in Ordinary \ {"DIALING"} /\ (s \in FinalStates \/ r = "HUNGUP" => t \in FinalStates)
  <2> DEFINE e == toDaemonCallState(r)
  <2>0. e \in {"HUNG_UP", "RINGING", "CONNECTING", "CURRENT", "FAILURE", "OVER"}
        /\ (e = "HUNG_UP" <=> r = "HUNGUP")
    BY DEF DaemonReports, toDaemonCallState
  <2> HIDE DEF e
  <2>1. /\ stateChangedStateMap[s][e] \in Ordinary \ {"DIALING"}
        /\ s \in FinalStates \/ e = "HUNG_UP" => stateChangedStateMap[s][e] \in FinalStates
    <3> USE DEF Ordinary, Reached, State, DaemonState, FinalStates, stateChangedStateMap, DaemonRow
    <3>1. CASE s \in {"INCOMING", "RINGING", "DIALING"}
      BY <2>0, <3>1
    <3>2. CASE s \in {"CURRENT", "HOLD", "FAILURE"}
      BY <2>0, <3>2
    <3>3. CASE s \in {"TRANSFERRED", "TRANSF_HOLD", "OVER", "ERROR", "ABORTED"}
      BY <2>0, <3>3
    <3>4. CASE s \in {"CONFERENCE", "CONFERENCE_HOLD", "INITIALIZATION", "CONNECTED"}
      BY <2>0, <3>4
    <3> QED
      BY <3>1, <3>2, <3>3, <3>4
  <2> QED
    BY <2>0, <2>1 DEF e
<1> QED
  BY <1>1, <1>2

Final(m, o) == m.call[o].state \in FinalStates

\* A call has a row of its own, or is below a conference that is listed or is one of W.
Sheltered(m, W, c) ==
  \/ c \in ToSet(m.rows)
  \/ \E p \in 1..Size(m) : /\ c \in ToSet(m.call[p].children)
                           /\ p \in ToSet(m.rows) \/ m.call[p].id \in W

\* The models in which every call that is not over is, those of X excepted, and in which
\* only what is over and conferences are on their way out.
Safe(W, X) ==
  {m \in Typed :
     /\ \A o \in 1..Size(m) : m.call[o].state # "BUSY"
     /\ \A o \in ToSet(m.checks) \cup ToSet(m.removals) : IsConference(m, o) \/ Final(m, o)
     /\ \A c \in 1..Size(m) : \/ IsConference(m, c) \/ Final(m, c)
                              \/ m.call[c].id \in X \/ Sheltered(m, W, c)}

\* What a handler has to do to stay in them.
LEMMA SafeBy ==
  ASSUME NEW W, NEW V, NEW X, NEW m \in Safe(W, X), NEW n \in From(m),
         \A o \in 1..Size(m) : n.call[o].state # "BUSY",
         \A o \in 1..Size(m) : IsConference(m, o) \/ ~Final(m, o) \/ Final(n, o),
         \A o \in ToSet(n.checks) \cup ToSet(n.removals) :
           o \in ToSet(m.checks) \cup ToSet(m.removals) \/ IsConference(m, o) \/ Final(n, o),
         \A c \in 1..Size(m) :
           ~IsConference(m, c) /\ ~Final(n, c) /\ m.call[c].id \notin X /\ Sheltered(m, W, c)
             => Sheltered(n, V, c)
  PROVE  n \in Safe(V, X)
<1>1. m \in Typed /\ n \in Typed /\ Size(n) = Size(m)
      /\ \A o \in 1..Size(m) : n.call[o].id = m.call[o].id /\ n.call[o].type = m.call[o].type
  BY ThenFrom DEF Safe
<1>2. /\ ToSet(m.checks) \subseteq 1..Size(m) /\ ToSet(m.removals) \subseteq 1..Size(m)
      /\ ToSet(n.checks) \subseteq 1..Size(m) /\ ToSet(n.removals) \subseteq 1..Size(m)
  BY <1>1, TypedFacts, ElementsOf
<1>3. \A o \in ToSet(n.checks) \cup ToSet(n.removals) : IsConference(n, o) \/ Final(n, o)
  BY <1>1, <1>2 DEF Safe, IsConference
<1>4. \A c \in 1..Size(m) : \/ IsConference(n, c) \/ Final(n, c)
                            \/ n.call[c].id \in X \/ Sheltered(n, V, c)
  BY <1>1 DEF Safe, IsConference
<1> QED
  BY <1>1, <1>3, <1>4 DEF Safe

\* The rows are kept, and the children too.
LEMMA ShelterKept ==
  ASSUME NEW W, NEW m \in Typed, NEW n \in From(m), ToSet(m.rows) \subseteq ToSet(n.rows),
         \A p \in 1..Size(m) : n.call[p].children = m.call[p].children,
         NEW c, Sheltered(m, W, c)
  PROVE  Sheltered(n, W, c)
<1>1. Size(n) = Size(m) /\ \A o \in 1..Size(m) : n.call[o].id = m.call[o].id
  BY ThenFrom
<1> QED
  BY <1>1 DEF Sheltered

LEMMA ScheduleSafe ==
  ASSUME NEW W, NEW X, NEW m \in Safe(W, X), NEW o \in 1..Size(m),
         IsConference(m, o) \/ Final(m, o)
  PROVE  Schedule(m, o) \in Safe(W, X)
<1> DEFINE n == Schedule(m, o)
<1>1. m \in Typed /\ \A p \in 1..Size(m) : m.call[p].state # "BUSY"
  BY DEF Safe
<1>2. n \in From(m)
  BY <1>1, ScheduleFrom
<1>3. /\ n.call = m.call /\ n.rows = m.rows /\ n.removals = m.removals
      /\ n.checks = Append(m.checks, o)
  BY <1>1, TypedFacts DEF Schedule, Models
<1> HIDE DEF n
<1>4. ToSet(n.checks) = ToSet(m.checks) \cup {o}
  BY <1>1, <1>3, TypedFacts, AppendedSet
<1>5. \A c : Sheltered(m, W, c) => Sheltered(n, W, c)
  BY <1>1, <1>2, <1>3, ShelterKept
<1> QED
  BY <1>1, <1>2, <1>3, <1>4, <1>5, SafeBy DEF n, Final


LEMMA ConcatSet ==
  ASSUME NEW S, NEW s \in Seq(S), NEW t \in Seq(S)
  PROVE  ToSet(s \o t) = ToSet(s) \cup ToSet(t)
<1> DEFINE u == s \o t
<1>1. /\ Len(s) \in Nat /\ DOMAIN s = 1..Len(s) /\ Len(t) \in Nat /\ DOMAIN t = 1..Len(t)
      /\ DOMAIN u = 1..(Len(s) + Len(t))
      /\ \A j \in 1..Len(s) : u[j] = s[j]
      /\ \A j \in 1..Len(t) : u[Len(s) + j] = t[j]
  OBVIOUS
<1> HIDE DEF u
<1>2. /\ \A j \in 1..(Len(s) + Len(t)) : j \in 1..Len(s) \/ (j - Len(s) \in 1..Len(t) /\ Len(s) + (j - Len(s)) = j)
      /\ \A j \in 1..Len(t) : Len(s) + j \in 1..(Len(s) + Len(t))
      /\ 1..Len(s) \subseteq 1..(Len(s) + Len(t))
  BY <1>1
<1>3. ToSet(u) \subseteq ToSet(s) \cup ToSet(t)
  <2> SUFFICES ASSUME NEW j \in 1..(Len(s) + Len(t)) PROVE u[j] \in ToSet(s) \cup ToSet(t)
    BY <1>1 DEF ToSet
  <2> QED
    BY <1>1, <1>2 DEF ToSet
<1>4. ToSet(s) \subseteq ToSet(u) /\ ToSet(t) \subseteq ToSet(u)
  BY <1>1, <1>2 DEF ToSet
<1> QED
  BY <1>3, <1>4 DEF u

\* Where the rows are when one is taken out: its children that are not over come back.
LEMMA RestoredFields ==
  ASSUME NEW m \in Typed, NEW o \in 1..Size(m)
  PROVE  LET n == Restored(m, o)
         IN  /\ n \in From(m) /\ n.call = m.call
             /\ n.checks = m.checks /\ n.removals = m.removals
             /\ \A c \in 1..Size(m) : c # o /\ c \in ToSet(m.rows) => c \in ToSet(n.rows)
             /\ \A c \in ToSet(m.call[o].children) : ~Final(m, c) => c \in ToSet(n.rows)
<1> DEFINE S == 1..Size(m)
           kids == m.call[o].children
           rest == RemoveFirst(m.rows, o)
           back == {c \in DOMAIN m.call : m.call[c].state \notin {"OVER", "ERROR"}}
           kept == Among(kids, back)
           n == Restored(m, o)
<1>1. n \in From(m)
  BY RestoredFrom
<1>2. /\ rest \in Seq(S)
      /\ \A c \in S : c # o /\ c \in ToSet(m.rows) => c \in ToSet(rest)
  <2>1. m.rows \in Seq(S)
    BY TypedFacts
  <2> HIDE DEF S
  <2> QED
    BY <2>1, RemovedFirst
<1>3. kids \in Seq(S) /\ kept \in Seq(S)
  BY ChildrenOf, AmongChildren
<1>4. \A c \in ToSet(kids) : ~Final(m, c) => c \in ToSet(kept)
  <2>1. \A c \in ToSet(kids) : c \in S
    BY <1>3, ElementsOf
  <2>2. \A c \in S : ~Final(m, c) => c \in back
    BY TypedFacts DEF Final, FinalStates
  <2> HIDE DEF S, kids, back
  <2> QED
    BY <1>3, <2>1, <2>2, AmongIsPart
<1>5. /\ n.call = m.call /\ n.checks = m.checks /\ n.removals = m.removals
      /\ n.rows = rest \o kept
  BY TypedFacts DEF Restored, removeInternal, Models
<1> HIDE DEF n, rest, kept, kids, S
<1>6. ToSet(n.rows) = ToSet(rest) \cup ToSet(kept)
  BY <1>2, <1>3, <1>5, ConcatSet
<1> QED
  BY <1>1, <1>2, <1>4, <1>5, <1>6 DEF n, kids, S

\* The children of the object that is taken out need not be sheltered any more.
LEMMA RestoredSafe ==
  ASSUME NEW W, NEW V, NEW X, NEW m \in Safe(W, X), NEW o \in 1..Size(m),
         IsConference(m, o) \/ Final(m, o),
         \A p \in 1..Size(m) : p # o /\ m.call[p].id \in W => m.call[p].id \in V
  PROVE  Restored(m, o) \in Safe(V, X)
<1> DEFINE n == Restored(m, o)
<1>1. m \in Typed /\ \A p \in 1..Size(m) : m.call[p].state # "BUSY"
  BY DEF Safe
<1>2. /\ n \in From(m) /\ n.call = m.call
      /\ n.checks = m.checks /\ n.removals = m.removals
      /\ \A c \in 1..Size(m) : c # o /\ c \in ToSet(m.rows) => c \in ToSet(n.rows)
      /\ \A c \in ToSet(m.call[o].children) : ~Final(m, c) => c \in ToSet(n.rows)
  BY <1>1, RestoredFields
<1> HIDE DEF n
<1>3. ASSUME NEW c \in 1..Size(m), ~IsConference(m, c), ~Final(m, c), Sheltered(m, W, c)
      PROVE  Sheltered(n, V, c)
  <2>1. CASE c \in ToSet(m.rows)
    BY <1>2, <1>3, <2>1 DEF Sheltered
  <2>2. ASSUME NEW p \in 1..Size(m), c \in ToSet(m.call[p].children),
               p \in ToSet(m.rows) \/ m.call[p].id \in W
        PROVE  Sheltered(n, V, c)
    <3>1. Size(n) = Size(m)
      BY <1>1, <1>2, ThenFrom
    <3> QED
      BY <1>2, <1>3, <2>2, <3>1 DEF Sheltered
  <2> QED
    BY <1>3, <2>1, <2>2 DEF Sheltered
<1> QED
  BY <1>1, <1>2, <1>3, SafeBy DEF n, Final

\* The state of an object changes: what is over does not begin again.
LEMMA StateSafe ==
  ASSUME NEW W, NEW X, NEW m \in Safe(W, X), NEW o \in 1..Size(m),
         NEW s \in Ordinary \ {"DIALING"},
         IsConference(m, o) \/ ~Final(m, o) \/ s \in FinalStates
  PROVE  [m EXCEPT !.call[o].state = s] \in Safe(W, X)
<1> DEFINE n == [m EXCEPT !.call[o].state = s]
           r == Restated(m.call[o], s)
<1>1. m \in Typed /\ \A p \in 1..Size(m) : m.call[p].state # "BUSY"
  BY DEF Safe
<1>2. s \in Reached \ {"DIALING"} /\ s # "BUSY"
  BY DEF Ordinary
<1>3. /\ n \in From(m) /\ n.call[o] = r
      /\ n.rows = m.rows /\ n.checks = m.checks /\ n.removals = m.removals
      /\ \A p \in 1..Size(m) : p # o => n.call[p] = m.call[p]
  BY <1>1, <1>2, StateFrom
<1>4. r.state = s /\ r.children = m.call[o].children
  <2>1. m.call[o] \in Record(Size(m))
    BY <1>1, TypedFacts
  <2> QED
    BY <2>1 DEF Restated, Record
<1> HIDE DEF n, r
<1>5. \A p \in 1..Size(m) : n.call[p].children = m.call[p].children
  BY <1>3, <1>4
<1>6. \A c : Sheltered(m, W, c) => Sheltered(n, W, c)
  BY <1>1, <1>3, <1>5, ShelterKept
<1>7. \A p \in 1..Size(m) : /\ n.call[p].state # "BUSY"
                            /\ IsConference(m, p) \/ ~Final(m, p) \/ Final(n, p)
  BY <1>1, <1>2, <1>3, <1>4 DEF Final
<1>8. \A p \in ToSet(n.checks) \cup ToSet(n.removals) : p \in ToSet(m.checks) \cup ToSet(m.removals)
  BY <1>3
<1>9. \A c \in 1..Size(m) :
        ~IsConference(m, c) /\ ~Final(n, c) /\ m.call[c].id \notin X /\ Sheltered(m, W, c)
          => Sheltered(n, W, c)
  BY <1>6
<1>10. n \in Safe(W, X)
  BY <1>3, <1>7, <1>8, <1>9, SafeBy
<1> QED
  BY <1>10 DEF n

LEMMA MissedSafe ==
  ASSUME NEW W, NEW X, NEW m \in Safe(W, X), NEW o \in 1..Size(m)
  PROVE  SetMissed(m, o) \in Safe(W, X) /\ SetMissed(m, o).call[o].state = m.call[o].state
<1> DEFINE n == SetMissed(m, o)
           r == [m.call[o] EXCEPT !.missed = TRUE]
<1>1. m \in Typed /\ \A p \in 1..Size(m) : m.call[p].state # "BUSY"
  BY DEF Safe
<1>3. /\ n \in From(m) /\ n.call[o] = r
      /\ n.rows = m.rows /\ n.checks = m.checks /\ n.removals = m.removals
      /\ \A p \in 1..Size(m) : p # o => n.call[p] = m.call[p]
  BY <1>1, MissedFrom
<1>4. r.state = m.call[o].state /\ r.children = m.call[o].children
  <2>1. m.call[o] \in Record(Size(m))
    BY <1>1, TypedFacts
  <2> QED
    BY <2>1 DEF Record
<1> HIDE DEF n, r
<1>5. \A p \in 1..Size(m) : /\ n.call[p].children = m.call[p].children
                            /\ n.call[p].state = m.call[p].state
  BY <1>3, <1>4
<1>6. \A c : Sheltered(m, W, c) => Sheltered(n, W, c)
  BY <1>1, <1>3, <1>5, ShelterKept
<1>7. \A p \in 1..Size(m) : /\ n.call[p].state # "BUSY"
                            /\ IsConference(m, p) \/ ~Final(m, p) \/ Final(n, p)
  BY <1>1, <1>5 DEF Final
<1>10. n \in Safe(W, X)
  BY <1>3, <1>6, <1>7, SafeBy
<1> QED
  BY <1>5, <1>10 DEF n

\* A handler of a handler's result is about the same objects.
LEMMA SameObjects ==
  ASSUME NEW m \in Typed, NEW n \in From(m), NEW o \in 1..Size(m)
  PROVE  o \in 1..Size(n) /\ (IsConference(n, o) <=> IsConference(m, o))
BY ThenFrom DEF IsConference

LEMMA EndConferenceSafe ==
  ASSUME NEW W, NEW X, NEW m \in Safe(W, X), NEW o \in 1..Size(m), IsConference(m, o)
  PROVE  EndConference(m, o) \in Safe(W, X)
<1> DEFINE n == [m EXCEPT !.call[o].state = "OVER"]
<1>1. m \in Typed /\ "OVER" \in Ordinary \ {"DIALING"}
  BY DEF Safe, Ordinary, Reached, State
<1>2. n \in Safe(W, X) /\ n \in From(m)
  BY <1>1, StateSafe, StateFrom DEF Ordinary
<1> HIDE DEF n
<1>3. Schedule(n, o) \in Safe(W, X)
  BY <1>1, <1>2, SameObjects, ScheduleSafe
<1> QED
  BY <1>3 DEF EndConference, n

LEMMA SweepSafe ==
  ASSUME NEW W, NEW X, NEW m \in Safe(W, X)
  PROVE  Sweep(m) \in Safe(W, X)
<1> DEFINE U == From(m) \cap Safe(W, X)
<1>1. m \in Typed /\ m \in U
  BY KeptReflexive DEF Safe
<1>2. ASSUME NEW x \in U, NEW o \in 1..Size(m), IsConference(m, o)
      PROVE  EndConference(Restored(x, o), o) \in U
  <2> DEFINE y == Restored(x, o)
  <2>1. /\ x \in Typed /\ o \in 1..Size(x) /\ IsConference(x, o)
        /\ \A p \in From(x) : p \in From(m)
    BY <1>1, <1>2, ThenFrom, SameObjects
  <2>2. y \in From(x) /\ y \in Safe(W, X)
    BY <2>1, RestoredFrom, RestoredSafe
  <2> HIDE DEF y
  <2>3. y \in Typed /\ o \in 1..Size(y) /\ IsConference(y, o) /\ \A p \in From(y) : p \in From(x)
    BY <2>1, <2>2, ThenFrom, SameObjects
  <2>4. EndConference(y, o) \in From(y) /\ EndConference(y, o) \in Safe(W, X)
    BY <2>2, <2>3, EndConferenceFrom, EndConferenceSafe
  <2> QED
    BY <2>1, <2>3, <2>4 DEF y
<1> HIDE DEF U
<1>3. Sweep(m) \in U
  BY <1>1, <1>2, SweepReaches
<1> QED
  BY <1>3 DEF U

LEMMA RemoveCallSafe ==
  ASSUME NEW W, NEW V, NEW X, NEW m \in Safe(W, X), NEW o \in 1..Size(m),
         IsConference(m, o) \/ Final(m, o),
         \A p \in 1..Size(m) : p # o /\ m.call[p].id \in W => m.call[p].id \in V
  PROVE  removeCall(m, o) \in Safe(V, X)
<1> DEFINE n == Restored(m, o)
<1>1. n \in Safe(V, X)
  BY RestoredSafe
<1> HIDE DEF n
<1>2. Sweep(n) \in Safe(V, X)
  BY <1>1, SweepSafe
<1> QED
  BY <1>2 DEF removeCall, n

LEMMA RemoveConferenceSafe ==
  ASSUME NEW W, NEW V, NEW X, NEW m \in Safe(W, X), NEW o \in 1..Size(m), IsConference(m, o),
         \A p \in 1..Size(m) : p # o /\ m.call[p].id \in W => m.call[p].id \in V
  PROVE  removeConference(m, o) \in Safe(V, X)
<1> DEFINE n == removeCall(m, o)
<1>1. n \in Safe(V, X)
  BY RemoveCallSafe
<1>2. m \in Typed /\ n \in From(m)
  BY RemoveCallFrom DEF Safe
<1> HIDE DEF n
<1>3. EndConference(n, o) \in Safe(V, X)
  BY <1>1, <1>2, SameObjects, EndConferenceSafe
<1> QED
  BY <1>3 DEF removeConference, n

LEMMA CallChangedSafe ==
  ASSUME NEW W, NEW X, NEW m \in Safe(W, X), NEW o \in 1..Size(m)
  PROVE  slotCallChanged(m, o) \in Safe(W, X)
<1>1. CASE m.call[o].state = "ERROR"
  <2>1. Final(m, o)
    BY <1>1 DEF Final, FinalStates
  <2> QED
    BY <1>1, <2>1, RemoveCallSafe DEF slotCallChanged
<1>2. CASE m.call[o].state \in {"ABORTED", "OVER"}
  <2>1. Final(m, o)
    BY <1>2 DEF Final, FinalStates
  <2>2. slotCallChanged(m, o) = Schedule(m, o)
    BY <1>2 DEF slotCallChanged
  <2> QED
    BY <2>1, <2>2, ScheduleSafe
<1>3. CASE m.call[o].state \notin {"ERROR", "ABORTED", "OVER"}
  BY <1>3 DEF slotCallChanged
<1> QED
  BY <1>1, <1>2, <1>3

\* Nor does changeCurrentState() make the state another than the one it is given.
LEMMA SetStateSafe ==
  ASSUME NEW W, NEW X, NEW m \in Safe(W, X), NEW o \in 1..Size(m),
         NEW s \in Ordinary \ {"DIALING"},
         IsConference(m, o) \/ ~Final(m, o) \/ s \in FinalStates
  PROVE  SetState(m, o, s) \in Safe(W, X)
<1> DEFINE n == [m EXCEPT !.call[o].state = s]
<1>1. n \in Safe(W, X) /\ n \in From(m) /\ m \in Typed
  BY StateSafe, StateFrom DEF Safe, Ordinary
<1>2. SetState(m, o, s) \in {m, slotCallChanged(n, o)}
  BY DEF SetState
<1> HIDE DEF n
<1>3. slotCallChanged(n, o) \in Safe(W, X)
  BY <1>1, SameObjects, CallChangedSafe
<1> QED
  BY <1>2, <1>3

\* The handlers that leave over what is over.
Lasting(m) == {n \in From(m) : \A o \in 1..Size(m) : Final(m, o) => Final(n, o)}

LEMMA LastingThen ==
  ASSUME NEW m \in Typed
  PROVE  /\ m \in Lasting(m)
         /\ \A n \in Lasting(m) : n \in Typed /\ Size(n) = Size(m) /\ Lasting(n) \subseteq Lasting(m)
<1>1. m \in Lasting(m)
  BY KeptReflexive DEF Lasting
<1>2. ASSUME NEW n \in Lasting(m)
      PROVE  n \in Typed /\ Size(n) = Size(m) /\ Lasting(n) \subseteq Lasting(m)
  <2>1. n \in From(m)
    BY DEF Lasting
  <2>2. n \in Typed /\ Size(n) = Size(m) /\ \A p \in From(n) : p \in From(m)
    BY <2>1, ThenFrom
  <2> QED
    BY <2>2 DEF Lasting
<1> QED
  BY <1>1, <1>2

LEMMA CallChangedLasting ==
  ASSUME NEW m \in Typed, NEW o \in 1..Size(m)
  PROVE  slotCallChanged(m, o) \in Lasting(m)
<1>1. ASSUME NEW x \in Typed, NEW p \in 1..Size(x)
      PROVE  Restored(x, p) \in Lasting(x) /\ Schedule(x, p) \in Lasting(x)
  <2>1. Restored(x, p) \in From(x) /\ Restored(x, p).call = x.call
    BY RestoredFields
  <2>2. Schedule(x, p) \in From(x) /\ Schedule(x, p).call = x.call
    BY ScheduleFrom, TypedFacts DEF Schedule, Models
  <2> QED
    BY <2>1, <2>2 DEF Lasting, Final
<1>2. ASSUME NEW x \in Typed, NEW p \in 1..Size(x)
      PROVE  EndConference(x, p) \in Lasting(x)
  <2> DEFINE n == [x EXCEPT !.call[p].state = "OVER"]
             r == Restated(x.call[p], "OVER")
  <2>1. "OVER" \in Reached \ {"DIALING"} /\ "OVER" \in FinalStates
    BY DEF Reached, State, FinalStates
  <2>2. n \in From(x) /\ n.call[p] = r /\ \A q \in 1..Size(x) : q # p => n.call[q] = x.call[q]
    BY <2>1, StateFrom
  <2>3. r.state = "OVER"
    <3>1. Size(x) \in Nat /\ Sane(x.call[p], Size(x))
      BY TypedFacts
    <3> QED
      BY <2>1, <3>1, RestatedSane
  <2> HIDE DEF n, r
  <2>4. n \in Lasting(x) /\ n \in Typed /\ p \in 1..Size(n)
    BY <2>1, <2>2, <2>3, ThenFrom DEF Lasting, Final
  <2>5. Schedule(n, p) \in Lasting(n)
    BY <1>1, <2>4
  <2> QED
    BY <2>4, <2>5, LastingThen DEF EndConference, n
<1> DEFINE r == Restored(m, o)
           U == Lasting(r)
<1>3. r \in Lasting(m) /\ r \in Typed /\ Lasting(r) \subseteq Lasting(m)
  BY <1>1, LastingThen
<1> HIDE DEF r
<1>4. ASSUME NEW x \in U, NEW p \in 1..Size(r) PROVE EndConference(Restored(x, p), p) \in U
  <2> DEFINE y == Restored(x, p)
  <2>1. x \in Typed /\ p \in 1..Size(x) /\ Lasting(x) \subseteq U
    BY <1>3, <1>4, LastingThen
  <2>2. y \in Lasting(x)
    BY <1>1, <2>1
  <2> HIDE DEF y
  <2>3. y \in Typed /\ p \in 1..Size(y) /\ Lasting(y) \subseteq Lasting(x)
    BY <2>1, <2>2, LastingThen
  <2>4. EndConference(y, p) \in Lasting(y)
    BY <1>2, <2>3
  <2> QED
    BY <2>1, <2>3, <2>4 DEF y
<1>5. r \in U
  BY <1>3, LastingThen
<1> HIDE DEF U
<1>6. Sweep(r) \in U
  BY <1>3, <1>4, <1>5, SweepReaches
<1>7. removeCall(m, o) \in Lasting(m)
  BY <1>3, <1>6 DEF removeCall, r, U
<1>8. Schedule(m, o) \in Lasting(m) /\ m \in Lasting(m)
  BY <1>1, LastingThen
<1> QED
  BY <1>7, <1>8 DEF slotCallChanged

LEMMA SetStateLasting ==
  ASSUME NEW m \in Typed, NEW o \in 1..Size(m), NEW s \in Reached \ {"DIALING"}, s \in FinalStates
  PROVE  SetState(m, o, s) \in Lasting(m) /\ Final(SetState(m, o, s), o)
<1> DEFINE n == [m EXCEPT !.call[o].state = s]
           r == Restated(m.call[o], s)
<1>1. CASE m.call[o].state = s
  BY <1>1, LastingThen DEF SetState, Final
<1>2. CASE m.call[o].state # s
  <2>1. n \in From(m) /\ n.call[o] = r /\ \A q \in 1..Size(m) : q # o => n.call[q] = m.call[q]
    BY StateFrom
  <2>2. r.state = s
    <3>1. Size(m) \in Nat /\ Sane(m.call[o], Size(m))
      BY TypedFacts
    <3> QED
      BY <3>1, RestatedSane
  <2>3. SetState(m, o, s) = slotCallChanged(n, o)
    BY <1>2 DEF SetState
  <2> HIDE DEF n, r
  <2>4. n \in Lasting(m) /\ n \in Typed /\ o \in 1..Size(n) /\ Final(n, o)
    BY <2>1, <2>2, ThenFrom DEF Lasting, Final
  <2>5. slotCallChanged(n, o) \in Lasting(n)
    BY <2>4, CallChangedLasting
  <2> QED
    BY <2>3, <2>4, <2>5, LastingThen DEF Lasting
<1> QED
  BY <1>1, <1>2

LEMMA StateChangedSafe ==
  ASSUME NEW W, NEW X, NEW m \in Safe(W, X), NEW o \in 1..Size(m), NEW s \in DaemonReports
  PROVE  /\ stateChanged(m, o, s) \in Safe(W, X)
         /\ s = "HUNGUP" => Final(stateChanged(m, o, s), o)
<1> DEFINE t     == stateChangedStateMap[m.call[o].state][toDaemonCallState(s)]
           moved == SetState(m, o, t)
           erred == SetState(moved, o, "ERROR")
           miss  == SetMissed(moved, o)
           done  == stateChanged(m, o, s)
<1>1. m \in Typed /\ m.call[o].state \in Ordinary
  <2>1. m \in Typed /\ m.call[o].state # "BUSY"
    BY DEF Safe
  <2>2. m.call[o] \in Record(Size(m))
    BY <2>1, TypedFacts
  <2> QED
    BY <2>1, <2>2 DEF Record, Ordinary
<1>2. /\ t \in Ordinary \ {"DIALING"}
      /\ m.call[o].state \in FinalStates \/ s = "HUNGUP" => t \in FinalStates
  BY <1>1, OverStaysOver
<1>3. done \in {erred, slotCallChanged(miss, o), slotCallChanged(moved, o)}
  BY DEF stateChanged
<1> HIDE DEF t, done
<1>4. /\ "ERROR" \in Ordinary \ {"DIALING"} /\ "ERROR" \in FinalStates
      /\ Ordinary \subseteq Reached
  BY DEF Ordinary, Reached, State, FinalStates
<1>5. moved \in Safe(W, X) /\ moved \in From(m)
  BY <1>1, <1>2, <1>4, SetStateSafe, SetStateFrom DEF Final
<1>6. s = "HUNGUP" => Final(moved, o)
  BY <1>1, <1>2, <1>4, SetStateLasting
<1> HIDE DEF moved
<1>7. moved \in Typed /\ o \in 1..Size(moved)
  BY <1>1, <1>5, SameObjects, ThenFrom
<1>8. miss \in Safe(W, X) /\ miss \in From(moved) /\ miss.call[o].state = moved.call[o].state
  <2>1. miss \in Safe(W, X) /\ miss.call[o].state = moved.call[o].state
    BY <1>5, <1>7, MissedSafe
  <2>2. miss \in From(moved)
    BY <1>7, MissedFrom
  <2> QED
    BY <2>1, <2>2
<1>9. erred \in Safe(W, X) /\ Final(erred, o)
  BY <1>4, <1>5, <1>7, SetStateSafe, SetStateLasting
<1> HIDE DEF miss, erred
<1>10. miss \in Typed /\ o \in 1..Size(miss)
  BY <1>7, <1>8, SameObjects, ThenFrom
<1>11. slotCallChanged(miss, o) \in Safe(W, X) /\ slotCallChanged(moved, o) \in Safe(W, X)
  BY <1>5, <1>7, <1>8, <1>10, CallChangedSafe
<1>12. slotCallChanged(miss, o) \in Lasting(miss) /\ slotCallChanged(moved, o) \in Lasting(moved)
  BY <1>7, <1>10, CallChangedLasting
<1>13. s = "HUNGUP" => Final(slotCallChanged(miss, o), o) /\ Final(slotCallChanged(moved, o), o)
  BY <1>6, <1>7, <1>8, <1>10, <1>12 DEF Lasting, Final
<1> QED
  BY <1>3, <1>9, <1>11, <1>13 DEF done

LEMMA CallStateChangedSafe ==
  ASSUME NEW W, NEW X, NEW m \in Safe(W, X), NEW o \in 1..Size(m), NEW s \in DaemonReports
  PROVE  CallStateChanged(m, o, s) \in Safe(W, X)
<1> DEFINE done == stateChanged(m, o, s)
<1>1. done \in Safe(W, X) /\ (s = "HUNGUP" => Final(done, o))
  BY StateChangedSafe
<1>2. m \in Typed /\ done \in From(m)
  BY StateChangedFrom DEF Safe
<1>3. \/ CallStateChanged(m, o, s) = done
      \/ CallStateChanged(m, o, s) = Schedule(done, o) /\ (s = "HUNGUP" \/ done.call[o].state = "OVER")
  BY DEF CallStateChanged
<1> HIDE DEF done
<1>4. s = "HUNGUP" \/ done.call[o].state = "OVER" => Final(done, o)
  BY <1>1 DEF Final, FinalStates
<1>5. o \in 1..Size(done)
  BY <1>2, SameObjects
<1> QED
  BY <1>1, <1>3, <1>4, <1>5, ScheduleSafe

LEMMA PerformedSafe ==
  ASSUME NEW W, NEW X, NEW m \in Safe(W, X), NEW d, NEW o \in 1..Size(m), NEW a \in {"ACCEPT", "REFUSE"}
  PROVE  Performed(m, d, o, a).model \in Safe(W, X)
<1> DEFINE c == m.call[o]
           t == actionPerformedStateMap[c.state][a]
           e == SetState(m, o, t)
           miss == SetMissed(e, o)
           erred == SetState(miss, o, "ERROR")
           over == SetState(e, o, "OVER")
           gone == slotCallChanged(e, o)
<1>1. m \in Typed /\ c.state \in Ordinary
  <2>1. m \in Typed /\ c.state # "BUSY"
    BY DEF Safe
  <2>2. c \in Record(Size(m))
    BY <2>1, TypedFacts
  <2> QED
    BY <2>1, <2>2 DEF Record, Ordinary
<1>2. t \in Ordinary \ {"DIALING"} /\ (c.state \in FinalStates => t \in FinalStates)
  BY <1>1, OverStaysOver
<1>3. Performed(m, d, o, a).model \in {e, miss, erred, over, gone}
  BY DEF Performed
<1>4. /\ {"ERROR", "OVER"} \subseteq Ordinary \ {"DIALING"} /\ {"ERROR", "OVER"} \subseteq FinalStates
      /\ Ordinary \subseteq Reached
  BY DEF Ordinary, Reached, State, FinalStates
<1>5. e \in Safe(W, X) /\ e \in From(m)
  <2>1. IsConference(m, o) \/ ~Final(m, o) \/ t \in FinalStates
    BY <1>2 DEF Final
  <2> HIDE DEF t
  <2> QED
    BY <1>1, <1>2, <1>4, <2>1, SetStateSafe, SetStateFrom
<1> HIDE DEF e, t, c
<1>6. e \in Typed /\ o \in 1..Size(e)
  BY <1>1, <1>5, SameObjects, ThenFrom
<1>7. miss \in Safe(W, X) /\ over \in Safe(W, X) /\ gone \in Safe(W, X) /\ miss \in From(e)
  BY <1>4, <1>5, <1>6, MissedSafe, MissedFrom, SetStateSafe, CallChangedSafe
<1> HIDE DEF miss, over, gone
<1>8. o \in 1..Size(miss)
  BY <1>6, <1>7, SameObjects
<1>9. erred \in Safe(W, X)
  BY <1>4, <1>7, <1>8, SetStateSafe
<1> QED
  BY <1>3, <1>5, <1>7, <1>9

LEMMA AddCallSafe ==
  ASSUME NEW W, NEW X, NEW m \in Safe(W, X), NEW c, Sane(c, Size(m)), c.state \in Ordinary
  PROVE  addCall(m, c) \in Safe(W, X)
<1> DEFINE n == addCall(m, c)
           k == Size(m)
           o == Size(m) + 1
           J == {m.rows, m.checks, m.removals}
<1>1. m \in Typed
  BY DEF Safe
<1>2. /\ n \in Typed /\ Size(n) = o
      /\ n.call[o] = c /\ \A p \in 1..k : n.call[p] = m.call[p]
      /\ n.rows = IF metaStateMap[c.state] = "FINISHED" THEN m.rows ELSE Append(m.rows, o)
      /\ n.checks = m.checks /\ n.removals = m.removals
  <2>1. LET x == addCall(m, c)
            y == Size(m) + 1
        IN  /\ x \in Typed /\ Size(x) = y
            /\ x.call[y] = c /\ \A p \in 1..Size(m) : x.call[p] = m.call[p]
            /\ x.rows = IF metaStateMap[c.state] = "FINISHED" THEN m.rows
                        ELSE Append(m.rows, y)
            /\ x.checks = m.checks /\ x.removals = m.removals
    BY <1>1, AddCallFields
  <2> QED
    BY <2>1
<1>3. ToSet(m.checks) \subseteq 1..k /\ ToSet(m.removals) \subseteq 1..k
  BY <1>1, TypedFacts, ElementsOf
<1>4. metaStateMap[c.state] = "FINISHED" <=> c.state \in FinalStates
  BY OrdinaryStates
<1>5. ToSet(Append(m.rows, o)) = ToSet(m.rows) \cup {o}
  BY <1>1, TypedFacts, AppendedSet
<1>5a. m.rows \in Seq(1..k)
  BY <1>1, TypedFacts
<1>6. k \in Nat /\ o = k + 1
  BY <1>1, TypedFacts
<1> HIDE DEF n, k, o
<1>7. (\A p \in 1..o : p = o \/ p \in 1..k) /\ (\A p \in 1..k : p \in 1..o)
  BY <1>6
<1>8. /\ \A p \in ToSet(m.rows) : p \in ToSet(n.rows)
      /\ c.state \in FinalStates \/ o \in ToSet(n.rows)
  BY <1>2, <1>4, <1>5
<1>9. \A p \in 1..o : n.call[p].state # "BUSY"
  BY <1>2, <1>7 DEF Safe, k, Ordinary
<1>10. \A p \in ToSet(n.checks) \cup ToSet(n.removals) : IsConference(n, p) \/ Final(n, p)
  BY <1>2, <1>3 DEF Safe, IsConference, Final
<1>11. ASSUME NEW p \in 1..o
       PROVE  IsConference(n, p) \/ Final(n, p) \/ n.call[p].id \in X \/ Sheltered(n, W, p)
  <2>1. CASE p = o
    BY <1>2, <1>8, <2>1 DEF Final, Sheltered
  <2>2. CASE p \in 1..k
    <3>1. IsConference(m, p) \/ Final(m, p) \/ m.call[p].id \in X \/ Sheltered(m, W, p)
      BY <2>2 DEF Safe, k
    <3>2. Sheltered(m, W, p) => Sheltered(n, W, p)
      BY <1>2, <1>7, <1>8 DEF Sheltered, k
    <3> QED
      BY <1>2, <2>2, <3>1, <3>2 DEF IsConference, Final
  <2> QED
    BY <1>7, <2>1, <2>2
<1> QED
  BY <1>2, <1>9, <1>10, <1>11 DEF Safe, n

LEMMA AddIncomingCallSafe ==
  ASSUME NEW W, NEW X, NEW m \in Safe(W, X), NEW d \in Rings, NEW i \in CallId
  PROVE  addIncomingCall(m, d, i).model \in Safe(W, X)
<1> DEFINE b == IF m.known[i] = 0 THEN addCall(m, NewCall("CALL", i, "INCOMING")) ELSE m
           c == NewCall("CALL", i, "INCOMING")
           a == IF m.answer = "AUTO_ANSWER" THEN "ACCEPT" ELSE "REFUSE"
           r == addIncomingCall(m, d, i)
<1>1. m \in Typed /\ i \in Ids
  BY DEF Safe, Ids
<1>2. CASE m.known[i] = 0 /\ ~Known(d, i)
  BY <1>2 DEF addIncomingCall
<1>3. CASE ~(m.known[i] = 0 /\ ~Known(d, i))
  <2>1. "INCOMING" \in Reached \ {"DIALING"} /\ "INCOMING" \in Ordinary
    BY DEF Reached, State, Ordinary
  <2>2. Sane(c, Size(m)) /\ c.id = i /\ c.state = "INCOMING"
    BY <1>1, <2>1, NewCallOfId
  <2> HIDE DEF c
  <2>3. addCall(m, c) \in Safe(W, X) /\ addCall(m, c).known[i] = Size(m) + 1
    BY <1>1, <2>1, <2>2, AddCallSafe, AddCallFields
  <2>4. b \in Safe(W, X) /\ b.known[i] # 0
    <3>1. Size(m) + 1 # 0
      BY <1>1, TypedFacts, Ranges
    <3> QED
      BY <2>3, <3>1 DEF c
  <2>5. \/ r.model = b
        \/ r = Performed(b, d, b.known[i], a)
    BY <1>3 DEF addIncomingCall
  <2>6. a \in {"ACCEPT", "REFUSE"}
    OBVIOUS
  <2> HIDE DEF a, r, b
  <2>7. b.known[i] \in 1..Size(b)
    BY <1>1, <2>4, KnownObject DEF Safe
  <2>8. Performed(b, d, b.known[i], a).model \in Safe(W, X)
    BY <2>4, <2>6, <2>7, PerformedSafe
  <2> QED
    BY <2>4, <2>5, <2>8 DEF r
<1> QED
  BY <1>2, <1>3

LEMMA AddExistingCallSafe ==
  ASSUME NEW W, NEW X, NEW m \in Safe(W, X), NEW d \in Rings, NEW i \in CallId
  PROVE  addExistingCall(m, d, i) \in Safe(W, X)
<1> DEFINE s == StartState(d, i)
           c == NewCall("CALL", i, s)
<1>1. CASE ~Known(d, i)
  BY <1>1 DEF addExistingCall
<1>2. CASE Known(d, i)
  <2>1. s \in Reached \ {"DIALING"} /\ s \in Ordinary
    BY <1>2 DEF StartState, Known, Alive, Reached, State, Ordinary
  <2>2. m \in Typed /\ addExistingCall(m, d, i) = addCall(m, c)
    BY <1>2 DEF addExistingCall, Safe
  <2> HIDE DEF s
  <2>3. Sane(c, Size(m)) /\ c.state = s
    BY <2>1, <2>2, NewCallOfId
  <2> HIDE DEF c
  <2> QED
    BY <2>1, <2>2, <2>3, AddCallSafe
<1> QED
  BY <1>1, <1>2

\* The handlers that take away no row and no child but c, and leave the states alone.
Retaining(m, c) ==
  {n \in From(m) :
     /\ \A o \in 1..Size(m) : n.call[o].state = m.call[o].state
     /\ n.checks = m.checks /\ n.removals = m.removals
     /\ \A q \in 1..Size(m) : q # c =>
          /\ q \in ToSet(m.rows) => q \in ToSet(n.rows)
          /\ \A p \in 1..Size(m) :
               q \in ToSet(m.call[p].children) => q \in ToSet(n.call[p].children)}

LEMMA RetainingThen ==
  ASSUME NEW m \in Typed, NEW c
  PROVE  /\ m \in Retaining(m, c)
         /\ \A n \in Retaining(m, c) :
              n \in Typed /\ Size(n) = Size(m) /\ Retaining(n, c) \subseteq Retaining(m, c)
<1>1. m \in Retaining(m, c)
  BY KeptReflexive DEF Retaining
<1>2. ASSUME NEW n \in Retaining(m, c)
      PROVE  n \in Typed /\ Size(n) = Size(m) /\ Retaining(n, c) \subseteq Retaining(m, c)
  <2>1. n \in From(m)
    BY DEF Retaining
  <2>2. n \in Typed /\ Size(n) = Size(m) /\ \A p \in From(n) : p \in From(m)
    BY <2>1, ThenFrom
  <2>3. ASSUME NEW x \in Retaining(n, c) PROVE x \in Retaining(m, c)
    BY <2>2 DEF Retaining
  <2> QED
    BY <2>2, <2>3
<1> QED
  BY <1>1, <1>2

\* Only the call that is taken away has to be sheltered again.
LEMMA RetainingSafe ==
  ASSUME NEW W, NEW X, NEW Y, NEW m \in Safe(W, X), NEW c, NEW n \in Retaining(m, c),
         c \in 1..Size(m) => ~IsConference(m, c) /\ Sheltered(n, W, c),
         \A q \in 1..Size(m) : q # c /\ m.call[q].id \in X => m.call[q].id \in Y
  PROVE  n \in Safe(W, Y)
<1>1. /\ m \in Typed /\ n \in From(m) /\ n \in Typed /\ Size(n) = Size(m)
      /\ \A o \in 1..Size(m) : n.call[o].id = m.call[o].id /\ n.call[o].type = m.call[o].type
  BY ThenFrom DEF Safe, Retaining
<1>2. \A o \in 1..Size(m) : (IsConference(n, o) <=> IsConference(m, o)) /\ (Final(n, o) <=> Final(m, o))
  BY <1>1 DEF Retaining, IsConference, Final
<1>3. ToSet(m.checks) \subseteq 1..Size(m) /\ ToSet(m.removals) \subseteq 1..Size(m)
  BY <1>1, TypedFacts, ElementsOf
<1>4. \A o \in ToSet(n.checks) \cup ToSet(n.removals) : IsConference(n, o) \/ Final(n, o)
  BY <1>2, <1>3 DEF Safe, Retaining
<1>5. \A o \in 1..Size(n) : n.call[o].state # "BUSY"
  BY <1>1 DEF Safe, Retaining
<1>6. \A p \in 1..Size(m) : ~IsConference(m, p) => ToSet(m.call[p].children) = {}
  <2> SUFFICES ASSUME NEW p \in 1..Size(m), ~IsConference(m, p) PROVE ToSet(m.call[p].children) = {}
    OBVIOUS
  <2>1. m.call[p].children = <<>>
    BY <1>1, ChildrenOf DEF IsConference
  <2> QED
    BY <2>1 DEF ToSet
<1>7. ASSUME NEW q \in 1..Size(m), q # c, Sheltered(m, W, q)
      PROVE  Sheltered(n, W, q)
  <2>1. CASE q \in ToSet(m.rows)
    BY <1>7, <2>1 DEF Sheltered, Retaining
  <2>2. ASSUME NEW p \in 1..Size(m), q \in ToSet(m.call[p].children),
               p \in ToSet(m.rows) \/ m.call[p].id \in W
        PROVE  Sheltered(n, W, q)
    <3>1. IsConference(m, p)
      BY <1>6, <2>2
    <3>2. p # c
      BY <3>1
    <3> QED
      BY <1>1, <1>7, <2>2, <3>2 DEF Sheltered, Retaining
  <2> QED
    BY <1>7, <2>1, <2>2 DEF Sheltered
<1>8. \A q \in 1..Size(n) : \/ IsConference(n, q) \/ Final(n, q)
                            \/ n.call[q].id \in Y \/ Sheltered(n, W, q)
  <2> SUFFICES ASSUME NEW q \in 1..Size(m), ~IsConference(m, q), ~Final(m, q), m.call[q].id \notin Y
               PROVE  Sheltered(n, W, q)
    BY <1>1, <1>2
  <2>1. CASE q = c
    BY <2>1
  <2>2. CASE q # c
    <3>1. m.call[q].id \notin X
      BY <2>2
    <3>2. Sheltered(m, W, q)
      BY <3>1 DEF Safe
    <3> QED
      BY <1>7, <2>2, <3>2
  <2> QED
    BY <2>1, <2>2
<1> QED
  BY <1>1, <1>4, <1>5, <1>8 DEF Safe

LEMMA ChildrenRetaining ==
  ASSUME NEW m \in Typed, NEW o \in 1..Size(m), NEW s \in Seq(1..Size(m)),
         m.call[o].type = "CONFERENCE" \/ s = <<>>, NEW c,
         \A q \in ToSet(m.call[o].children) : q # c => q \in ToSet(s)
  PROVE  LET n == [m EXCEPT !.call[o].children = s]
         IN  n \in Retaining(m, c) /\ n.rows = m.rows /\ n.call[o].children = s
<1> DEFINE n == [m EXCEPT !.call[o].children = s]
           r == [m.call[o] EXCEPT !.children = s]
<1>1. n \in From(m)
  BY ChildrenFrom
<1>2. m \in Models /\ DOMAIN m.call = 1..Size(m) /\ m.call[o] \in Record(Size(m))
  BY TypedFacts
<1>3. r.children = s /\ r.state = m.call[o].state
  BY <1>2 DEF Record
<1>4. /\ n.rows = m.rows /\ n.checks = m.checks /\ n.removals = m.removals
      /\ n.call = [m.call EXCEPT ![o] = r]
  BY <1>2 DEF Models
<1> HIDE DEF n, r
<1>5. n.call[o] = r /\ \A p \in 1..Size(m) : p # o => n.call[p] = m.call[p]
  BY <1>2, <1>4
<1>6. \A p \in 1..Size(m) : n.call[p].state = m.call[p].state
  BY <1>3, <1>5
<1>7. \A p, q \in 1..Size(m) :
        q # c /\ q \in ToSet(m.call[p].children) => q \in ToSet(n.call[p].children)
  BY <1>3, <1>5
<1>8. n \in Retaining(m, c)
  BY <1>1, <1>4, <1>6, <1>7 DEF Retaining
<1> QED
  BY <1>3, <1>4, <1>5, <1>8 DEF n

LEMMA ParentRetaining ==
  ASSUME NEW m \in Typed, NEW o \in 1..Size(m), NEW p \in 0..Size(m),
         m.call[o].type # "CONFERENCE" \/ p = 0, NEW c
  PROVE  LET n == [m EXCEPT !.call[o].parent = p]
         IN  /\ n \in Retaining(m, c) /\ n.rows = m.rows
             /\ \A q \in 1..Size(m) : n.call[q].children = m.call[q].children
<1> DEFINE n == [m EXCEPT !.call[o].parent = p]
           r == [m.call[o] EXCEPT !.parent = p]
<1>1. n \in From(m)
  BY ParentFrom
<1>2. m \in Models /\ DOMAIN m.call = 1..Size(m) /\ m.call[o] \in Record(Size(m))
  BY TypedFacts
<1>3. r.children = m.call[o].children /\ r.state = m.call[o].state
  BY <1>2 DEF Record
<1>4. /\ n.rows = m.rows /\ n.checks = m.checks /\ n.removals = m.removals
      /\ n.call = [m.call EXCEPT ![o] = r]
  BY <1>2 DEF Models
<1> HIDE DEF n, r
<1>5. n.call[o] = r /\ \A q \in 1..Size(m) : q # o => n.call[q] = m.call[q]
  BY <1>2, <1>4
<1>6. \A q \in 1..Size(m) : n.call[q].state = m.call[q].state /\ n.call[q].children = m.call[q].children
  BY <1>3, <1>5
<1>8. n \in Retaining(m, c)
  BY <1>1, <1>4, <1>6 DEF Retaining
<1> QED
  BY <1>4, <1>6, <1>8 DEF n

LEMMA OutRetaining ==
  ASSUME NEW m \in Typed, NEW c \in 1..Size(m)
  PROVE  LET n == removeInternal(m, c)
         IN  n \in Retaining(m, c) /\ n.call = m.call
<1> DEFINE n == removeInternal(m, c)
           S == 1..Size(m)
<1>1. n \in From(m)
  BY RestoredFrom
<1>2. /\ n.rows = RemoveFirst(m.rows, c) /\ n.call = m.call
      /\ n.checks = m.checks /\ n.removals = m.removals
  BY TypedFacts DEF Models, removeInternal
<1>3. \A q \in S : q # c /\ q \in ToSet(m.rows) => q \in ToSet(RemoveFirst(m.rows, c))
  <2>1. m.rows \in Seq(S)
    BY TypedFacts
  <2> HIDE DEF S
  <2> QED
    BY <2>1, RemovedFirst
<1> HIDE DEF n
<1> QED
  BY <1>1, <1>2, <1>3 DEF Retaining, n

\* A child is put below its parent once.
WithChild(s, c) == IF Contains(s, c) THEN s ELSE Append(s, c)

LEMMA WithChildSet ==
  ASSUME NEW S, NEW s \in Seq(S), NEW c \in S
  PROVE  /\ WithChild(s, c) \in Seq(S) /\ c \in ToSet(WithChild(s, c))
         /\ ToSet(s) \subseteq ToSet(WithChild(s, c))
<1>1. CASE Contains(s, c)
  BY <1>1 DEF WithChild, Contains, ToSet
<1>2. CASE ~Contains(s, c)
  BY <1>2, AppendedSet, AppendProperties DEF WithChild
<1> QED
  BY <1>1, <1>2

LEMMA AdoptRetaining ==
  ASSUME NEW m \in Typed, NEW o \in 1..Size(m), NEW c \in 1..Size(m),
         m.call[o].type = "CONFERENCE", m.call[c].type # "CONFERENCE"
  PROVE  /\ Adopt(m, o, c) \in Retaining(m, c)
         /\ c \in ToSet(Adopt(m, o, c).call[o].children)
<1> DEFINE k    == Size(m)
           p    == m.call[c].parent
           fewer == Among(m.call[p].children, DOMAIN m.call \ {c})
           left == IF p \in {0, o} THEN m ELSE [m EXCEPT !.call[p].children = fewer]
           kids == WithChild(left.call[o].children, c)
           out  == removeInternal(left, c)
           told == [out EXCEPT !.call[c].parent = o]
           done == [told EXCEPT !.call[o].children = kids]
<1>1. left \in Retaining(m, c)
  <2>1. CASE p \in {0, o}
    BY <2>1, RetainingThen
  <2>2. CASE p \notin {0, o}
    <3>1. p \in 1..k
      <4>1. p \in 0..k /\ k \in Nat
        BY ChildrenOf, TypedFacts
      <4> HIDE DEF p, k
      <4> QED
        BY <2>2, <4>1, Ranges
    <3> HIDE DEF p
    <3>2. fewer \in Seq(1..k) /\ (m.call[p].type # "CONFERENCE" => fewer = <<>>)
      BY <3>1, AmongChildren
    <3>3. \A q \in ToSet(m.call[p].children) : q # c => q \in ToSet(fewer)
      <4> DEFINE s == m.call[p].children
                 T == DOMAIN m.call \ {c}
      <4>1. s \in Seq(1..k) /\ DOMAIN m.call = 1..k
        BY <3>1, ChildrenOf, TypedFacts
      <4>2. \A q \in ToSet(s) : q \in 1..k
        BY <4>1, ElementsOf
      <4>3. \A q \in ToSet(s) : q # c => q \in T
        BY <4>1, <4>2
      <4> HIDE DEF s, T, k
      <4>4. \A q \in ToSet(s) \cap T : q \in ToSet(Among(s, T))
        BY <4>1, AmongIsPart
      <4> QED
        BY <4>3, <4>4 DEF s, T
    <3> HIDE DEF fewer
    <3>4. [m EXCEPT !.call[p].children = fewer] \in Retaining(m, c)
      BY <3>1, <3>2, <3>3, ChildrenRetaining
    <3> QED
      BY <2>2, <3>4
  <2> QED
    BY <2>1, <2>2
<1> HIDE DEF left
<1>2. /\ left \in Typed /\ Size(left) = k /\ left.call[o].type = "CONFERENCE"
      /\ left.call[c].type # "CONFERENCE" /\ Retaining(left, c) \subseteq Retaining(m, c)
  <2>1. left \in From(m)
    BY <1>1 DEF Retaining
  <2> QED
    BY <1>1, <2>1, RetainingThen, ThenFrom
<1>3. kids \in Seq(1..k) /\ c \in ToSet(kids) /\ ToSet(left.call[o].children) \subseteq ToSet(kids)
  <2> DEFINE s == left.call[o].children
  <2>1. s \in Seq(1..k) /\ c \in 1..k
    BY <1>2, ChildrenOf
  <2> HIDE DEF s, k
  <2>2. WithChild(s, c) \in Seq(1..k) /\ c \in ToSet(WithChild(s, c)) /\ ToSet(s) \subseteq ToSet(WithChild(s, c))
    BY <2>1, WithChildSet
  <2> QED
    BY <2>2 DEF s
<1> HIDE DEF kids
<1>4. out \in Retaining(left, c) /\ out.call = left.call
  BY <1>2, OutRetaining
<1> HIDE DEF out
<1>5. /\ out \in Typed /\ Size(out) = k /\ out.call[o].type = "CONFERENCE"
      /\ out.call[c].type # "CONFERENCE" /\ Retaining(out, c) \subseteq Retaining(left, c)
  BY <1>2, <1>4, RetainingThen
<1>6. o \in 0..k
  OBVIOUS
<1>7. /\ told \in Retaining(out, c)
      /\ \A q \in 1..k : told.call[q].children = out.call[q].children
  <2>1. told \in Retaining(out, c)
    BY <1>5, <1>6, ParentRetaining
  <2>2. \A q \in 1..k : told.call[q].children = out.call[q].children
    BY <1>5, <1>6, ParentRetaining
  <2> QED
    BY <2>1, <2>2
<1>8. Adopt(m, o, c) = done
  <2>1. Adopt(m, o, c) = [out EXCEPT !.call[c].parent = o, !.call[o].children = kids]
    BY DEF Adopt, left, out, kids, WithChild
  <2> QED
    BY <2>1
<1> HIDE DEF told
<1>9. /\ told \in Typed /\ Size(told) = k /\ told.call[o].type = "CONFERENCE"
      /\ Retaining(told, c) \subseteq Retaining(out, c)
  <2>1. told \in From(out)
    BY <1>7 DEF Retaining
  <2> QED
    BY <1>5, <1>7, <2>1, RetainingThen, ThenFrom
<1>10. ToSet(told.call[o].children) \subseteq ToSet(kids)
  BY <1>3, <1>4, <1>7
<1>11. done \in Retaining(told, c) /\ done.call[o].children = kids
  BY <1>3, <1>9, <1>10, ChildrenRetaining
<1> HIDE DEF done
<1> QED
  BY <1>2, <1>3, <1>5, <1>8, <1>9, <1>11

\* The participants are below their conference when they have all been adopted: the ones
\* that had no place, those of X, included.
LEMMA AdoptAllSafe ==
  ASSUME NEW W, NEW X, NEW m \in Safe(W, X), NEW o \in 1..Size(m), IsConference(m, o),
         o \in ToSet(m.rows), NEW s \in Seq(CallId),
         \A q \in 1..Size(m) :
           m.call[q].id \in X => m.call[q].id \in ToSet(s) /\ m.known[m.call[q].id] = q
  PROVE  AdoptAll(m, o, s) \in Safe(W, {})
<1> DEFINE n == Len(s)
           Y(k) == {i \in X : \E j \in 1..n : k < j /\ s[j] = i}
           U == {x \in From(m) : o \in ToSet(x.rows)}
           G == [k \in 0..n |-> Safe(W, Y(k))]
<1>1. m \in Typed
  BY DEF Safe
<1>2. n \in Nat /\ \A j \in 1..n : s[j] \in CallId
  OBVIOUS
<1>3. m \in U
  BY <1>1, KeptReflexive
<1>4. m \in G[0]
  <2>1. m \in Retaining(m, 0) /\ 0 \notin 1..Size(m)
    BY <1>1, RetainingThen, TypedFacts
  <2>2. \A q \in 1..Size(m) : m.call[q].id \in X => m.call[q].id \in Y(0)
    BY <1>2 DEF ToSet
  <2> HIDE DEF Y
  <2>3. m \in Safe(W, Y(0))
    BY <2>1, <2>2, RetainingSafe
  <2> QED
    BY <1>2, <2>3
<1>5. ASSUME NEW x \in U, NEW k \in 1..n
      PROVE  /\ AdoptKnown(x, o, s[k]) \in U
             /\ x \in G[k - 1] => AdoptKnown(x, o, s[k]) \in G[k]
  <2> DEFINE i == s[k]
             c == x.known[i]
             y == AdoptKnown(x, o, i)
  <2>1. /\ x \in Typed /\ o \in 1..Size(x) /\ x.call[o].type = "CONFERENCE"
        /\ x.known = m.known /\ Size(x) = Size(m) /\ \A p \in From(x) : p \in From(m)
        /\ \A q \in 1..Size(m) : x.call[q].id = m.call[q].id
    BY <1>1, ThenFrom DEF From, Kept, IsConference
  <2>2. i \in CallId /\ i \in Ids /\ k \in 0..n /\ k - 1 \in 0..n
    BY <1>2 DEF Ids
  <2>3. G[k - 1] = Safe(W, Y(k - 1)) /\ G[k] = Safe(W, Y(k))
    BY <2>2
  <2>4. \A e \in Y(k - 1) : e = i \/ e \in Y(k)
    BY <1>2
  <2>5. \A q \in 1..Size(x) : x.call[q].id \in Y(k - 1) => x.known[x.call[q].id] = q
    BY <2>1
  <2> HIDE DEF i, Y, G
  <2>6. CASE c = 0
    <3>1. y = x
      BY <2>6 DEF AdoptKnown
    <3>2. x \in Retaining(x, 0) /\ 0 \notin 1..Size(x)
      BY <2>1, RetainingThen, TypedFacts
    <3>3. \A q \in 1..Size(x) : x.call[q].id \in Y(k - 1) => x.call[q].id \in Y(k)
      BY <2>4, <2>5, <2>6, <3>2
    <3>4. x \in Safe(W, Y(k - 1)) => x \in Safe(W, Y(k))
      BY <3>2, <3>3, RetainingSafe
    <3> QED
      BY <2>3, <3>1, <3>4 DEF i
  <2>7. CASE c # 0
    <3>1. c \in 1..Size(x) /\ x.call[c].type # "CONFERENCE"
      BY <2>1, <2>2, <2>7, KnownObject
    <3>2. y = Adopt(x, o, c)
      BY <2>7 DEF AdoptKnown
    <3>3. \A q \in 1..Size(x) : q # c /\ x.call[q].id \in Y(k - 1) => x.call[q].id \in Y(k)
      BY <2>4, <2>5
    <3> HIDE DEF c, y
    <3>4. y \in Retaining(x, c) /\ c \in ToSet(y.call[o].children)
      BY <2>1, <3>1, <3>2, AdoptRetaining
    <3>5. o # c
      BY <2>1, <3>1
    <3>6. y \in From(x) /\ o \in ToSet(y.rows)
      BY <2>1, <3>4, <3>5 DEF Retaining
    <3>7. y \in U
      BY <2>1, <3>6
    <3>8. ~IsConference(x, c) /\ Sheltered(y, W, c)
      <4>1. Size(y) = Size(x)
        BY <2>1, <3>6, ThenFrom
      <4> QED
        BY <2>1, <3>1, <3>4, <3>6, <4>1 DEF Sheltered, IsConference
    <3>9. x \in Safe(W, Y(k - 1)) => y \in Safe(W, Y(k))
      BY <3>3, <3>4, <3>8, RetainingSafe
    <3> QED
      BY <2>3, <3>7, <3>9 DEF i, y
  <2> QED
    BY <2>6, <2>7
<1>6. G[n] = Safe(W, Y(n)) /\ Y(n) = {}
  BY <1>2
<1> HIDE DEF U, G, Y
<1>7. AdoptAll(m, o, s) \in G[n]
  BY <1>3, <1>4, <1>5, AdoptAllReaches
<1> QED
  BY <1>6, <1>7

LEMMA AddConferenceSafe ==
  ASSUME NEW W, NEW m \in Safe(W, {}), NEW d \in Rings, NEW f \in ConfId
  PROVE  addConference(m, d, f) \in Safe(W, {})
<1>1. CASE NoAccount(m, d, f)
  BY <1>1 DEF addConference
<1>2. CASE ~NoAccount(m, d, f)
  <2> DEFINE c == NewCall("CONFERENCE", f, "CONFERENCE")
             added == addCall(m, c)
             o == added.known[f]
             ids == Participants(d, f)
  <2>0. m \in Typed
    BY DEF Safe
  <2>1. Sane(c, Size(m)) /\ c.id = f /\ c.type = "CONFERENCE" /\ c.state = "CONFERENCE"
    BY <2>0, NewConference
  <2>2. addConference(m, d, f) = AdoptAll(added, o, ids)
    BY <1>2 DEF addConference
  <2>3. ids \in Seq(CallId) /\ f \in Ids
    BY ParticipantsAreCalls DEF Ids
  <2>4. "CONFERENCE" \in Ordinary /\ metaStateMap["CONFERENCE"] # "FINISHED"
    BY DEF Ordinary, Reached, State, metaStateMap
  <2> HIDE DEF c, ids
  <2>5. added \in Typed /\ o = Size(m) + 1 /\ added.rows = Append(m.rows, Size(m) + 1)
    BY <2>0, <2>1, <2>3, <2>4, AddCallFields, ZenonT(60)
  <2>6. added \in Safe(W, {})
    BY <2>1, <2>4, AddCallSafe
  <2>7. o # 0
    BY <2>0, <2>5, TypedFacts, Ranges
  <2>8. o \in ToSet(added.rows)
    BY <2>0, <2>5, TypedFacts, AppendedSet
  <2> HIDE DEF added
  <2>9. o \in 1..Size(added) /\ IsConference(added, o)
    BY <2>3, <2>5, <2>7, KnownObject DEF IsConference
  <2> HIDE DEF o
  <2>10. AdoptAll(added, o, ids) \in Safe(W, {})
    BY <2>3, <2>6, <2>8, <2>9, AdoptAllSafe
  <2> QED
    BY <2>2, <2>10
<1> QED
  BY <1>1, <1>2

\* The children whose identifiers are not in ids are back in the rows.
LEMMA DropChildrenSafe ==
  ASSUME NEW W, NEW m \in Safe(W, {}), NEW o \in 1..Size(m), o \in ToSet(m.rows), NEW ids
  PROVE  LET n == DropChildren(m, o, ids)
         IN  n \in Safe(W, ToSet(ids)) /\ o \in ToSet(n.rows)
<1> DEFINE X == ToSet(ids)
           T == {c \in DOMAIN m.call : m.call[c].id \notin X /\ LifeCycle(m, c) # "FINISHED"}
           s == m.call[o].children
           back == Among(s, T)
           freed == AllFreed(m, back)
           rows == freed.rows \o back
           listed == [freed EXCEPT !.rows = rows]
           r == [listed.call[o] EXCEPT !.children = <<>>]
           done == [listed EXCEPT !.call[o].children = <<>>]
           k == Size(m)
<1>1. /\ m \in Typed /\ DOMAIN m.call = 1..k
      /\ \A p \in 1..k : m.call[p].state # "BUSY" /\ m.call[p].state \in Ordinary
  <2>1. m \in Typed /\ \A p \in 1..k : m.call[p].state # "BUSY"
    BY DEF Safe
  <2>2. \A p \in 1..k : m.call[p] \in Record(k)
    BY <2>1, TypedFacts
  <2> QED
    BY <2>1, <2>2, TypedFacts DEF Record, Ordinary
<1>2. back \in Seq(1..k)
  BY <1>1, AmongChildren
<1>3. \A c \in ToSet(s) : m.call[c].id \notin X /\ ~Final(m, c) => c \in ToSet(back)
  <2>1. s \in Seq(1..k)
    BY <1>1, ChildrenOf
  <2>2. \A c \in ToSet(s) : c \in 1..k
    BY <2>1, ElementsOf
  <2>3. \A c \in 1..k : m.call[c].id \notin X /\ ~Final(m, c) => c \in T
    BY <1>1, OrdinaryStates DEF LifeCycle, Final
  <2> HIDE DEF s, T, X, k
  <2>4. \A c \in ToSet(s) \cap T : c \in ToSet(back)
    BY <2>1, AmongIsPart
  <2> QED
    BY <2>2, <2>3, <2>4
<1>4. DropChildren(m, o, ids) = [freed EXCEPT !.rows = @ \o back, !.call[o].children = <<>>]
  BY DEF DropChildren, AllFreed
<1>5. DropChildren(m, o, ids) = done
  BY <1>4
<1>6. DropChildren(m, o, ids) \in From(m)
  BY <1>1, DropChildrenFrom
<1> HIDE DEF back
<1>7. /\ freed \in Retaining(m, 0) /\ freed.rows = m.rows
      /\ \A p \in 1..k : freed.call[p].children = m.call[p].children
  <2> DEFINE U == {x \in Retaining(m, 0) :
                     /\ x.rows = m.rows
                     /\ \A p \in 1..k : x.call[p].children = m.call[p].children}
             S == 1..k
  <2>1. m \in U /\ back \in Seq(S)
    BY <1>1, <1>2, RetainingThen
  <2>2. ASSUME NEW x \in U, NEW c \in S PROVE Freed(x, c) \in U
    <3>1. x \in Typed /\ Size(x) = k /\ Retaining(x, 0) \subseteq Retaining(m, 0)
      BY <1>1, RetainingThen
    <3>2. 0 \in 0..Size(x)
      BY <3>1, TypedFacts, Ranges
    <3> DEFINE y == [x EXCEPT !.call[c].parent = 0]
    <3>3. /\ y \in Retaining(x, 0) /\ y.rows = x.rows
          /\ \A q \in 1..Size(x) : y.call[q].children = x.call[q].children
      BY <3>1, <3>2, ParentRetaining
    <3> HIDE DEF y
    <3>4. y \in U
      BY <3>1, <3>3
    <3> QED
      BY <3>4 DEF Freed, y
  <2> HIDE DEF U, S
  <2>3. freed \in U
    BY <2>1, <2>2, FreedReaches
  <2> QED
    BY <2>3 DEF U
<1> HIDE DEF freed
<1>8. /\ freed \in Typed /\ Size(freed) = k /\ freed \in Models /\ DOMAIN freed.call = 1..k
      /\ freed.checks = m.checks /\ freed.removals = m.removals
      /\ \A p \in 1..k : freed.call[p].state = m.call[p].state /\ freed.call[p] \in Record(k)
  <2>1. freed \in Typed /\ Size(freed) = k
    BY <1>1, <1>7, RetainingThen
  <2> QED
    BY <1>7, <2>1, TypedFacts DEF Retaining
<1>9. /\ listed.rows = rows /\ listed.call = freed.call
      /\ listed.checks = freed.checks /\ listed.removals = freed.removals
  BY <1>8 DEF Models
<1>10. /\ done.rows = rows /\ done.call = [freed.call EXCEPT ![o] = r]
       /\ done.checks = freed.checks /\ done.removals = freed.removals
  BY <1>8, <1>9 DEF Models
<1>11. r.state = m.call[o].state
  BY <1>8, <1>9 DEF Record
<1> HIDE DEF r, listed, done
<1>12. /\ \A p \in 1..k : done.call[p].state = m.call[p].state
       /\ \A p \in 1..k : p # o => done.call[p].children = m.call[p].children
  BY <1>7, <1>8, <1>10, <1>11
<1>13. ToSet(done.rows) = ToSet(m.rows) \cup ToSet(back)
  <2>1. m.rows \in Seq(1..k)
    BY <1>1, TypedFacts
  <2> QED
    BY <1>2, <1>7, <1>10, <2>1, ConcatSet
<1>14. \A c \in 1..k : ~Final(m, c) /\ m.call[c].id \notin X /\ Sheltered(m, W, c) => Sheltered(done, W, c)
  <2> SUFFICES ASSUME NEW c \in 1..k, ~Final(m, c), m.call[c].id \notin X, Sheltered(m, W, c)
               PROVE  Sheltered(done, W, c)
    OBVIOUS
  <2>1. Size(done) = k /\ \A p \in 1..k : done.call[p].id = m.call[p].id
    BY <1>1, <1>5, <1>6, ThenFrom
  <2>2. CASE c \in ToSet(m.rows)
    BY <1>13, <2>2 DEF Sheltered
  <2>3. CASE c \in ToSet(s)
    BY <1>3, <1>13, <2>3 DEF Sheltered
  <2>4. ASSUME NEW p \in 1..k, c \in ToSet(m.call[p].children), p # o,
               p \in ToSet(m.rows) \/ m.call[p].id \in W
        PROVE  Sheltered(done, W, c)
    BY <1>12, <1>13, <2>1, <2>4 DEF Sheltered
  <2> HIDE DEF k
  <2> QED
    BY <2>2, <2>3, <2>4 DEF Sheltered, k, s
<1> HIDE DEF X
<1>15. m \in Safe(W, X)
  BY DEF Safe
<1>16. \A p \in 1..k : (Final(done, p) <=> Final(m, p)) /\ done.call[p].state # "BUSY"
  BY <1>1, <1>12 DEF Final
<1>17. done \in From(m) /\ ToSet(done.checks) = ToSet(m.checks) /\ ToSet(done.removals) = ToSet(m.removals)
  BY <1>5, <1>6, <1>8, <1>10
<1>18. done \in Safe(W, X)
  BY <1>14, <1>15, <1>16, <1>17, SafeBy
<1> QED
  BY <1>5, <1>13, <1>18 DEF X

\* A call is put below a conference that the daemon has, listed or not.
LEMMA ReconcileSafe ==
  ASSUME NEW W, NEW m \in Safe(W, {}), NEW d \in Rings, NEW i \in CallId,
         \A f \in ConfId : d.parts[f] # {} => f \in W
  PROVE  Reconcile(m, d, i) \in Safe(W, {})
<1> DEFINE c    == m.known[i]
           f    == CHOOSE f \in ConferencesOf(d, i) : TRUE
           conf == IF ConferencesOf(d, i) = {} THEN 0 ELSE m.known[f]
           kids == WithChild(m.call[conf].children, c)
           freed == [m EXCEPT !.call[c].parent = 0]
           left == removeInternal(m, c)
           done == [left EXCEPT !.call[conf].children = kids]
<1>0. m \in Typed
  BY DEF Safe
<1>1. Reconcile(m, d, i) \in {m} \cup (IF c # 0 THEN {freed} ELSE {})
                              \cup (IF c # 0 /\ conf # 0 THEN {done} ELSE {})
  BY DEF Reconcile, WithChild
<1>2. i \in Ids
  BY DEF Ids
<1>3. c # 0 => c \in 1..Size(m) /\ m.call[c].type # "CONFERENCE"
  BY <1>0, <1>2, KnownObject
<1>4. conf # 0 => /\ conf \in 1..Size(m) /\ m.call[conf].type = "CONFERENCE"
                  /\ m.call[conf].id \in W
  <2> SUFFICES ASSUME conf # 0
               PROVE  /\ conf \in 1..Size(m) /\ m.call[conf].type = "CONFERENCE"
                      /\ m.call[conf].id \in W
    OBVIOUS
  <2>1. ConferencesOf(d, i) # {} /\ conf = m.known[f]
    OBVIOUS
  <2>2. f \in ConfId /\ f \in Ids /\ f \in W
    BY <2>1 DEF ConferencesOf, Ids
  <2> HIDE DEF conf, f
  <2> QED
    BY <1>0, <2>1, <2>2, KnownObject, TypedFacts
<1> HIDE DEF c, conf, f
<1>5. 0 \notin 1..Size(m) /\ 0 \in 0..Size(m)
  BY <1>0, TypedFacts, Ranges
<1>6. c # 0 => freed \in Safe(W, {})
  <2>1. c # 0 => freed \in Retaining(m, 0)
    BY <1>0, <1>3, <1>5, ParentRetaining
  <2> HIDE DEF freed
  <2> QED
    BY <1>5, <2>1, RetainingSafe
<1>7. ASSUME c # 0, conf # 0 PROVE done \in Safe(W, {})
  <2> DEFINE s == m.call[conf].children
             k == Size(m)
  <2>1. s \in Seq(1..k) /\ c \in 1..k
    BY <1>0, <1>3, <1>4, <1>7, ChildrenOf
  <2>2. left \in Retaining(m, c) /\ left.call = m.call
    BY <1>0, <1>3, <1>7, OutRetaining
  <2> HIDE DEF s, k
  <2>3. kids \in Seq(1..k) /\ c \in ToSet(kids) /\ ToSet(s) \subseteq ToSet(kids)
    BY <2>1, WithChildSet DEF s
  <2> HIDE DEF kids, left
  <2>4. left \in Typed /\ Size(left) = Size(m) /\ Retaining(left, c) \subseteq Retaining(m, c)
    BY <1>0, <2>2, RetainingThen
  <2>5. /\ kids \in Seq(1..Size(left)) /\ left.call[conf].type = "CONFERENCE"
        /\ \A q \in ToSet(left.call[conf].children) : q # c => q \in ToSet(kids)
    BY <1>4, <1>7, <2>2, <2>3, <2>4 DEF s, k
  <2>6. done \in Retaining(left, c) /\ done.call[conf].children = kids
    BY <1>4, <1>7, <2>4, <2>5, ChildrenRetaining
  <2> HIDE DEF done
  <2>7. done \in Retaining(m, c) /\ done \in From(m)
    BY <2>4, <2>6 DEF Retaining
  <2>8. Size(done) = Size(m) /\ done.call[conf].id = m.call[conf].id
    BY <1>0, <1>4, <1>7, <2>7, ThenFrom
  <2>9. ~IsConference(m, c) /\ Sheltered(done, W, c)
    BY <1>3, <1>4, <1>7, <2>3, <2>6, <2>8 DEF Sheltered, IsConference
  <2> QED
    BY <2>7, <2>9, RetainingSafe
<1> QED
  BY <1>1, <1>6, <1>7

LEMMA ChangingConferenceSafe ==
  ASSUME NEW W, NEW m \in Safe(W, {}), Unique(m), NEW d \in Rings, NEW f \in ConfId,
         \A g \in ConfId : d.parts[g] # {} => g \in W
  PROVE  slotChangingConference(m, d, f) \in Safe(W, {})
<1> DEFINE o       == m.known[f]
           ids     == Participants(d, f)
           stated  == [m EXCEPT !.call[o].state = "CONFERENCE"]
           changed == DropChildren(stated, o, ids)
           adopted == AdoptAll(changed, o, ids)
           swept   == IF \E r \in ToSet(adopted.rows) :
                           IsConference(adopted, r) /\ adopted.call[r].children = <<>>
                      THEN Sweep(adopted) ELSE adopted
           done    == AllReconciled(swept, d)
<1>0. m \in Typed
  BY DEF Safe
<1>1. CASE o = 0 \/ ~Contains(m.rows, o)
  BY <1>1 DEF slotChangingConference
<1>2. CASE ~(o = 0 \/ ~Contains(m.rows, o))
  <2>1. slotChangingConference(m, d, f) = done
    BY <1>2 DEF slotChangingConference, AllReconciled
  <2>2. o \in 1..Size(m) /\ m.call[o].type = "CONFERENCE" /\ o \in ToSet(m.rows)
    BY <1>0, <1>2, KnownObject DEF Ids, Contains, ToSet
  <2>3. ids \in Seq(CallId)
    BY ParticipantsAreCalls
  <2>4. "CONFERENCE" \in Ordinary \ {"DIALING"} /\ "CONFERENCE" \in Reached \ {"DIALING"}
    BY DEF Ordinary, Reached, State
  <2> HIDE DEF o, ids
  <2>5. stated \in Safe(W, {})
    BY <2>2, <2>4, StateSafe DEF IsConference
  <2>6. stated \in From(m) /\ stated.rows = m.rows
    BY <1>0, <2>2, <2>4, StateFrom, ZenonT(60)
  <2> HIDE DEF stated
  <2>7. stated \in Typed /\ o \in 1..Size(stated) /\ o \in ToSet(stated.rows)
    BY <1>0, <2>2, <2>6, ThenFrom
  <2>8. changed \in Safe(W, ToSet(ids)) /\ o \in ToSet(changed.rows) /\ changed \in From(stated)
    BY <2>5, <2>7, DropChildrenSafe, DropChildrenFrom
  <2> HIDE DEF changed
  <2>9. changed \in From(m)
    BY <1>0, <2>6, <2>8, ThenFrom
  <2>10. /\ o \in 1..Size(changed) /\ IsConference(changed, o)
         /\ \A q \in 1..Size(changed) :
              changed.call[q].id \in ToSet(ids) => changed.known[changed.call[q].id] = q
    <3>1. /\ Size(changed) = Size(m) /\ changed.known = m.known
          /\ \A q \in 1..Size(m) : changed.call[q].id = m.call[q].id
                                   /\ changed.call[q].type = m.call[q].type
      BY <2>9 DEF From, Kept
    <3>2. "" \notin ToSet(ids)
      <4>1. ToSet(ids) \subseteq CallId
        BY <2>3, ElementsOf
      <4> QED
        BY <4>1, CallIdAssumption
    <3> QED
      BY <2>2, <3>1, <3>2 DEF IsConference, Unique
  <2>11. adopted \in Safe(W, {})
    <3> DEFINE X == ToSet(ids)
    <3>1. /\ changed \in Safe(W, X)
          /\ \A q \in 1..Size(changed) :
               changed.call[q].id \in X => /\ changed.call[q].id \in ToSet(ids)
                                           /\ changed.known[changed.call[q].id] = q
      BY <2>8, <2>10
    <3> HIDE DEF X
    <3> QED
      BY <2>3, <2>8, <2>10, <3>1, AdoptAllSafe
  <2> HIDE DEF adopted
  <2>12. swept \in Safe(W, {})
    BY <2>11, SweepSafe
  <2> HIDE DEF swept
  <2>13. done \in Safe(W, {})
    <3> DEFINE U == Safe(W, {})
    <3>1. swept \in U /\ \A x \in U, i \in CallId : Reconcile(x, d, i) \in U
      BY <2>12, ReconcileSafe
    <3> HIDE DEF U
    <3>2. AllReconciled(swept, d) \in U
      BY <3>1, ReconciledReaches
    <3> QED
      BY <3>2 DEF U
  <2> QED
    BY <2>1, <2>13
<1> QED
  BY <1>1, <1>2

-----------------------------------------------------------------------------
(* The conferences of the daemon.                                          *)

\* Only a conference that the daemon has has participants.
Neat(d) == \A f \in ConfId : d.parts[f] # {} => d.confs[f] = "live"

\* No conference goes without the list being told.
Steady(d) == {e \in Rings : (Neat(d) => Neat(e)) /\ Standing(d) \subseteq Standing(e)}

LEMMA SteadyFacts ==
  ASSUME NEW d \in Rings
  PROVE  /\ d \in Steady(d)
         /\ \A e \in Steady(d) : e \in Rings /\ Steady(e) \subseteq Steady(d)
BY DEF Steady

\* The signals of a queue are also those of a longer one.
LEMMA StandingGrows ==
  ASSUME NEW d \in Rings, NEW e \in Rings, NEW x \in Signals, e.queue = Append(d.queue, x),
         \A f \in ConfId : d.confs[f] = "live" => f \in Standing(e)
  PROVE  Standing(d) \subseteq Standing(e)
<1>1. /\ d.queue \in Seq(Signals) /\ DOMAIN d.queue = 1..Len(d.queue) /\ Len(d.queue) \in Nat
      /\ DOMAIN e.queue = 1..(Len(d.queue) + 1)
      /\ \A j \in 1..Len(d.queue) : e.queue[j] = d.queue[j]
  BY AppendProperties DEF Rings
<1>2. \A j \in DOMAIN d.queue : j \in DOMAIN e.queue /\ e.queue[j] = d.queue[j]
  BY <1>1
<1> QED
  BY <1>2 DEF Standing

LEMMA EmitSteady ==
  ASSUME NEW d \in Rings, NEW s, NEW i, NEW t, [signal |-> s, id |-> i, state |-> t] \in Signals
  PROVE  /\ Emit(d, s, i, t) \in Steady(d)
         /\ s = "conferenceRemoved" => i \in Standing(Emit(d, s, i, t))
<1> DEFINE x == [signal |-> s, id |-> i, state |-> t]
           q == Append(d.queue, x)
           e == Emit(d, s, i, t)
<1>1. d.queue \in Seq(Signals) /\ x \in Signals
  BY DEF Rings
<1>1a. x.signal = s /\ x.id = i /\ (s = "conferenceRemoved" => i \in ConfId)
  BY DEF Signals
<1> HIDE DEF x
<1>2. /\ q \in Seq(Signals) /\ Len(d.queue) + 1 \in DOMAIN q /\ q[Len(d.queue) + 1] = x
  BY <1>1, AppendProperties
<1>3. e = [d EXCEPT !.queue = q]
  BY DEF Emit, x
<1> HIDE DEF q
<1>4. e \in Rings /\ e.queue = q /\ e.confs = d.confs /\ e.parts = d.parts
  BY <1>2, <1>3 DEF Rings
<1> HIDE DEF e
<1>5. \A f \in ConfId : d.confs[f] = "live" => f \in Standing(e)
  BY <1>4 DEF Standing
<1>6. Standing(d) \subseteq Standing(e)
  BY <1>1, <1>4, <1>5, StandingGrows DEF q
<1>7. s = "conferenceRemoved" => i \in Standing(e)
  BY <1>1a, <1>2, <1>4 DEF Standing
<1> QED
  BY <1>4, <1>6, <1>7 DEF Steady, Neat, e

\* The daemon does nothing to its conferences, or takes participants out of one.
LEMMA SameSteady ==
  ASSUME NEW d \in Rings, NEW e \in Rings, e.confs = d.confs, e.queue = d.queue,
         \A f \in ConfId : e.parts[f] \subseteq d.parts[f]
  PROVE  e \in Steady(d)
<1>1. Standing(d) = Standing(e)
  BY DEF Standing
<1>2. Neat(d) => Neat(e)
  BY DEF Neat
<1> QED
  BY <1>1, <1>2 DEF Steady

LEMMA MovedSteady ==
  ASSUME NEW d \in Rings, NEW i \in CallId, NEW to \in DaemonCall \ {"free"}, NEW s \in DaemonReports
  PROVE  Moved(d, i, to, s) \in Steady(d)
<1> DEFINE e == [d EXCEPT !.calls[i] = to]
<1>1. e \in Rings /\ e.confs = d.confs /\ e.queue = d.queue /\ e.parts = d.parts
  BY DEF Rings
<1>2. [signal |-> "callStateChanged", id |-> i, state |-> s] \in Signals
  BY DEF Signals
<1> HIDE DEF e
<1>3. e \in Steady(d)
  BY <1>1, SameSteady
<1>4. Emit(e, "callStateChanged", i, s) \in Steady(e)
  BY <1>1, <1>2, EmitSteady
<1> QED
  BY <1>3, <1>4, SteadyFacts DEF Moved, e

LEMMA FewerSteady ==
  ASSUME NEW d \in Rings, NEW f \in ConfId, NEW p \in SUBSET d.parts[f]
  PROVE  [d EXCEPT !.parts[f] = p] \in Steady(d)
<1> DEFINE e == [d EXCEPT !.parts[f] = p]
<1>1. p \in SUBSET CallId
  BY DEF Rings
<1>2. e \in Rings
  BY <1>1, ConferenceAfter, AfterFacts
<1>3. e.confs = d.confs /\ e.queue = d.queue /\ \A g \in ConfId : e.parts[g] \subseteq d.parts[g]
  BY DEF Rings
<1> HIDE DEF e
<1>4. e \in Steady(d)
  BY <1>2, <1>3, SameSteady
<1> QED
  BY <1>4 DEF e

LEMMA LeavesSteady ==
  ASSUME NEW d \in Rings, NEW i \in CallId
  PROVE  Leaves(d, i) \in Steady(d)
<1>1. CASE ConferencesOf(d, i) = {}
  BY <1>1, SteadyFacts DEF Leaves
<1>2. CASE ConferencesOf(d, i) # {}
  <2> DEFINE f == CHOOSE f \in ConferencesOf(d, i) : TRUE
             p == d.parts[f] \ {i}
             e == [d EXCEPT !.parts[f] = p]
  <2>1. f \in ConfId
    BY <1>2 DEF ConferencesOf
  <2>2. Leaves(d, i) = Emit(e, "conferenceChanged", f, "")
    BY <1>2 DEF Leaves
  <2> HIDE DEF f
  <2>3. p \in SUBSET d.parts[f]
    OBVIOUS
  <2> HIDE DEF p
  <2>4. e \in Steady(d) /\ [signal |-> "conferenceChanged", id |-> f, state |-> ""] \in Signals
    BY <2>1, <2>3, FewerSteady, ConferenceAfter
  <2> HIDE DEF e
  <2>5. e \in Rings /\ Steady(e) \subseteq Steady(d)
    BY <2>4, SteadyFacts
  <2>6. Emit(e, "conferenceChanged", f, "") \in Steady(e)
    BY <2>4, <2>5, EmitSteady
  <2> QED
    BY <2>2, <2>5, <2>6
<1> QED
  BY <1>1, <1>2

LEMMA EndedSteady ==
  ASSUME NEW d \in Rings, NEW i \in CallId, NEW s \in DaemonReports
  PROVE  Ended(d, i, s) \in Steady(d)
<1>1. Leaves(d, i) \in Steady(d) /\ Leaves(d, i) \in Rings
  BY LeavesSteady, SteadyFacts
<1>2. "ended" \in DaemonCall \ {"free"}
  BY DEF DaemonCall
<1>3. Moved(Leaves(d, i), i, "ended", s) \in Steady(Leaves(d, i))
  BY <1>1, <1>2, MovedSteady
<1> QED
  BY <1>1, <1>3, SteadyFacts DEF Ended

LEMMA RequestsSteady ==
  ASSUME NEW d \in Rings, NEW i
  PROVE  /\ Accepted(d, i) \in Steady(d) /\ HungUp(d, i) \in Steady(d)
         /\ i \in ConfId => HungUpConference(d, i) \in Steady(d)
<1>1. /\ {"current", "ended"} \subseteq DaemonCall \ {"free"}
      /\ {"CURRENT", "HUNGUP"} \subseteq DaemonReports
  BY DEF DaemonCall, Alive, DaemonReports
<1>2. Known(d, i) => i \in CallId
  BY DEF Known
<1>3. ASSUME i \in ConfId PROVE HungUpConference(d, i) \in Steady(d)
  <2> DEFINE U == Steady(d)
             none == {}
  <2>1. [d EXCEPT !.parts[i] = none] \in U
    <3>1. none \in SUBSET d.parts[i]
      OBVIOUS
    <3> HIDE DEF none
    <3> QED
      BY <1>3, <3>1, FewerSteady
  <2>2. ASSUME NEW x \in U, NEW j \in CallId PROVE Moved(x, j, "ended", "HUNGUP") \in U
    <3>1. x \in Rings /\ Steady(x) \subseteq U
      BY SteadyFacts
    <3> QED
      BY <1>1, <3>1, MovedSteady
  <2> HIDE DEF U
  <2>3. HungUpConference(d, i) \in U
    BY <1>3, <2>1, <2>2, HungUpConferenceReaches
  <2> QED
    BY <2>3 DEF U
<1> QED
  BY <1>1, <1>2, <1>3, MovedSteady, EndedSteady, SteadyFacts DEF Accepted, HungUp

LEMMA JoinedSteady ==
  ASSUME NEW d \in Rings, NEW i \in CallId, NEW j \in CallId
  PROVE  Joined(d, i, j) \in Steady(d)
<1>1. CASE ~(/\ \A k \in {i, j} : d.calls[k] = "current" /\ ConferencesOf(d, k) = {}
             /\ \E f \in ConfId : d.confs[f] = "free")
  BY <1>1, SteadyFacts DEF Joined
<1>2. CASE /\ \A k \in {i, j} : d.calls[k] = "current" /\ ConferencesOf(d, k) = {}
           /\ \E f \in ConfId : d.confs[f] = "free"
  <2> DEFINE f == CHOOSE f \in ConfId : d.confs[f] = "free"
             p == {i, j}
             e == [d EXCEPT !.confs[f] = "live", !.parts[f] = p]
  <2>1. f \in ConfId
    BY <1>2
  <2>2. Joined(d, i, j) = Emit(e, "conferenceCreated", f, "")
    BY <1>2 DEF Joined
  <2> HIDE DEF f
  <2>3. p \in SUBSET CallId
    OBVIOUS
  <2> HIDE DEF p
  <2>4. e \in After(d) /\ [signal |-> "conferenceCreated", id |-> f, state |-> ""] \in Signals
    BY <2>1, <2>3, ConferenceAfter
  <2>5. /\ e.queue = d.queue /\ e.confs[f] = "live"
        /\ \A g \in ConfId : g # f => e.confs[g] = d.confs[g] /\ e.parts[g] = d.parts[g]
    BY <2>1 DEF Rings
  <2> HIDE DEF e
  <2>6. e \in Rings
    BY <2>4, AfterFacts
  <2>7. e \in Steady(d)
    BY <2>5, <2>6 DEF Steady, Neat, Standing
  <2>8. Emit(e, "conferenceCreated", f, "") \in Steady(e)
    BY <2>4, <2>6, EmitSteady
  <2> QED
    BY <2>2, <2>7, <2>8, SteadyFacts
<1> QED
  BY <1>1, <1>2

LEMMA MergedSteady ==
  ASSUME NEW d \in Rings, NEW f \in ConfId, NEW g \in ConfId, f # g
  PROVE  Merged(d, f, g) \in Steady(d)
<1>1. CASE ~\A h \in {f, g} : d.confs[h] = "live" /\ d.parts[h] # {}
  BY <1>1, SteadyFacts DEF Merged
<1>2. CASE \A h \in {f, g} : d.confs[h] = "live" /\ d.parts[h] # {}
  <2> DEFINE e == [d EXCEPT !.confs[f] = "removed", !.parts[f] = {}, !.parts[g] = @ \cup d.parts[f]]
             one == Emit(e, "conferenceChanged", g, "")
             two == Emit(one, "conferenceRemoved", f, "")
  <2>1. e \in Rings
    BY DEF Rings
  <2>2. Merged(d, f, g) = two
    BY <1>2 DEF Merged
  <2>3. /\ [signal |-> "conferenceChanged", id |-> g, state |-> ""] \in Signals
        /\ [signal |-> "conferenceRemoved", id |-> f, state |-> ""] \in Signals
    BY DEF Signals
  <2>4. /\ e.queue = d.queue /\ e.confs[f] = "removed" /\ e.parts[f] = {}
        /\ \A h \in ConfId : h # f => e.confs[h] = d.confs[h]
        /\ \A h \in ConfId : h # f /\ h # g => e.parts[h] = d.parts[h]
    BY DEF Rings
  <2> HIDE DEF e
  <2>5. one \in Steady(e) /\ one \in Rings
    BY <2>1, <2>3, SteadyFacts, EmitSteady
  <2> HIDE DEF one
  <2>6. two \in Steady(one) /\ f \in Standing(two)
    BY <2>3, <2>5, EmitSteady
  <2>7. two \in Steady(e)
    BY <2>1, <2>5, <2>6, SteadyFacts
  <2> HIDE DEF two
  <2>8. Neat(d) => Neat(e)
    BY <1>2, <2>4 DEF Neat
  <2>9. \A h \in Standing(d) : h = f \/ h \in Standing(e)
    BY <2>4 DEF Standing
  <2> QED
    BY <2>2, <2>6, <2>7, <2>8, <2>9 DEF Steady
<1> QED
  BY <1>1, <1>2

LEMMA PerformedSteady ==
  ASSUME NEW m \in Typed, NEW d \in Rings, NEW o \in 1..Size(m), NEW a \in {"ACCEPT", "REFUSE"}
  PROVE  Performed(m, d, o, a).ring \in Steady(d)
<1> DEFINE i == m.call[o].id
           hung == IF IsConference(m, o) THEN HungUpConference(d, i) ELSE HungUp(d, i)
<1>1. Performed(m, d, o, a).ring \in {d, hung, Accepted(d, i)}
  BY DEF Performed
<1>2. IsConference(m, o) => i \in ConfId
  BY ChildrenOf DEF IsConference
<1> QED
  BY <1>1, <1>2, RequestsSteady, SteadyFacts

\* A handler's answer to the daemon, whatever it is told.
LEMMA DeliveredSteady ==
  ASSUME NEW m \in Typed, NEW d \in Rings, NEW e \in Signals
  PROVE  Delivered(m, d, e).ring \in Steady(d)
<1>1. ASSUME NEW i \in CallId PROVE addIncomingCall(m, d, i).ring \in Steady(d)
  <2> DEFINE c == NewCall("CALL", i, "INCOMING")
             b == IF m.known[i] = 0 THEN addCall(m, c) ELSE m
             a == IF m.answer = "AUTO_ANSWER" THEN "ACCEPT" ELSE "REFUSE"
  <2>1. i \in Ids /\ "INCOMING" \in Reached \ {"DIALING"} /\ a \in {"ACCEPT", "REFUSE"}
    BY DEF Ids, Reached, State
  <2>2. Sane(c, Size(m)) /\ c.id = i
    BY <1>1, <2>1, NewCallOfId
  <2>3. \/ addIncomingCall(m, d, i).ring = d
        \/ addIncomingCall(m, d, i) = Performed(b, d, b.known[i], a)
    BY DEF addIncomingCall
  <2> HIDE DEF c, a
  <2>4. addCall(m, c) \in Typed /\ addCall(m, c).known[i] = Size(m) + 1 /\ Size(m) + 1 # 0
    BY <2>1, <2>2, AddCallFields, TypedFacts, Ranges
  <2>5. b \in Typed /\ b.known[i] # 0
    BY <2>4
  <2> HIDE DEF b
  <2>6. b.known[i] \in 1..Size(b)
    BY <2>1, <2>5, KnownObject
  <2>7. Performed(b, d, b.known[i], a).ring \in Steady(d)
    BY <2>1, <2>5, <2>6, PerformedSteady
  <2> QED
    BY <2>3, <2>7, SteadyFacts
<1>2. ASSUME NEW i \in CallId, NEW s PROVE slotCallStateChanged(m, d, i, s).ring \in Steady(d)
  <2>1. \/ slotCallStateChanged(m, d, i, s) = addIncomingCall(m, d, i)
        \/ slotCallStateChanged(m, d, i, s).ring = d
    BY DEF slotCallStateChanged
  <2> QED
    BY <1>1, <2>1, SteadyFacts
<1>3. \/ e.signal = "callStateChanged" /\ e.id \in CallId
         /\ Delivered(m, d, e) = slotCallStateChanged(m, d, e.id, e.state)
      \/ e.signal = "incomingCall" /\ e.id \in CallId /\ Delivered(m, d, e) = addIncomingCall(m, d, e.id)
      \/ Delivered(m, d, e).ring = d
  BY DEF Delivered, Signals
<1> QED
  BY <1>1, <1>2, <1>3, SteadyFacts

-----------------------------------------------------------------------------
(* No step loses a call that is not over.                                  *)

\* What matters of the conferences is which of them the model knows.
LEMMA SafeWhen ==
  ASSUME NEW W, NEW V, NEW X, NEW m \in Safe(W, X),
         \A p \in 1..Size(m) : m.call[p].id \in W => m.call[p].id \in V
  PROVE  m \in Safe(V, X)
BY DEF Safe, Sheltered

\* What matters of the model is its objects, its rows and its timers.
LEMMA AlikeSafe ==
  ASSUME NEW W, NEW X, NEW m \in Safe(W, X), NEW n \in Typed, n.call = m.call, n.rows = m.rows,
         n.checks = m.checks, n.removals = m.removals
  PROVE  n \in Safe(W, X)
<1>1. Size(n) = Size(m)
  BY DEF Size
<1> QED
  BY <1>1 DEF Safe, Sheltered, IsConference, Final

LEMMA CrashSafe ==
  ASSUME NEW W, NEW X, NEW m \in Safe(W, X)
  PROVE  Crash(m) \in Safe(W, X)
<1> DEFINE n == Crash(m)
<1>1. m \in Typed /\ n \in Typed
  BY CrashGrown DEF Safe, Grown
<1>2. n.call = m.call /\ n.rows = m.rows /\ n.checks = m.checks /\ n.removals = m.removals
  BY <1>1, TypedFacts DEF Crash, Models
<1> HIDE DEF n
<1>3. n \in Safe(W, X)
  BY <1>1, <1>2, AlikeSafe
<1> QED
  BY <1>3 DEF n

LEMMA StartedSafe ==
  ASSUME NEW W, NEW X, NEW m \in Safe(W, X)
  PROVE  [m EXCEPT !.started = TRUE] \in Safe(W, X)
<1> DEFINE n == [m EXCEPT !.started = TRUE]
<1>1. m \in Typed /\ n \in Typed
  BY StartedFields DEF Safe
<1>2. n.call = m.call /\ n.rows = m.rows /\ n.checks = m.checks /\ n.removals = m.removals
  BY <1>1, TypedFacts DEF Models
<1> HIDE DEF n
<1>3. n \in Safe(W, X)
  BY <1>1, <1>2, AlikeSafe
<1> QED
  BY <1>3 DEF n

\* A timer is set for what is over, or fires.
LEMMA TimersSafe ==
  ASSUME NEW W, NEW X, NEW m \in Safe(W, X), NEW s \in Seq(1..Size(m)),
         \A o \in ToSet(s) : IsConference(m, o) \/ Final(m, o)
  PROVE  [m EXCEPT !.checks = s] \in Safe(W, X) /\ [m EXCEPT !.removals = s] \in Safe(W, X)
<1>1. m \in Typed /\ m \in Models /\ \A p \in 1..Size(m) : m.call[p].state # "BUSY"
  BY TypedFacts DEF Safe
<1>2. ASSUME NEW n \in From(m), n.call = m.call, n.rows = m.rows,
             ToSet(n.checks) \cup ToSet(n.removals) \subseteq
               ToSet(m.checks) \cup ToSet(m.removals) \cup ToSet(s)
      PROVE  n \in Safe(W, X)
  <2>1. \A c : Sheltered(m, W, c) => Sheltered(n, W, c)
    BY <1>1, <1>2, ShelterKept
  <2>2. \A o : Final(n, o) <=> Final(m, o)
    BY <1>2 DEF Final
  <2>3. \A o \in ToSet(n.checks) \cup ToSet(n.removals) :
          o \in ToSet(m.checks) \cup ToSet(m.removals) \/ IsConference(m, o) \/ Final(n, o)
    BY <1>2, <2>2
  <2>4. \A o \in 1..Size(m) : n.call[o].state # "BUSY"
    BY <1>1, <1>2
  <2> QED
    BY <2>1, <2>2, <2>3, <2>4, SafeBy
<1>3. [m EXCEPT !.checks = s] \in From(m) /\ [m EXCEPT !.removals = s] \in From(m)
  BY <1>1, ListsFields
<1>4. [m EXCEPT !.checks = s] \in Safe(W, X)
  <2> DEFINE n == [m EXCEPT !.checks = s]
  <2>1. n.call = m.call /\ n.rows = m.rows /\ n.checks = s /\ n.removals = m.removals
    BY <1>1 DEF Models
  <2> HIDE DEF n
  <2>2. n \in From(m) => n \in Safe(W, X)
    BY <1>2, <2>1
  <2> QED
    BY <1>3, <2>2 DEF n
<1>5. [m EXCEPT !.removals = s] \in Safe(W, X)
  <2> DEFINE n == [m EXCEPT !.removals = s]
  <2>1. n.call = m.call /\ n.rows = m.rows /\ n.checks = m.checks /\ n.removals = s
    BY <1>1 DEF Models
  <2> HIDE DEF n
  <2>2. n \in From(m) => n \in Safe(W, X)
    BY <1>2, <2>1
  <2> QED
    BY <1>3, <2>2 DEF n
<1> QED
  BY <1>4, <1>5

\* A call that is placed is as well sheltered as when it was dialed.
LEMMA PlacedSafe ==
  ASSUME NEW W, NEW m \in Safe(W, {}), NEW o \in 1..Size(m), NEW i \in CallId,
         m.call[o].state = "DIALING"
  PROVE  Placed(m, o, i) \in Safe(W, {})
<1> DEFINE n == Placed(m, o, i)
           k == Size(m)
           r == Identified(m.call[o], i)
<1>1. /\ n \in Typed /\ Size(n) = k /\ n.call[o] = r
      /\ \A p \in 1..k : p # o => n.call[p] = m.call[p]
      /\ n.rows = m.rows /\ n.checks = m.checks /\ n.removals = m.removals
      /\ m.call[o].type # "CONFERENCE" /\ m.call[o].children = <<>>
  BY PlacedFields DEF Safe
<1>2. m.call[o] \in Record(k) /\ m \in Typed
  BY TypedFacts DEF Safe
<1>3. r.state = "INITIALIZATION" /\ r.type = m.call[o].type /\ r.children = <<>>
  BY <1>1, <1>2 DEF Record, Identified
<1> HIDE DEF n, r
<1>4. \A p \in 1..k : n.call[p].state # "BUSY"
  BY <1>1, <1>3 DEF Safe, k
<1>5. \A p \in 1..k : IsConference(n, p) <=> IsConference(m, p)
  BY <1>1, <1>3 DEF IsConference
<1>6. ~Final(m, o) /\ ~Final(n, o) /\ ~IsConference(m, o)
  BY <1>1, <1>3 DEF Final, FinalStates, IsConference
<1>7. \A p \in 1..k : p # o => (Final(n, p) <=> Final(m, p))
  BY <1>1 DEF Final
<1>8. ToSet(m.checks) \subseteq 1..k /\ ToSet(m.removals) \subseteq 1..k
  BY <1>2, TypedFacts, ElementsOf DEF k
<1>9. \A p \in ToSet(n.checks) \cup ToSet(n.removals) : IsConference(n, p) \/ Final(n, p)
  BY <1>1, <1>5, <1>6, <1>7, <1>8 DEF Safe, k
<1>10. ASSUME NEW c \in 1..k, Sheltered(m, W, c) PROVE Sheltered(n, W, c)
  <2>1. CASE c \in ToSet(m.rows)
    BY <1>1, <2>1 DEF Sheltered
  <2>2. CASE \E p \in 1..k : /\ c \in ToSet(m.call[p].children)
                             /\ p \in ToSet(m.rows) \/ m.call[p].id \in W
    <3>1. PICK p \in 1..k : /\ c \in ToSet(m.call[p].children)
                            /\ p \in ToSet(m.rows) \/ m.call[p].id \in W
      BY <2>2
    <3>2. p # o
      BY <1>1, <3>1 DEF ToSet
    <3> QED
      BY <1>1, <3>1, <3>2 DEF Sheltered, k
  <2> QED
    BY <1>10, <2>1, <2>2 DEF Sheltered, k
<1>11. \A c \in 1..k : IsConference(n, c) \/ Final(n, c) \/ Sheltered(n, W, c)
  BY <1>5, <1>6, <1>7, <1>10 DEF Safe, k
<1>12. n \in Safe(W, {})
  BY <1>1, <1>4, <1>9, <1>11 DEF Safe
<1> QED
  BY <1>12 DEF n

\* The daemon acts on its own.
LEMMA RingSteady ==
  ASSUME TypeInv, Ring
  PROVE  ring' \in Steady(ring)
<1>1. ring \in Rings
  BY DEF TypeInv
<1>2. /\ {"incoming", "connecting", "ringing", "current", "gone"} \subseteq DaemonCall \ {"free"}
      /\ {"INCOMING", "CONNECTING", "RINGING", "CURRENT", "OVER"} \subseteq DaemonReports
      /\ Endings \subseteq DaemonReports
  BY EndingsAssumption DEF DaemonCall, Alive, DaemonReports
<1>3. CASE RingReceives
  <2>1. PICK i \in CallId :
          LET announced == Emit([ring EXCEPT !.calls[i] = "incoming"], "incomingCall", i, "")
          IN  ring' \in {Moved(announced, i, "incoming", "INCOMING"),
                         [Moved(ring, i, "incoming", "INCOMING") EXCEPT !.late = @ \cup {i}]}
    BY <1>3 DEF RingReceives
  <2> DEFINE rung == [ring EXCEPT !.calls[i] = "incoming"]
             announced == Emit(rung, "incomingCall", i, "")
             first == Moved(announced, i, "incoming", "INCOMING")
             moved == Moved(ring, i, "incoming", "INCOMING")
             other == [moved EXCEPT !.late = @ \cup {i}]
  <2>2. ring' \in {first, other}
    BY <2>1
  <2>3. /\ rung \in Rings /\ rung.confs = ring.confs /\ rung.queue = ring.queue
        /\ rung.parts = ring.parts
        /\ [signal |-> "incomingCall", id |-> i, state |-> ""] \in Signals
    BY <1>1, <1>2 DEF Rings, Signals
  <2> HIDE DEF rung
  <2>4. rung \in Steady(ring)
    BY <1>1, <2>3, SameSteady
  <2>5. announced \in Steady(ring) /\ announced \in Rings
    BY <1>1, <2>3, <2>4, EmitSteady, SteadyFacts
  <2> HIDE DEF announced
  <2>6. first \in Steady(ring)
    BY <1>1, <1>2, <2>5, MovedSteady, SteadyFacts
  <2>7. moved \in Steady(ring) /\ moved \in Rings
    BY <1>1, <1>2, MovedSteady, SteadyFacts
  <2> HIDE DEF first, moved
  <2>8. /\ other \in Rings /\ other.confs = moved.confs /\ other.queue = moved.queue
        /\ other.parts = moved.parts
    BY <2>7 DEF Rings
  <2> HIDE DEF other
  <2>9. other \in Steady(moved)
    BY <2>7, <2>8, SameSteady
  <2>10. other \in Steady(ring)
    BY <1>1, <2>7, <2>9, SteadyFacts
  <2> QED
    BY <2>2, <2>6, <2>10
<1>4. CASE RingAnnouncesLate
  <2>1. PICK i \in ring.late :
          ring' = Emit([ring EXCEPT !.late = @ \ {i}], "incomingCall", i, "")
    BY <1>4 DEF RingAnnouncesLate
  <2> DEFINE d == [ring EXCEPT !.late = @ \ {i}]
  <2>2. /\ d \in Rings /\ d.confs = ring.confs /\ d.queue = ring.queue /\ d.parts = ring.parts
        /\ [signal |-> "incomingCall", id |-> i, state |-> ""] \in Signals
    BY <1>1 DEF Rings, Signals
  <2>3. ring' = Emit(d, "incomingCall", i, "")
    BY <2>1
  <2> HIDE DEF d
  <2>4. d \in Steady(ring)
    BY <1>1, <2>2, SameSteady
  <2>5. ring' \in Steady(d)
    BY <2>2, <2>3, EmitSteady
  <2> QED
    BY <1>1, <2>4, <2>5, SteadyFacts
<1>5. CASE RingDials
  BY <1>1, <1>2, <1>5, MovedSteady DEF RingDials
<1>6. CASE RingMoves
  <2>1. \E i \in CallId :
          \/ ring' = Moved(ring, i, "ringing", "RINGING")
          \/ ring' = Moved(ring, i, "current", "CURRENT")
          \/ \E s \in Endings : ring' = Ended(ring, i, s)
    BY <1>6 DEF RingMoves
  <2> QED
    BY <1>1, <1>2, <2>1, MovedSteady, EndedSteady
<1>7. CASE RingForgets
  BY <1>1, <1>2, <1>7, MovedSteady DEF RingForgets
<1>8. CASE RingDissolves
  <2>1. PICK f \in ConfId :
          ring' = Emit([ring EXCEPT !.confs[f] = "removed", !.parts[f] = {}],
                       "conferenceRemoved", f, "")
    BY <1>8 DEF RingDissolves
  <2> DEFINE d == [ring EXCEPT !.confs[f] = "removed", !.parts[f] = {}]
  <2>2. /\ d \in Rings /\ d.queue = ring.queue /\ d.confs[f] = "removed" /\ d.parts[f] = {}
        /\ \A g \in ConfId : g # f => d.confs[g] = ring.confs[g] /\ d.parts[g] = ring.parts[g]
        /\ [signal |-> "conferenceRemoved", id |-> f, state |-> ""] \in Signals
    BY <1>1 DEF Rings, Signals
  <2>3. ring' = Emit(d, "conferenceRemoved", f, "")
    BY <2>1
  <2> HIDE DEF d
  <2>4. ring' \in Steady(d) /\ f \in Standing(ring')
    BY <2>2, <2>3, EmitSteady
  <2>5. Neat(ring) => Neat(d)
    BY <2>2 DEF Neat
  <2>6. \A g \in Standing(ring) : g = f \/ g \in Standing(d)
    BY <2>2 DEF Standing
  <2> QED
    BY <2>4, <2>5, <2>6 DEF Steady
<1>9. CASE RingAdds
  <2>1. PICK i \in CallId, f \in ConfId :
          ring.confs[f] = "live"
          /\ ring' = Emit([ring EXCEPT !.parts[f] = @ \cup {i}], "conferenceChanged", f, "")
    BY <1>9 DEF RingAdds
  <2> DEFINE p == ring.parts[f] \cup {i}
             d == [ring EXCEPT !.parts[f] = p]
  <2>2. p \in SUBSET CallId
    BY <1>1 DEF Rings
  <2>3. ring' = Emit(d, "conferenceChanged", f, "")
    BY <2>1
  <2> HIDE DEF p
  <2>4. /\ d \in Rings /\ d.queue = ring.queue /\ d.confs = ring.confs
        /\ \A g \in ConfId : g # f => d.parts[g] = ring.parts[g]
        /\ [signal |-> "conferenceChanged", id |-> f, state |-> ""] \in Signals
    BY <1>1, <2>2 DEF Rings, Signals
  <2> HIDE DEF d
  <2>5. d \in Steady(ring)
    BY <2>1, <2>4 DEF Steady, Neat, Standing
  <2>6. ring' \in Steady(d)
    BY <2>3, <2>4, EmitSteady
  <2> QED
    BY <1>1, <2>5, <2>6, SteadyFacts
<1> QED
  BY <1>3, <1>4, <1>5, <1>6, <1>7, <1>8, <1>9 DEF Ring

\* Every call that is not over is listed, or below a conference whose end the list is
\* still to hear of; and no participant is in a conference that the daemon has ended.
Guarded == model \in Safe(Standing(ring), {}) /\ Neat(ring)

\* A step that leaves the model alone as far as the calls go, or changes it safely.
LEMMA GuardedBy ==
  ASSUME TypeInv, Guarded, model' \in Safe(Standing(ring), {}), ring' \in Steady(ring)
  PROVE  Guarded'
<1> DEFINE W == Standing(ring)
           V == Standing(ring')
           X == {}
<1>1. Neat(ring') /\ W \subseteq V
  BY DEF Guarded, Steady
<1>2. model' \in Safe(W, X)
  OBVIOUS
<1> HIDE DEF W, V, X
<1>3. \A p \in 1..Size(model') : model'.call[p].id \in W => model'.call[p].id \in V
  BY <1>1
<1>4. model' \in Safe(V, X)
  BY <1>2, <1>3, SafeWhen
<1> QED
  BY <1>1, <1>4 DEF Guarded, V, X

LEMMA InitGuarded ==
  Init => Guarded
<1> SUFFICES ASSUME Init PROVE Guarded
  OBVIOUS
<1>1. model \in Typed
  BY InitInv DEF TypeInv
<1>2. Size(model) = 0 /\ model.checks = <<>> /\ model.removals = <<>>
  BY EmptySeq DEF Init, Size
<1>3. ToSet(model.checks) = {} /\ ToSet(model.removals) = {}
  BY <1>2, EmptySeq DEF ToSet
<1>4. 1..Size(model) = {}
  BY <1>2
<1>5. model \in Safe(Standing(ring), {})
  BY <1>1, <1>3, <1>4 DEF Safe
<1>6. ring.parts = [f \in ConfId |-> {}]
  BY DEF Init
<1>7. Neat(ring)
  BY <1>6 DEF Neat
<1> QED
  BY <1>5, <1>7 DEF Guarded

LEMMA StartGuarded ==
  ASSUME TypeInv, Guarded, Start
  PROVE  Guarded'
<1> DEFINE C == {i \in CallId : Known(ring, i)}
           F == {f \in ConfId : ring.confs[f] = "live"}
           X == {}
           U == Safe(Standing(ring), X)
           added == AddedCalls(model, ring, C)
           done == AddedConferences(added, ring, F)
           n == [done EXCEPT !.started = TRUE]
           G(E) == [D \in SUBSET E |-> U]
<1>1. ring \in Rings /\ model \in U
  BY DEF TypeInv, Guarded
<1>2. model' = n /\ ring' = ring
  BY DEF Start, AddedCalls, AddedConferences
<1>3. C \in SUBSET CallId /\ F \in SUBSET ConfId
  OBVIOUS
<1>4. IsFiniteSet(C) /\ IsFiniteSet(F)
  BY <1>3, CallIdAssumption, FS_Subset
<1>5. \A x \in U, i \in CallId : addExistingCall(x, ring, i) \in U
  <2> HIDE DEF X
  <2> QED
    BY <1>1, AddExistingCallSafe
<1>6. \A x \in U, f \in ConfId : addConference(x, ring, f) \in U
  BY <1>1, AddConferenceSafe
<1>7. \A x \in U : [x EXCEPT !.started = TRUE] \in U
  <2> HIDE DEF X
  <2> QED
    BY StartedSafe
<1> HIDE DEF C, F, U
<1>8. added \in U
  <2> DEFINE f == [p \in U \X C |-> addExistingCall(p[1], ring, p[2])]
             g == G(C)
  <2>1. \A x \in U, i \in C : f[<<x, i>>] \in U
    BY <1>3, <1>5
  <2>2. /\ \A D \in SUBSET C : g[D] = U
        /\ C \in SUBSET C /\ {} \in SUBSET C
        /\ \A D \in SUBSET C, i \in C : D \cup {i} \in SUBSET C
    OBVIOUS
  <2> HIDE DEF f, g
  <2>3. Graded(C, U, g, model, f)
    BY <1>1, <1>4, <2>1, <2>2 DEF Graded
  <2>4. added \in g[C]
    BY <2>3, AddedCallsReach DEF f
  <2> QED
    BY <2>2, <2>4
<1> HIDE DEF added
<1>9. done \in U
  <2> DEFINE f == [p \in U \X F |-> addConference(p[1], ring, p[2])]
             g == G(F)
  <2>1. \A x \in U, i \in F : f[<<x, i>>] \in U
    BY <1>3, <1>6
  <2>2. /\ \A D \in SUBSET F : g[D] = U
        /\ F \in SUBSET F /\ {} \in SUBSET F
        /\ \A D \in SUBSET F, i \in F : D \cup {i} \in SUBSET F
    OBVIOUS
  <2> HIDE DEF f, g
  <2>3. Graded(F, U, g, added, f)
    BY <1>4, <1>8, <2>1, <2>2 DEF Graded
  <2>4. done \in g[F]
    BY <2>3, AddedConferencesReach DEF f
  <2> QED
    BY <2>2, <2>4
<1> HIDE DEF done
<1>10. n \in U
  BY <1>7, <1>9
<1> QED
  BY <1>1, <1>2, <1>10, GuardedBy, SteadyFacts DEF U

LEMMA UserGuarded ==
  ASSUME TypeInv, Separate(model, ring), Guarded, User
  PROVE  Guarded'
<1> DEFINE X == {}
           W == Standing(ring)
<1>1. model \in Typed /\ ring \in Rings /\ model \in Safe(W, X)
  BY DEF TypeInv, Guarded
<1>2. CASE DialingCall
  <2> DEFINE c == NewCall("CALL", "", "DIALING")
  <2>1. model' = addCall(model, c) /\ ring' = ring
    BY <1>2 DEF DialingCall
  <2>2. Sane(c, Size(model)) /\ c.state \in Ordinary
    BY <1>1, NewDialedCall DEF NewCall, Ordinary, Reached, State
  <2> HIDE DEF c, X, W
  <2>3. model' \in Safe(W, X)
    BY <1>1, <2>1, <2>2, AddCallSafe
  <2> QED
    BY <1>1, <2>1, <2>3, GuardedBy, SteadyFacts DEF X, W
<1>3. ASSUME NEW o \in Listed(model), PlaceCall(o) PROVE Guarded'
  <2>1. PICK i \in CallId :
          /\ model.call[o].state = "DIALING" /\ model' = Placed(model, o, i)
          /\ ring' = Moved(ring, i, "connecting", "CONNECTING")
    BY <1>3 DEF PlaceCall, Placed
  <2>2. o \in 1..Size(model)
    BY <1>1, <1>3, ListedObjects
  <2>3. "connecting" \in DaemonCall \ {"free"} /\ "CONNECTING" \in DaemonReports
    BY DEF DaemonCall, Alive, DaemonReports
  <2>4. ring' \in Steady(ring)
    BY <1>1, <2>1, <2>3, MovedSteady
  <2>5. model' \in Safe(W, {})
    <3> HIDE DEF W
    <3> QED
      BY <1>1, <2>1, <2>2, PlacedSafe
  <2> QED
    BY <2>4, <2>5, GuardedBy
<1>4. ASSUME NEW o \in Listed(model), NEW a \in {"ACCEPT", "REFUSE"}, PerformAction(o, a)
      PROVE  Guarded'
  <2>1. model' = Performed(model, ring, o, a).model /\ ring' = Performed(model, ring, o, a).ring
    BY <1>4 DEF PerformAction
  <2>2. o \in 1..Size(model)
    BY <1>1, <1>4, ListedObjects
  <2>3. ring' \in Steady(ring)
    BY <1>1, <2>1, <2>2, PerformedSteady
  <2>4. model' \in Safe(W, X)
    <3> HIDE DEF W, X
    <3> QED
      BY <1>1, <2>1, <2>2, PerformedSafe
  <2> QED
    BY <2>3, <2>4, GuardedBy
<1>5. ASSUME NEW o \in Listed(model), NEW p \in Listed(model),
             JoinCalls(o, p) \/ MergeConferences(o, p) \/ DetachParticipant(o)
      PROVE  Guarded'
  <2> DEFINE i == model.call[o].id
             j == model.call[p].id
  <2>1. o \in 1..Size(model) /\ p \in 1..Size(model)
    BY <1>1, <1>5, ListedObjects
  <2>2. Sane(model.call[o], Size(model)) /\ Sane(model.call[p], Size(model))
    BY <1>1, <2>1, TypedFacts
  <2>3. i \in Ids \cup {""} /\ j \in Ids \cup {""}
    BY <2>2 DEF Sane, Record
  <2>4. model' = model
    BY <1>5 DEF JoinCalls, MergeConferences, DetachParticipant
  <2>5. ring' \in Steady(ring)
    <3>1. CASE JoinCalls(o, p)
      <4>1. i \in CallId /\ j \in CallId /\ ring' = Joined(ring, i, j)
        BY <2>2, <2>3, <3>1 DEF JoinCalls, IsConference, Sane, Ids
      <4> QED
        BY <1>1, <4>1, JoinedSteady
    <3>2. CASE MergeConferences(o, p)
      <4>1. i \in ConfId /\ j \in ConfId /\ o # p /\ ring' = Merged(ring, i, j)
        BY <2>2, <3>2 DEF MergeConferences, IsConference, Sane
      <4>2. i # "" /\ j # ""
        BY <4>1, CallIdAssumption
      <4>3. i # j
        BY <2>1, <4>1, <4>2 DEF Separate, Unique
      <4> QED
        BY <1>1, <4>1, <4>3, MergedSteady
    <3>3. CASE DetachParticipant(o)
      <4>1. i \in CallId /\ ring' = Leaves(ring, i)
        BY <3>3 DEF DetachParticipant
      <4> QED
        BY <1>1, <4>1, LeavesSteady
    <3> QED
      BY <1>5, <3>1, <3>2, <3>3
  <2> QED
    BY <1>1, <2>4, <2>5, GuardedBy
<1> QED
  BY <1>2, <1>3, <1>4, <1>5 DEF User

LEMMA RingGuarded ==
  ASSUME TypeInv, Guarded, Ring
  PROVE  Guarded'
<1>1. model' = model
  BY DEF Ring, RingReceives, RingAnnouncesLate, RingDials, RingMoves, RingForgets,
         RingDissolves, RingAdds
<1> QED
  BY <1>1, RingSteady, GuardedBy DEF Guarded

LEMMA TimerGuarded ==
  ASSUME TypeInv, Guarded, Check \/ AutoClean
  PROVE  Guarded'
<1> DEFINE X == {}
           W == Standing(ring)
<1>1. model \in Typed /\ ring \in Rings /\ model \in Safe(W, X) /\ ring' = ring
  BY DEF TypeInv, Guarded, Check, AutoClean
<1> HIDE DEF X, W
<1>2. ASSUME NEW s \in Seq(1..Size(model)), s # <<>>, s \in {model.checks, model.removals}
      PROVE  /\ Tail(s) \in Seq(1..Size(model)) /\ Head(s) \in 1..Size(model)
             /\ IsConference(model, Head(s)) \/ Final(model, Head(s))
             /\ \A o \in ToSet(Tail(s)) : IsConference(model, o) \/ Final(model, o)
  <2>1. /\ Tail(s) \in Seq(1..Size(model)) /\ Head(s) \in 1..Size(model)
        /\ 1 \in DOMAIN s /\ Head(s) = s[1]
        /\ DOMAIN Tail(s) = 1..(Len(s) - 1) /\ Len(s) \in Nat
        /\ \A j \in 1..(Len(s) - 1) : Tail(s)[j] = s[j + 1] /\ j + 1 \in DOMAIN s
    <3> DEFINE S == 1..Size(model)
    <3>1. s \in Seq(S) /\ s # <<>>
      BY <1>2
    <3> HIDE DEF S
    <3>2. Len(s) \in Nat \ {0} /\ DOMAIN s = 1..Len(s)
      BY <3>1, EmptySeq, LenProperties
    <3>3. /\ Tail(s) \in Seq(S) /\ Head(s) \in S /\ Head(s) = s[1] /\ Len(Tail(s)) = Len(s) - 1
          /\ \A j \in 1..(Len(s) - 1) : Tail(s)[j] = s[j + 1]
      BY <3>1, HeadTailProperties
    <3>4. DOMAIN Tail(s) = 1..(Len(s) - 1)
      BY <3>3
    <3> QED
      BY <3>2, <3>3, <3>4 DEF S
  <2>2. Head(s) \in ToSet(s) /\ ToSet(Tail(s)) \subseteq ToSet(s)
    BY <2>1 DEF ToSet
  <2>3. \A o \in ToSet(s) : IsConference(model, o) \/ Final(model, o)
    BY <1>1, <1>2 DEF Safe
  <2> QED
    BY <2>1, <2>2, <2>3
<1>3. model' \in Safe(W, X)
  <2>1. CASE Check
    <3> DEFINE s == model.checks
               o == Head(s)
               t == Tail(s)
               rest == [model EXCEPT !.checks = t]
               later == [rest EXCEPT !.removals = Append(@, o)]
    <3>1. s \in Seq(1..Size(model)) /\ s # <<>>
      BY <1>1, <2>1, TypedFacts DEF Check
    <3>2. /\ o \in 1..Size(model) /\ t \in Seq(1..Size(model))
          /\ IsConference(model, o) \/ Final(model, o)
          /\ \A p \in ToSet(t) : IsConference(model, p) \/ Final(model, p)
      BY <1>2, <3>1
    <3>3. model' \in {removeCall(rest, o), later, rest}
      BY <2>1 DEF Check
    <3>4. rest.call = model.call
      BY <1>1, TypedFacts DEF Models
    <3> HIDE DEF o, t, s
    <3>5. rest \in Safe(W, X)
      BY <1>1, <3>2, TimersSafe
    <3> HIDE DEF rest
    <3>6. /\ rest \in Typed /\ Size(rest) = Size(model)
          /\ IsConference(rest, o) \/ Final(rest, o)
      BY <3>2, <3>4, <3>5 DEF Safe, Size, IsConference, Final
    <3>7. removeCall(rest, o) \in Safe(W, X)
      BY <3>2, <3>5, <3>6, RemoveCallSafe
    <3>8. later \in Safe(W, X)
      <4> DEFINE u == Append(rest.removals, o)
      <4>1. rest.removals \in Seq(1..Size(rest)) /\ o \in 1..Size(rest)
        BY <3>2, <3>6, TypedFacts
      <4>2. u \in Seq(1..Size(rest)) /\ ToSet(u) = ToSet(rest.removals) \cup {o}
        BY <4>1, AppendedSet, AppendProperties
      <4>3. later = [rest EXCEPT !.removals = u]
        OBVIOUS
      <4> HIDE DEF u
      <4>4. \A p \in ToSet(u) : IsConference(rest, p) \/ Final(rest, p)
        BY <3>5, <3>6, <4>2 DEF Safe
      <4> QED
        BY <3>5, <4>2, <4>3, <4>4, TimersSafe
    <3> QED
      BY <3>3, <3>5, <3>7, <3>8
  <2>2. CASE AutoClean
    <3> DEFINE s == model.removals
               o == Head(s)
               t == Tail(s)
               rest == [model EXCEPT !.removals = t]
    <3>1. s \in Seq(1..Size(model)) /\ s # <<>>
      BY <1>1, <2>2, TypedFacts DEF AutoClean
    <3>2. /\ o \in 1..Size(model) /\ t \in Seq(1..Size(model))
          /\ IsConference(model, o) \/ Final(model, o)
          /\ \A p \in ToSet(t) : IsConference(model, p) \/ Final(model, p)
      BY <1>2, <3>1
    <3>3. model' = removeCall(rest, o)
      BY <2>2 DEF AutoClean
    <3>4. rest.call = model.call
      BY <1>1, TypedFacts DEF Models
    <3> HIDE DEF o, t, s
    <3>5. rest \in Safe(W, X)
      BY <1>1, <3>2, TimersSafe
    <3> HIDE DEF rest
    <3>6. Size(rest) = Size(model) /\ (IsConference(rest, o) \/ Final(rest, o))
      BY <3>2, <3>4 DEF Size, IsConference, Final
    <3> QED
      BY <3>2, <3>3, <3>5, <3>6, RemoveCallSafe
  <2> QED
    BY <2>1, <2>2
<1> QED
  BY <1>1, <1>3, GuardedBy, SteadyFacts DEF X, W

\* A signal that is taken off the queue is the end of a conference, or tells nothing of
\* which conferences there are.
LEMMA TakenOff ==
  ASSUME NEW d \in Rings, d.queue # <<>>, Neat(d)
  PROVE  LET r == [d EXCEPT !.queue = Tail(@)]
             e == Head(d.queue)
         IN  /\ r \in Rings /\ e \in Signals /\ Neat(r)
             /\ \A f \in Standing(d) :
                  f \in Standing(r) \/ (e.signal = "conferenceRemoved" /\ e.id = f)
<1> DEFINE q == Tail(d.queue)
           r == [d EXCEPT !.queue = q]
           e == Head(d.queue)
           n == Len(d.queue)
<1>1. d.queue \in Seq(Signals)
  BY DEF Rings
<1>2. n \in Nat \ {0} /\ DOMAIN d.queue = 1..n
  BY <1>1, EmptySeq, LenProperties
<1>3. /\ q \in Seq(Signals) /\ e \in Signals /\ e = d.queue[1] /\ Len(q) = n - 1
      /\ \A j \in 1..(n - 1) : q[j] = d.queue[j + 1]
  BY <1>1, HeadTailProperties
<1>4. DOMAIN q = 1..(n - 1)
  BY <1>3
<1> HIDE DEF q, e, n
<1>5. r \in Rings /\ r.queue = q /\ r.confs = d.confs /\ r.parts = d.parts
  BY <1>3 DEF Rings
<1> HIDE DEF r
<1>6. Neat(r)
  BY <1>5 DEF Neat
<1>7. ASSUME NEW f \in Standing(d), ~(e.signal = "conferenceRemoved" /\ e.id = f)
      PROVE  f \in Standing(r)
  <2>1. CASE d.confs[f] = "live"
    BY <1>5, <2>1 DEF Standing
  <2>2. CASE \E k \in DOMAIN d.queue :
               d.queue[k].signal = "conferenceRemoved" /\ d.queue[k].id = f
    <3>1. PICK k \in 1..n : d.queue[k].signal = "conferenceRemoved" /\ d.queue[k].id = f
      BY <1>2, <2>2
    <3>2. k # 1
      BY <1>3, <1>7, <3>1
    <3>3. k - 1 \in 1..(n - 1) /\ (k - 1) + 1 = k
      BY <1>2, <3>2
    <3>4. k - 1 \in DOMAIN r.queue /\ r.queue[k - 1] = d.queue[k]
      BY <1>3, <1>4, <1>5, <3>3
    <3> QED
      BY <3>1, <3>4 DEF Standing
  <2> QED
    BY <2>1, <2>2 DEF Standing
<1> QED
  BY <1>3, <1>5, <1>6, <1>7 DEF q, r, e

\* The handlers of the signals, when the daemon is as it is when they run.
LEMMA HandledSafe ==
  ASSUME NEW W, NEW V, NEW m \in Safe(W, {}), Unique(m), NEW d \in Rings, NEW e \in Signals,
         \A g \in ConfId : d.parts[g] # {} => g \in V,
         \A f \in W : f \in V \/ (e.signal = "conferenceRemoved" /\ e.id = f)
  PROVE  Delivered(m, d, e).model \in Safe(V, {})
<1> DEFINE X == {}
           i == e.id
<1>1. m \in Typed /\ m \in Safe(W, X)
  BY DEF Safe
<1>2. ASSUME e.signal # "conferenceRemoved" PROVE m \in Safe(V, X)
  <2>1. \A p \in 1..Size(m) : m.call[p].id \in W => m.call[p].id \in V
    BY <1>2
  <2> HIDE DEF X
  <2> QED
    BY <1>1, <2>1, SafeWhen
<1> HIDE DEF X
<1>3. CASE e.signal = "callStateChanged"
  <2>1. i \in CallId /\ e.state \in DaemonReports /\ i \in Ids
    BY <1>3 DEF Signals, Ids
  <2>2. Delivered(m, d, e) = slotCallStateChanged(m, d, i, e.state)
    BY <1>3 DEF Delivered
  <2>3. m \in Safe(V, X)
    BY <1>2, <1>3
  <2> HIDE DEF i
  <2>4. CASE m.known[i] # 0
    <3>1. m.known[i] \in 1..Size(m)
      BY <1>1, <2>1, <2>4, KnownObject
    <3>2. Delivered(m, d, e).model = CallStateChanged(m, m.known[i], e.state)
      BY <2>2, <2>4 DEF slotCallStateChanged
    <3> QED
      BY <2>1, <2>3, <3>1, <3>2, CallStateChangedSafe DEF X
  <2>5. CASE m.known[i] = 0
    <3>1. Delivered(m, d, e).model \in
            {m, addIncomingCall(m, d, i).model, addExistingCall(m, d, i)}
      BY <2>2, <2>5 DEF slotCallStateChanged
    <3> QED
      BY <2>1, <2>3, <3>1, AddIncomingCallSafe, AddExistingCallSafe DEF X
  <2> QED
    BY <2>4, <2>5
<1>4. CASE e.signal = "incomingCall"
  <2>1. i \in CallId
    BY <1>4 DEF Signals
  <2>2. Delivered(m, d, e) = addIncomingCall(m, d, i)
    BY <1>4 DEF Delivered
  <2> HIDE DEF i
  <2> QED
    BY <1>2, <1>4, <2>1, <2>2, AddIncomingCallSafe DEF X
<1>5. CASE e.signal = "conferenceCreated"
  <2>1. i \in ConfId
    BY <1>5, CallIdAssumption DEF Signals
  <2>2. Delivered(m, d, e).model = slotIncomingConference(m, d, i)
    BY <1>5 DEF Delivered
  <2>3. slotIncomingConference(m, d, i) \in {m, Crash(m), addConference(m, d, i)}
    BY DEF slotIncomingConference
  <2>4. m \in Safe(V, X) /\ m \in Safe(V, {})
    BY <1>2, <1>5 DEF X
  <2> HIDE DEF i
  <2>5. Crash(m) \in Safe(V, X)
    BY <2>4, CrashSafe
  <2>6. addConference(m, d, i) \in Safe(V, {})
    BY <2>1, <2>4, AddConferenceSafe
  <2> QED
    BY <2>2, <2>3, <2>4, <2>5, <2>6 DEF X
<1>6. CASE e.signal = "conferenceChanged"
  <2>1. i \in ConfId
    BY <1>6, CallIdAssumption DEF Signals
  <2>2. Delivered(m, d, e).model = slotChangingConference(m, d, i)
    BY <1>6 DEF Delivered
  <2>3. m \in Safe(V, {})
    BY <1>2, <1>6 DEF X
  <2> HIDE DEF i
  <2> QED
    BY <2>1, <2>2, <2>3, ChangingConferenceSafe
<1>7. CASE e.signal = "conferenceRemoved"
  <2>1. i \in ConfId /\ i \in Ids
    BY <1>7, CallIdAssumption DEF Signals, Ids
  <2>1a. i # ""
    BY <2>1, CallIdAssumption
  <2>2. Delivered(m, d, e).model = slotConferenceRemoved(m, i)
    BY <1>7 DEF Delivered
  <2>3. \A f \in W : f \in V \/ i = f
    OBVIOUS
  <2> HIDE DEF i
  <2> DEFINE o == m.known[i]
  <2>4. \A p \in 1..Size(m) : m.call[p].id = i => p = o
    BY <2>1a DEF Unique
  <2>5. CASE o = 0
    <3>1. 0 \notin 1..Size(m)
      BY <1>1, TypedFacts
    <3>2. \A p \in 1..Size(m) : m.call[p].id \in W => m.call[p].id \in V
      BY <2>3, <2>4, <2>5, <3>1
    <3>3. m \in Safe(V, X)
      BY <1>1, <3>2, SafeWhen
    <3>4. Crash(m) \in Safe(V, X)
      BY <3>3, CrashSafe
    <3>5. slotConferenceRemoved(m, i) = Crash(m)
      BY <2>5 DEF slotConferenceRemoved
    <3> QED
      BY <2>2, <3>4, <3>5 DEF X
  <2>6. CASE o # 0
    <3>1. o \in 1..Size(m)
      BY <1>1, <2>1, <2>6, KnownObject
    <3>2. m.call[o].id = i /\ Sane(m.call[o], Size(m))
      BY <1>1, <2>1, <2>6, <3>1, TypedFacts
    <3>3. IsConference(m, o)
      BY <2>1, <3>2 DEF Sane, IsConference
    <3>4. slotConferenceRemoved(m, i) = removeConference(m, o)
      BY <2>6 DEF slotConferenceRemoved
    <3> HIDE DEF o
    <3>5. \A p \in 1..Size(m) : p # o /\ m.call[p].id \in W => m.call[p].id \in V
      BY <2>3, <2>4
    <3>6. removeConference(m, o) \in Safe(V, X)
      BY <1>1, <3>1, <3>3, <3>5, RemoveConferenceSafe
    <3> QED
      BY <2>2, <3>4, <3>6 DEF X
  <2> QED
    BY <2>5, <2>6
<1> QED
  BY <1>3, <1>4, <1>5, <1>6, <1>7 DEF Signals

LEMMA DeliverGuarded ==
  ASSUME TypeInv, Separate(model, ring), Guarded, Deliver
  PROVE  Guarded'
<1> DEFINE d == [ring EXCEPT !.queue = Tail(@)]
           e == Head(ring.queue)
           W == Standing(ring)
           V == Standing(d)
           Z == Standing(ring')
           X == {}
<1>1. /\ ring \in Rings /\ ring.queue # <<>> /\ Neat(ring) /\ model \in Safe(W, {})
      /\ model \in Typed /\ Unique(model)
  BY DEF TypeInv, Guarded, Separate, Deliver
<1>2. model' = Delivered(model, d, e).model /\ ring' = Delivered(model, d, e).ring
  BY DEF Deliver
<1>3. /\ d \in Rings /\ e \in Signals /\ Neat(d)
      /\ \A f \in W : f \in V \/ (e.signal = "conferenceRemoved" /\ e.id = f)
  BY <1>1, TakenOff
<1> HIDE DEF d, e
<1>4. \A g \in ConfId : d.parts[g] # {} => g \in V
  BY <1>3 DEF Neat, Standing
<1>5. ring' \in Steady(d)
  BY <1>1, <1>2, <1>3, DeliveredSteady
<1>6. V \subseteq Z /\ Neat(ring')
  BY <1>3, <1>5 DEF Steady
<1> HIDE DEF W, V, Z
<1>7. model' \in Safe(V, X)
  BY <1>1, <1>2, <1>3, <1>4, HandledSafe
<1> HIDE DEF X
<1>8. \A p \in 1..Size(model') : model'.call[p].id \in V => model'.call[p].id \in Z
  BY <1>6
<1>9. model' \in Safe(Z, X)
  BY <1>7, <1>8, SafeWhen
<1> QED
  BY <1>6, <1>9 DEF Guarded, Z, X

LEMMA NextGuarded ==
  ASSUME TypeInv, Separate(model, ring), Guarded, [Next]_vars
  PROVE  Guarded'
<1>1. CASE UNCHANGED vars
  BY <1>1 DEF vars, Guarded
<1>2. CASE Check \/ AutoClean
  BY <1>2, TimerGuarded
<1> QED
  BY <1>1, <1>2, StartGuarded, UserGuarded, RingGuarded, DeliverGuarded DEF Next

LEMMA GuardedKeeps ==
  TypeInv /\ Separate(model, ring) /\ Guarded => LiveCallIsKept
<1> SUFFICES ASSUME TypeInv, Separate(model, ring), Guarded,
                    NEW o \in Objects, ~IsConference(model, o), ~Over(o)
             PROVE  \/ o \in Listed(model)
                    \/ \E f \in Standing(ring) :
                         /\ model.known[f] # 0
                         /\ o \in ToSet(model.call[model.known[f]].children)
  BY DEF LiveCallIsKept
<1>1. model \in Typed /\ o \in 1..Size(model) /\ model.call[o] \in Record(Size(model))
  BY TypedFacts DEF TypeInv, Objects
<1>2. model.call[o].state \in Ordinary
  BY <1>1 DEF Guarded, Safe, Record, Ordinary
<1>3. ~Final(model, o)
  BY <1>2, OrdinaryStates DEF Over, LifeCycle, Final
<1>4. Sheltered(model, Standing(ring), o)
  BY <1>1, <1>3 DEF Guarded, Safe
<1>5. CASE o \in ToSet(model.rows)
  BY <1>5 DEF Listed
<1>6. ASSUME NEW p \in 1..Size(model), o \in ToSet(model.call[p].children), p \in ToSet(model.rows)
      PROVE  o \in Listed(model)
  BY <1>6 DEF Listed
<1>7. ASSUME NEW p \in 1..Size(model), o \in ToSet(model.call[p].children),
             model.call[p].id \in Standing(ring)
      PROVE  \E f \in Standing(ring) :
               model.known[f] # 0 /\ o \in ToSet(model.call[model.known[f]].children)
  <2> DEFINE f == model.call[p].id
  <2>1. f \in ConfId /\ f # ""
    BY <1>7, CallIdAssumption DEF Standing
  <2>2. model.known[f] = p /\ p # 0
    BY <1>1, <1>7, <2>1, TypedFacts DEF Separate, Unique
  <2> QED
    BY <1>7, <2>2
<1> QED
  BY <1>4, <1>5, <1>6, <1>7 DEF Sheltered

-----------------------------------------------------------------------------
(* Without conferences: what has ended leaves the list, what was missed stays in it.   *)

\* One object and its place in the list and in the two timers.
InOrder(m, o) ==
  LET s       == m.call[o].state
      missed  == m.call[o].missed
      listed  == o \in ToSet(m.rows)
      pending == o \in ToSet(m.checks) \cup ToSet(m.removals)
  IN  /\ s # "BUSY"
      /\ s \in {"DIALING", "ABORTED"} => ~missed
      /\ pending => Final(m, o)
      /\ o \in ToSet(m.removals) => ~missed \/ s = "ERROR"
      /\ listed => s # "ERROR" /\ (s \in {"OVER", "ABORTED"} /\ ~missed => pending)
      /\ ~listed => s = "ERROR" \/ (Final(m, o) /\ ~missed)

Tidy == {m \in Typed : IsInjective(m.rows) /\ \A o \in 1..Size(m) : InOrder(m, o)}

\* A handler that changes o and nothing else.
Apart(m, o) ==
  {n \in From(m) :
     /\ IsInjective(m.rows) => IsInjective(n.rows)
     /\ \A p \in 1..Size(m) : p # o =>
          /\ n.call[p] = m.call[p]
          /\ p \in ToSet(n.rows) <=> p \in ToSet(m.rows)
          /\ p \in ToSet(n.checks) <=> p \in ToSet(m.checks)
          /\ p \in ToSet(n.removals) <=> p \in ToSet(m.removals)}

LEMMA ApartThen ==
  ASSUME NEW m \in Typed, NEW o \in 1..Size(m)
  PROVE  /\ m \in Apart(m, o)
         /\ \A n \in Apart(m, o) : /\ n \in Typed /\ n \in From(m) /\ Size(n) = Size(m)
                                   /\ Apart(n, o) \subseteq Apart(m, o)
<1>1. m \in Apart(m, o)
  BY KeptReflexive DEF Apart
<1>2. ASSUME NEW n \in Apart(m, o)
      PROVE  /\ n \in Typed /\ n \in From(m) /\ Size(n) = Size(m)
             /\ Apart(n, o) \subseteq Apart(m, o)
  <2>1. n \in From(m)
    BY DEF Apart
  <2>2. n \in Typed /\ Size(n) = Size(m) /\ \A p \in From(n) : p \in From(m)
    BY <2>1, ThenFrom
  <2> QED
    BY <2>1, <2>2 DEF Apart
<1> QED
  BY <1>1, <1>2

LEMMA TidyApart ==
  ASSUME NEW m \in Tidy, NEW o \in 1..Size(m), NEW n \in Apart(m, o), InOrder(n, o)
  PROVE  n \in Tidy
<1>1. m \in Typed /\ IsInjective(m.rows) /\ \A p \in 1..Size(m) : InOrder(m, p)
  BY DEF Tidy
<1>2. n \in Typed /\ Size(n) = Size(m)
  BY <1>1, ApartThen
<1>3. ASSUME NEW p \in 1..Size(m), p # o PROVE InOrder(n, p)
  BY <1>1, <1>3 DEF Apart, InOrder, Final
<1>4. IsInjective(n.rows)
  BY <1>1 DEF Apart
<1> QED
  BY <1>2, <1>3, <1>4 DEF Tidy

\* Calls that are in order are safe.
LEMMA TidyIsSafe ==
  ASSUME NEW m \in Tidy
  PROVE  m \in Safe({}, {})
<1>1. m \in Typed /\ \A o \in 1..Size(m) : InOrder(m, o)
  BY DEF Tidy
<1>2. ToSet(m.checks) \subseteq 1..Size(m) /\ ToSet(m.removals) \subseteq 1..Size(m)
  BY <1>1, TypedFacts, ElementsOf
<1>3. \A o \in 1..Size(m) : m.call[o].state # "BUSY"
  BY <1>1 DEF InOrder
<1>4. \A o \in ToSet(m.checks) \cup ToSet(m.removals) : Final(m, o)
  BY <1>1, <1>2 DEF InOrder
<1>5. \A o \in 1..Size(m) : Final(m, o) \/ o \in ToSet(m.rows)
  BY <1>1 DEF InOrder, Final, FinalStates
<1> QED
  BY <1>1, <1>3, <1>4, <1>5 DEF Safe, Sheltered

LEMMA NoConference ==
  ASSUME ConfId = {}, NEW m \in Typed, NEW o \in 1..Size(m)
  PROVE  ~IsConference(m, o) /\ m.call[o].children = <<>>
<1>1. Sane(m.call[o], Size(m))
  BY TypedFacts
<1> QED
  BY <1>1 DEF Sane, IsConference

LEMMA AmongNone ==
  ASSUME NEW T
  PROVE  Among(<<>>, T) = <<>>
<1> DEFINE S == {}
<1>1. <<>> \in Seq(S)
  BY EmptySeq
<1>2. S \cap T = {}
  OBVIOUS
<1> HIDE DEF S
<1>3. Among(<<>>, T) \in Seq(S \cap T)
  BY <1>1, AmongIsPart
<1>4. Among(<<>>, T) \in Seq({})
  BY <1>2, <1>3
<1> QED
  BY <1>4, EmptySeq

\* A removed object is not listed.
LEMMA RemoveCallApart ==
  ASSUME ConfId = {}, NEW m \in Typed, NEW o \in 1..Size(m), IsInjective(m.rows)
  PROVE  LET n == removeCall(m, o)
         IN  /\ n \in Apart(m, o) /\ n.call = m.call /\ o \notin ToSet(n.rows)
             /\ n.checks = m.checks /\ n.removals = m.removals
<1> DEFINE r == RemoveFirst(m.rows, o)
           n == [m EXCEPT !.rows = r]
           U == {n}
<1>1. m \in Models /\ m.rows \in Seq(1..Size(m))
  BY TypedFacts
<1>2. /\ r \in Seq(1..Size(m)) /\ IsInjective(r) /\ o \notin ToSet(r)
      /\ \A x \in 1..Size(m) : x # o => (x \in ToSet(r) <=> x \in ToSet(m.rows))
  BY <1>1, RemovedFirst
<1>3. Restored(m, o) = n
  <2> DEFINE back == {c \in DOMAIN m.call : m.call[c].state \notin {"OVER", "ERROR"}}
             left == removeInternal(m, o)
  <2>1. left = n /\ n.rows = r
    BY <1>1 DEF removeInternal, Models
  <2>2. m.call[o].children = <<>>
    BY NoConference
  <2>3. Among(m.call[o].children, back) = <<>>
    BY <2>2, AmongNone
  <2>4. Restored(m, o) = [left EXCEPT !.rows = @ \o Among(m.call[o].children, back)]
    BY DEF Restored
  <2> HIDE DEF back, left, n, r
  <2>5. r \o <<>> = r
    BY <1>2, ConcatEmptySeq
  <2>6. Restored(m, o) = [n EXCEPT !.rows = r]
    BY <2>1, <2>3, <2>4, <2>5
  <2> QED
    BY <2>6 DEF n
<1> HIDE DEF r
<1>4. n \in From(m)
  BY <1>2, ListsFields
<1>5. /\ n.call = m.call /\ n.rows = r /\ n.checks = m.checks /\ n.removals = m.removals
  BY <1>1 DEF Models
<1> HIDE DEF n
<1>6. n \in Typed /\ \A p \in 1..Size(n) : ~IsConference(n, p)
  BY <1>4, ThenFrom, NoConference
<1>7. Sweep(n) = n
  <2>1. Sweep(n) \in U
    BY <1>6, SweepReaches
  <2> QED
    BY <2>1
<1>8. n \in Apart(m, o)
  BY <1>2, <1>4, <1>5 DEF Apart
<1> QED
  BY <1>2, <1>3, <1>5, <1>7, <1>8 DEF removeCall

LEMMA ScheduleApart ==
  ASSUME NEW m \in Typed, NEW o \in 1..Size(m)
  PROVE  LET n == Schedule(m, o)
         IN  /\ n \in Apart(m, o) /\ n.call = m.call /\ n.rows = m.rows
             /\ o \in ToSet(n.checks) /\ n.removals = m.removals
<1> DEFINE n == Schedule(m, o)
<1>1. n \in From(m)
  BY ScheduleFrom
<1>2. /\ n.call = m.call /\ n.rows = m.rows /\ n.removals = m.removals
      /\ n.checks = Append(m.checks, o)
  BY TypedFacts DEF Schedule, Models
<1> HIDE DEF n
<1>3. ToSet(n.checks) = ToSet(m.checks) \cup {o}
  BY <1>2, TypedFacts, AppendedSet
<1>4. n \in Apart(m, o)
  BY <1>1, <1>2, <1>3 DEF Apart
<1> QED
  BY <1>2, <1>3, <1>4 DEF n

\* What the list does when it hears that o has changed.
LEMMA CallChangedApart ==
  ASSUME ConfId = {}, NEW m \in Typed, NEW o \in 1..Size(m), IsInjective(m.rows)
  PROVE  LET n == slotCallChanged(m, o)
             s == m.call[o].state
         IN  /\ n \in Apart(m, o) /\ n.call = m.call /\ n.removals = m.removals
             /\ s = "ERROR" => o \notin ToSet(n.rows) /\ n.checks = m.checks
             /\ s # "ERROR" => n.rows = m.rows
             /\ s \in {"ABORTED", "OVER"} => o \in ToSet(n.checks)
             /\ s \notin {"ABORTED", "OVER"} => n.checks = m.checks
<1>1. CASE m.call[o].state = "ERROR"
  <2>1. slotCallChanged(m, o) = removeCall(m, o)
    BY <1>1 DEF slotCallChanged
  <2> QED
    BY <1>1, <2>1, RemoveCallApart
<1>2. CASE m.call[o].state \in {"ABORTED", "OVER"}
  <2>1. slotCallChanged(m, o) = Schedule(m, o)
    BY <1>2 DEF slotCallChanged
  <2> QED
    BY <1>2, <2>1, ScheduleApart
<1>3. CASE m.call[o].state \notin {"ERROR", "ABORTED", "OVER"}
  <2>1. slotCallChanged(m, o) = m
    BY <1>3 DEF slotCallChanged
  <2> QED
    BY <1>3, <2>1, ApartThen
<1> QED
  BY <1>1, <1>2, <1>3

LEMMA SetStateApart ==
  ASSUME ConfId = {}, NEW m \in Typed, NEW o \in 1..Size(m), IsInjective(m.rows),
         NEW s \in Reached \ {"DIALING"}
  PROVE  LET n == SetState(m, o, s)
             was == m.call[o].state
         IN  /\ n \in Apart(m, o) /\ n.removals = m.removals
             /\ n.call[o].state = s /\ n.call[o].missed = m.call[o].missed
             /\ s = was => n = m
             /\ s # was /\ s = "ERROR" => o \notin ToSet(n.rows)
             /\ s # "ERROR" => n.rows = m.rows
             /\ s # was /\ s \in {"ABORTED", "OVER"} => o \in ToSet(n.checks)
             /\ s \notin {"ABORTED", "OVER"} => n.checks = m.checks
<1>1. CASE s = m.call[o].state
  <2>1. SetState(m, o, s) = m
    BY <1>1 DEF SetState
  <2> QED
    BY <1>1, <2>1, ApartThen
<1>2. CASE s # m.call[o].state
  <2> DEFINE p == [m EXCEPT !.call[o].state = s]
             n == slotCallChanged(p, o)
             c == Restated(m.call[o], s)
  <2>1. /\ p \in From(m) /\ p.call[o] = c
        /\ p.rows = m.rows /\ p.checks = m.checks /\ p.removals = m.removals
        /\ \A q \in 1..Size(m) : q # o => p.call[q] = m.call[q]
    BY StateFrom
  <2>2. c.state = s /\ c.missed = m.call[o].missed
    BY TypedFacts, RestatedSane
  <2>3. SetState(m, o, s) = n
    BY <1>2 DEF SetState
  <2> HIDE DEF p, c
  <2>4. p \in Typed /\ Size(p) = Size(m) /\ p \in Apart(m, o)
    BY <2>1, ThenFrom DEF Apart
  <2>5. IsInjective(p.rows) /\ o \in 1..Size(p) /\ p.call[o].state = s
    BY <2>1, <2>2, <2>4
  <2>6. /\ n \in Apart(p, o) /\ n.call = p.call /\ n.removals = p.removals
        /\ s = "ERROR" => o \notin ToSet(n.rows) /\ n.checks = p.checks
        /\ s # "ERROR" => n.rows = p.rows
        /\ s \in {"ABORTED", "OVER"} => o \in ToSet(n.checks)
        /\ s \notin {"ABORTED", "OVER"} => n.checks = p.checks
    BY <2>4, <2>5, CallChangedApart
  <2> HIDE DEF n
  <2>7. n \in Apart(m, o)
    BY <2>4, <2>6, ApartThen
  <2> QED
    BY <1>2, <2>1, <2>2, <2>3, <2>6, <2>7
<1> QED
  BY <1>1, <1>2

LEMMA MissedApart ==
  ASSUME NEW m \in Typed, NEW o \in 1..Size(m)
  PROVE  LET n == SetMissed(m, o)
         IN  /\ n \in Apart(m, o) /\ n.call[o].missed /\ n.call[o].state = m.call[o].state
             /\ n.rows = m.rows /\ n.checks = m.checks /\ n.removals = m.removals
<1> DEFINE n == SetMissed(m, o)
           c == [m.call[o] EXCEPT !.missed = TRUE]
<1>1. /\ n \in From(m) /\ n.call[o] = c
      /\ n.rows = m.rows /\ n.checks = m.checks /\ n.removals = m.removals
      /\ \A p \in 1..Size(m) : p # o => n.call[p] = m.call[p]
  BY MissedFrom
<1>2. c.missed /\ c.state = m.call[o].state
  <2>1. m.call[o] \in Record(Size(m))
    BY TypedFacts
  <2> QED
    BY <2>1 DEF Record
<1> HIDE DEF n, c
<1>3. n \in Apart(m, o)
  BY <1>1 DEF Apart
<1> QED
  BY <1>1, <1>2, <1>3 DEF n

\* What the tables say of a call that is missed, refused or given up.
LEMMA EventFacts ==
  ASSUME NEW s \in Ordinary, NEW r \in DaemonReports
  PROVE  LET e == toDaemonCallState(r)
             t == stateChangedStateMap[s][e]
             f == stateChangedFunctionMap[s][e]
         IN  /\ t # "ABORTED" /\ (s = "ERROR" => t = "ERROR")
             /\ f \in {"failure", "startStop"} =>
                  s \in {"INCOMING", "RINGING"} /\ t \in {"OVER", "FAILURE"}
<1> DEFINE e == toDaemonCallState(r)
<1>1. e \in {"HUNG_UP", "RINGING", "CONNECTING", "CURRENT", "FAILURE", "OVER"}
  BY DEF DaemonReports, toDaemonCallState
<1> HIDE DEF e
<1>2. /\ stateChangedStateMap[s][e] # "ABORTED"
      /\ s = "ERROR" => stateChangedStateMap[s][e] = "ERROR"
      /\ s \in {"INCOMING", "RINGING"} /\ e \in {"HUNG_UP", "FAILURE", "OVER"} =>
           stateChangedStateMap[s][e] \in {"OVER", "FAILURE"}
  <2> USE DEF Ordinary, Reached, State, DaemonState, stateChangedStateMap, DaemonRow
  <2>1. CASE s \in {"INCOMING", "RINGING", "DIALING"}
    BY <1>1, <2>1
  <2>2. CASE s \in {"CURRENT", "HOLD", "FAILURE"}
    BY <1>1, <2>2
  <2>3. CASE s \in {"TRANSFERRED", "TRANSF_HOLD", "OVER", "ERROR", "ABORTED"}
    BY <1>1, <2>3
  <2>4. CASE s \in {"CONFERENCE", "CONFERENCE_HOLD", "INITIALIZATION", "CONNECTED"}
    BY <1>1, <2>4
  <2> QED
    BY <2>1, <2>2, <2>3, <2>4
<1>3. stateChangedFunctionMap[s][e] \in {"failure", "startStop"} =>
        s \in {"INCOMING", "RINGING"} /\ e \in {"HUNG_UP", "FAILURE", "OVER"}
  <2> DEFINE f == stateChangedFunctionMap[s][e]
  <2>1. /\ e \in {"RINGING", "CONNECTING"} => f = OnRinging(s)
        /\ e = "CURRENT" => f = OnCurrent(s)
        /\ e = "HUNG_UP" => f = OnHungUp(s)
        /\ e = "FAILURE" => f = OnFailure(s)
        /\ e = "OVER" => f = OnOver(s)
    BY <1>1 DEF stateChangedFunctionMap, Ordinary, Reached, State, DaemonState
  <2>2. /\ OnRinging(s) \notin {"failure", "startStop"}
        /\ OnCurrent(s) \notin {"failure", "startStop"}
    BY DEF OnRinging, OnCurrent, Placing, GivenUp
  <2>3. /\ OnHungUp(s) \in {"failure", "startStop"} => s \in {"INCOMING", "RINGING"}
        /\ OnFailure(s) \in {"failure", "startStop"} => s \in {"INCOMING", "RINGING"}
        /\ OnOver(s) \in {"failure", "startStop"} => s \in {"INCOMING", "RINGING"}
    BY DEF OnHungUp, OnFailure, OnOver, Placing, GivenUp
  <2> QED
    BY <1>1, <2>1, <2>2, <2>3
<1> QED
  BY <1>2, <1>3 DEF e

LEMMA ActionFacts ==
  ASSUME NEW s \in Ordinary, NEW a \in {"ACCEPT", "REFUSE"}
  PROVE  LET t == actionPerformedStateMap[s][a]
             f == actionPerformedFunctionMap[s][a]
         IN  /\ s = "ERROR" => t = "ERROR"
             /\ t = "ABORTED" => s = "DIALING"
             /\ f = "refuse" => s = "INCOMING" /\ t = "INCOMING"
             /\ f \in {"hangUp", "cancel"} /\ t = "ERROR" => s = "ABORTED"
<1>1. actionPerformedFunctionMap[s][a] = IF a = "ACCEPT" THEN OnAccept(s) ELSE OnRefuse(s)
  BY DEF actionPerformedFunctionMap, Ordinary, Reached, State, Action
<1>2. OnAccept(s) \notin {"refuse", "hangUp", "cancel"}
  BY DEF OnAccept
<1>3. /\ OnRefuse(s) = "refuse" => s = "INCOMING"
      /\ OnRefuse(s) \in {"hangUp", "cancel"} => s \notin {"FAILURE", "ERROR", "OVER", "INCOMING", "DIALING"}
  BY DEF OnRefuse
<1>4. /\ s = "ERROR" => actionPerformedStateMap[s][a] = "ERROR"
      /\ actionPerformedStateMap[s][a] = "ABORTED" => s = "DIALING"
      /\ s = "INCOMING" => actionPerformedStateMap[s][a] = "INCOMING"
      /\ a = "REFUSE" /\ actionPerformedStateMap[s][a] = "ERROR" => s \in {"OVER", "ERROR", "ABORTED"}
  <2> USE DEF Ordinary, Reached, State, Action, actionPerformedStateMap, ActionRow
  <2>1. CASE s \in {"INCOMING", "RINGING", "CURRENT", "DIALING", "HOLD"}
    BY <2>1
  <2>2. CASE s \in {"FAILURE", "CONNECTED", "TRANSFERRED", "TRANSF_HOLD"}
    BY <2>2
  <2>3. CASE s \in {"OVER", "ERROR", "ABORTED", "CONFERENCE", "CONFERENCE_HOLD", "INITIALIZATION"}
    BY <2>3
  <2> QED
    BY <2>1, <2>2, <2>3
<1> QED
  BY <1>1, <1>2, <1>3, <1>4

\* The state of an object that is in order.
LEMMA TidyState ==
  ASSUME NEW m \in Tidy, NEW o \in 1..Size(m)
  PROVE  m \in Typed /\ IsInjective(m.rows) /\ InOrder(m, o) /\ m.call[o].state \in Ordinary
<1>1. m \in Typed /\ IsInjective(m.rows) /\ InOrder(m, o)
  BY DEF Tidy
<1>2. m.call[o] \in Record(Size(m)) /\ m.call[o].state # "BUSY"
  BY <1>1, TypedFacts DEF InOrder
<1> QED
  BY <1>1, <1>2 DEF Record, Ordinary

LEMMA CallChangedTidy ==
  ASSUME ConfId = {}, NEW m \in Tidy, NEW o \in 1..Size(m)
  PROVE  slotCallChanged(m, o) \in Tidy
<1> DEFINE n == slotCallChanged(m, o)
           s == m.call[o].state
<1>1. m \in Typed /\ IsInjective(m.rows) /\ InOrder(m, o)
  BY TidyState
<1>2. /\ n \in Apart(m, o) /\ n.call = m.call /\ n.removals = m.removals
      /\ s = "ERROR" => o \notin ToSet(n.rows) /\ n.checks = m.checks
      /\ s # "ERROR" => n.rows = m.rows
      /\ s \in {"ABORTED", "OVER"} => o \in ToSet(n.checks)
      /\ s \notin {"ABORTED", "OVER"} => n.checks = m.checks
  BY <1>1, CallChangedApart
<1> HIDE DEF n
<1>3. InOrder(n, o)
  BY <1>1, <1>2 DEF InOrder, Final, FinalStates
<1>4. n \in Tidy
  BY <1>2, <1>3, TidyApart
<1> QED
  BY <1>4 DEF n

\* A call is given a state that the tables allow.
LEMMA SetStateTidy ==
  ASSUME ConfId = {}, NEW m \in Tidy, NEW o \in 1..Size(m), NEW s \in Ordinary \ {"DIALING"},
         Final(m, o) => s \in FinalStates,
         m.call[o].state = "ERROR" => s = "ERROR" \/ ~m.call[o].missed,
         s = "ABORTED" => ~m.call[o].missed
  PROVE  LET n == SetState(m, o, s)
         IN  /\ n \in Tidy /\ n \in From(m) /\ n.removals = m.removals
             /\ n.call[o].state = s /\ n.call[o].missed = m.call[o].missed
             /\ s # "ERROR" => n.rows = m.rows
<1> DEFINE n == SetState(m, o, s)
           was == m.call[o].state
<1>1. m \in Typed /\ IsInjective(m.rows) /\ InOrder(m, o) /\ s \in Reached \ {"DIALING"}
  BY TidyState DEF Ordinary
<1>2. /\ n \in Apart(m, o) /\ n.removals = m.removals
      /\ n.call[o].state = s /\ n.call[o].missed = m.call[o].missed
      /\ s = was => n = m
      /\ s # was /\ s = "ERROR" => o \notin ToSet(n.rows)
      /\ s # "ERROR" => n.rows = m.rows
      /\ s # was /\ s \in {"ABORTED", "OVER"} => o \in ToSet(n.checks)
      /\ s \notin {"ABORTED", "OVER"} => n.checks = m.checks
  BY <1>1, SetStateApart
<1> HIDE DEF n
<1>3. InOrder(n, o)
  <2>1. CASE s = was
    BY <1>1, <1>2, <2>1
  <2>2. CASE s # was
    <3>1. s # "BUSY" /\ s # "DIALING" /\ (Final(n, o) <=> s \in FinalStates)
      BY <1>2 DEF Ordinary, Final
    <3>2. CASE s = "ERROR"
      BY <1>1, <1>2, <2>2, <3>1, <3>2 DEF InOrder, FinalStates
    <3>3. CASE s \in {"ABORTED", "OVER"}
      BY <1>1, <1>2, <2>2, <3>1, <3>3 DEF InOrder, FinalStates
    <3>4. CASE s \notin {"ERROR", "ABORTED", "OVER"}
      BY <1>1, <1>2, <2>2, <3>1, <3>4 DEF InOrder, Final, FinalStates
    <3> QED
      BY <3>2, <3>3, <3>4
  <2> QED
    BY <2>1, <2>2
<1>4. n \in Tidy /\ n \in From(m)
  BY <1>1, <1>2, <1>3, TidyApart, ApartThen
<1> QED
  BY <1>2, <1>4 DEF n

\* A call that has not ended, or that ends in the same handler, is marked as missed.
LEMMA MissedTidy ==
  ASSUME NEW m \in Tidy, NEW o \in 1..Size(m), o \in ToSet(m.rows), o \notin ToSet(m.removals),
         m.call[o].state \notin {"DIALING", "ABORTED"}
  PROVE  LET n == SetMissed(m, o)
         IN  n \in Tidy /\ n \in From(m) /\ n.call[o].state = m.call[o].state /\ n.rows = m.rows
<1> DEFINE n == SetMissed(m, o)
<1>1. m \in Typed /\ InOrder(m, o)
  BY TidyState
<1>2. /\ n \in Apart(m, o) /\ n.call[o].missed /\ n.call[o].state = m.call[o].state
      /\ n.rows = m.rows /\ n.checks = m.checks /\ n.removals = m.removals
  BY <1>1, MissedApart
<1> HIDE DEF n
<1>3. InOrder(n, o)
  BY <1>1, <1>2 DEF InOrder, Final
<1>4. n \in Tidy /\ n \in From(m)
  BY <1>1, <1>2, <1>3, TidyApart, ApartThen
<1> QED
  BY <1>2, <1>4 DEF n

LEMMA StateChangedTidy ==
  ASSUME ConfId = {}, NEW m \in Tidy, NEW o \in 1..Size(m), NEW s \in DaemonReports
  PROVE  stateChanged(m, o, s) \in Tidy
<1> DEFINE was   == m.call[o].state
           d     == toDaemonCallState(s)
           t     == stateChangedStateMap[was][d]
           f     == stateChangedFunctionMap[was][d]
           moved == SetState(m, o, t)
           erred == SetState(moved, o, "ERROR")
           miss  == SetMissed(moved, o)
           done  == stateChanged(m, o, s)
<1>1. m \in Typed /\ InOrder(m, o) /\ was \in Ordinary
  BY TidyState
<1>2. /\ t \in Ordinary \ {"DIALING"} /\ (was \in FinalStates => t \in FinalStates)
      /\ t # "ABORTED" /\ (was = "ERROR" => t = "ERROR")
      /\ f \in {"failure", "startStop"} => was \in {"INCOMING", "RINGING"} /\ t \in {"OVER", "FAILURE"}
  <2>1. t \in Ordinary \ {"DIALING"} /\ (was \in FinalStates => t \in FinalStates)
    BY <1>1, OverStaysOver
  <2>2. /\ t # "ABORTED" /\ (was = "ERROR" => t = "ERROR")
        /\ f \in {"failure", "startStop"} => was \in {"INCOMING", "RINGING"} /\ t \in {"OVER", "FAILURE"}
    BY <1>1, EventFacts
  <2> QED
    BY <2>1, <2>2
<1>3. \/ done = erred
      \/ f \in {"failure", "startStop"} /\ done = slotCallChanged(miss, o)
      \/ done = slotCallChanged(moved, o)
  BY DEF stateChanged
<1> HIDE DEF t, done, f
<1>4. /\ moved \in Tidy /\ moved \in From(m) /\ moved.removals = m.removals
      /\ moved.call[o].state = t /\ (t # "ERROR" => moved.rows = m.rows)
  BY <1>1, <1>2, SetStateTidy DEF Final
<1> HIDE DEF moved
<1>5. moved \in Typed /\ o \in 1..Size(moved)
  BY <1>1, <1>4, ThenFrom
<1>6. "ERROR" \in Ordinary \ {"DIALING"} /\ "ERROR" \in FinalStates
  BY DEF Ordinary, Reached, State, FinalStates
<1>7. erred \in Tidy /\ slotCallChanged(moved, o) \in Tidy
  BY <1>4, <1>5, <1>6, SetStateTidy, CallChangedTidy
<1>8. ASSUME f \in {"failure", "startStop"} PROVE slotCallChanged(miss, o) \in Tidy
  <2>1. was \in {"INCOMING", "RINGING"} /\ t \in {"OVER", "FAILURE"}
    BY <1>2, <1>8
  <2> HIDE DEF was
  <2>2. o \in ToSet(m.rows) /\ o \notin ToSet(m.removals)
    BY <1>1, <2>1 DEF InOrder, Final, FinalStates, was
  <2>3. /\ o \in ToSet(moved.rows) /\ o \notin ToSet(moved.removals)
        /\ moved.call[o].state \notin {"DIALING", "ABORTED"}
    BY <1>4, <2>1, <2>2
  <2>4. miss \in Tidy /\ miss \in From(moved)
    BY <1>4, <1>5, <2>3, MissedTidy
  <2> HIDE DEF miss
  <2>5. o \in 1..Size(miss)
    BY <1>5, <2>4, ThenFrom
  <2> QED
    BY <2>4, <2>5, CallChangedTidy
<1> QED
  BY <1>3, <1>7, <1>8 DEF done

LEMMA ScheduleTidy ==
  ASSUME NEW m \in Tidy, NEW o \in 1..Size(m), Final(m, o)
  PROVE  Schedule(m, o) \in Tidy
<1> DEFINE n == Schedule(m, o)
<1>1. m \in Typed /\ InOrder(m, o)
  BY TidyState
<1>2. /\ n \in Apart(m, o) /\ n.call = m.call /\ n.rows = m.rows
      /\ o \in ToSet(n.checks) /\ n.removals = m.removals
  BY <1>1, ScheduleApart
<1> HIDE DEF n
<1>3. InOrder(n, o)
  BY <1>1, <1>2 DEF InOrder, Final
<1>4. n \in Tidy
  BY <1>2, <1>3, TidyApart
<1> QED
  BY <1>4 DEF n

LEMMA CallStateChangedTidy ==
  ASSUME ConfId = {}, NEW m \in Tidy, NEW o \in 1..Size(m), NEW s \in DaemonReports
  PROVE  CallStateChanged(m, o, s) \in Tidy
<1> DEFINE done == stateChanged(m, o, s)
<1>1. done \in Tidy
  BY StateChangedTidy
<1>2. s = "HUNGUP" => Final(done, o)
  <2> DEFINE X == {}
  <2>1. m \in Safe(X, X)
    BY TidyIsSafe
  <2> HIDE DEF X
  <2> QED
    BY <2>1, StateChangedSafe
<1>3. m \in Typed /\ done \in From(m)
  BY StateChangedFrom, TidyState
<1>4. \/ CallStateChanged(m, o, s) = done
      \/ CallStateChanged(m, o, s) = Schedule(done, o) /\ (s = "HUNGUP" \/ done.call[o].state = "OVER")
  BY DEF CallStateChanged
<1> HIDE DEF done
<1>5. s = "HUNGUP" \/ done.call[o].state = "OVER" => Final(done, o)
  BY <1>2 DEF Final, FinalStates
<1>6. o \in 1..Size(done)
  BY <1>3, ThenFrom
<1> QED
  BY <1>1, <1>4, <1>5, <1>6, ScheduleTidy

LEMMA PerformedTidy ==
  ASSUME ConfId = {}, NEW m \in Tidy, NEW d, NEW o \in 1..Size(m), NEW a \in {"ACCEPT", "REFUSE"}
  PROVE  Performed(m, d, o, a).model \in Tidy
<1> DEFINE was == m.call[o].state
           t == actionPerformedStateMap[was][a]
           f == actionPerformedFunctionMap[was][a]
           e == SetState(m, o, t)
           miss == SetMissed(e, o)
           erred == SetState(miss, o, "ERROR")
           over == SetState(e, o, "OVER")
           gone == slotCallChanged(e, o)
           n == Performed(m, d, o, a).model
<1>1. m \in Typed /\ InOrder(m, o) /\ was \in Ordinary
  BY TidyState
<1>2. /\ t \in Ordinary \ {"DIALING"} /\ (was \in FinalStates => t \in FinalStates)
      /\ was = "ERROR" => t = "ERROR"
      /\ t = "ABORTED" => was = "DIALING"
      /\ f = "refuse" => was = "INCOMING" /\ t = "INCOMING"
      /\ f \in {"hangUp", "cancel"} /\ t = "ERROR" => was = "ABORTED"
  <2>1. t \in Ordinary \ {"DIALING"} /\ (was \in FinalStates => t \in FinalStates)
    BY <1>1, OverStaysOver
  <2>2. /\ was = "ERROR" => t = "ERROR"
        /\ t = "ABORTED" => was = "DIALING"
        /\ f = "refuse" => was = "INCOMING" /\ t = "INCOMING"
        /\ f \in {"hangUp", "cancel"} /\ t = "ERROR" => was = "ABORTED"
    BY <1>1, ActionFacts
  <2> QED
    BY <2>1, <2>2
<1>3. \/ n \in {e, gone}
      \/ f = "refuse" /\ n \in {miss, erred}
      \/ f \in {"hangUp", "cancel"} /\ n = over
  BY DEF Performed
<1>4. was \in {"DIALING", "ABORTED"} => ~m.call[o].missed
  BY <1>1 DEF InOrder
<1> HIDE DEF t, f, n
<1>5. /\ e \in Tidy /\ e \in From(m) /\ e.removals = m.removals
      /\ e.call[o].state = t /\ e.call[o].missed = m.call[o].missed
      /\ t # "ERROR" => e.rows = m.rows
  <2>1. /\ Final(m, o) => t \in FinalStates
        /\ m.call[o].state = "ERROR" => t = "ERROR" \/ ~m.call[o].missed
        /\ t = "ABORTED" => ~m.call[o].missed
    BY <1>2, <1>4 DEF Final
  <2> QED
    BY <1>1, <1>2, <2>1, SetStateTidy
<1> HIDE DEF e
<1>6. e \in Typed /\ o \in 1..Size(e)
  BY <1>1, <1>5, ThenFrom
<1>7. {"ERROR", "OVER"} \subseteq Ordinary \ {"DIALING"} /\ {"ERROR", "OVER"} \subseteq FinalStates
  BY DEF Ordinary, Reached, State, FinalStates
<1>8. gone \in Tidy
  BY <1>5, <1>6, CallChangedTidy
<1>9. ASSUME f = "refuse" PROVE miss \in Tidy /\ erred \in Tidy
  <2>1. was = "INCOMING" /\ t = "INCOMING"
    BY <1>2, <1>9
  <2> HIDE DEF was
  <2>2. o \in ToSet(m.rows) /\ o \notin ToSet(m.removals)
    BY <1>1, <2>1 DEF InOrder, Final, FinalStates, was
  <2>3. miss \in Tidy /\ miss \in From(e)
    BY <1>5, <1>6, <2>1, <2>2, MissedTidy
  <2> HIDE DEF miss
  <2>4. o \in 1..Size(miss)
    BY <1>6, <2>3, ThenFrom
  <2> QED
    BY <1>7, <2>3, <2>4, SetStateTidy
<1>10. ASSUME f \in {"hangUp", "cancel"} PROVE over \in Tidy
  <2>1. e.call[o].state = "ERROR" => ~e.call[o].missed
    BY <1>2, <1>4, <1>5, <1>10
  <2> QED
    BY <1>5, <1>6, <1>7, <2>1, SetStateTidy
<1> QED
  BY <1>3, <1>5, <1>8, <1>9, <1>10 DEF n

LEMMA AppendedInjective ==
  ASSUME NEW S, NEW s \in Seq(S), NEW e, e \notin S, IsInjective(s)
  PROVE  IsInjective(Append(s, e))
<1> DEFINE t == Append(s, e)
           n == Len(s)
<1>1. /\ n \in Nat /\ DOMAIN s = 1..n /\ DOMAIN t = 1..(n + 1)
      /\ t[n + 1] = e /\ \A j \in 1..n : t[j] = s[j] /\ s[j] \in S
  <2>1. s \in Seq(S \cup {e}) /\ e \in S \cup {e}
    OBVIOUS
  <2>2. \A j \in 1..n : s[j] \in S
    BY ElementOfSeq
  <2> QED
    BY <2>1, <2>2, AppendProperties
<1> HIDE DEF t, n
<1>2. \A j \in 1..(n + 1) : j = n + 1 \/ j \in 1..n
  BY <1>1
<1>3. IsInjective(t)
  BY <1>1, <1>2 DEF IsInjective
<1> QED
  BY <1>3 DEF t

\* A new call is listed unless it is over.
LEMMA AddCallTidy ==
  ASSUME NEW m \in Tidy, NEW c, Sane(c, Size(m)), c.state \in Ordinary, ~c.missed
  PROVE  addCall(m, c) \in Tidy
<1> DEFINE n == addCall(m, c)
           k == Size(m)
           o == Size(m) + 1
<1>1. m \in Typed /\ IsInjective(m.rows) /\ \A p \in 1..k : InOrder(m, p)
  BY DEF Tidy
<1>2. /\ n \in Typed /\ Size(n) = o
      /\ n.call[o] = c /\ \A p \in 1..k : n.call[p] = m.call[p]
      /\ n.rows = IF metaStateMap[c.state] = "FINISHED" THEN m.rows ELSE Append(m.rows, o)
      /\ n.checks = m.checks /\ n.removals = m.removals
  <2>1. LET x == addCall(m, c)
            y == Size(m) + 1
        IN  /\ x \in Typed /\ Size(x) = y
            /\ x.call[y] = c /\ \A p \in 1..Size(m) : x.call[p] = m.call[p]
            /\ x.rows = IF metaStateMap[c.state] = "FINISHED" THEN m.rows
                        ELSE Append(m.rows, y)
            /\ x.checks = m.checks /\ x.removals = m.removals
    BY <1>1, AddCallFields
  <2> QED
    BY <2>1
<1>3. /\ k \in Nat /\ o = k + 1 /\ m.rows \in Seq(1..k)
      /\ ToSet(m.rows) \subseteq 1..k /\ ToSet(m.checks) \subseteq 1..k
      /\ ToSet(m.removals) \subseteq 1..k
  BY <1>1, TypedFacts, ElementsOf
<1>4. metaStateMap[c.state] = "FINISHED" <=> c.state \in FinalStates
  BY OrdinaryStates
<1>5. ToSet(Append(m.rows, o)) = ToSet(m.rows) \cup {o}
  BY <1>3, AppendedSet
<1>6. o \notin 1..k /\ \A p \in 1..o : p = o \/ p \in 1..k
  BY <1>3
<1>7. IsInjective(Append(m.rows, o))
  <2> DEFINE S == 1..k
  <2>1. m.rows \in Seq(S) /\ o \notin S
    BY <1>3, <1>6
  <2> HIDE DEF S, o
  <2> QED
    BY <1>1, <2>1, AppendedInjective
<1> HIDE DEF n, k, o
<1>8. /\ IsInjective(n.rows)
      /\ \A p \in 1..k : p \in ToSet(n.rows) <=> p \in ToSet(m.rows)
      /\ o \in ToSet(n.rows) <=> c.state \notin FinalStates
  BY <1>1, <1>2, <1>3, <1>4, <1>5, <1>6, <1>7
<1>9. InOrder(n, o)
  <2>1. o \notin ToSet(n.checks) /\ o \notin ToSet(n.removals)
    BY <1>2, <1>3, <1>6
  <2> QED
    BY <1>2, <1>8, <2>1 DEF InOrder, Final, FinalStates, Ordinary
<1>10. ASSUME NEW p \in 1..k PROVE InOrder(n, p)
  BY <1>1, <1>2, <1>8, <1>10 DEF InOrder, Final
<1> QED
  BY <1>2, <1>6, <1>8, <1>9, <1>10 DEF Tidy, n

LEMMA AddIncomingCallTidy ==
  ASSUME ConfId = {}, NEW m \in Tidy, NEW d \in Rings, NEW i \in CallId
  PROVE  addIncomingCall(m, d, i).model \in Tidy
<1> DEFINE b == IF m.known[i] = 0 THEN addCall(m, NewCall("CALL", i, "INCOMING")) ELSE m
           c == NewCall("CALL", i, "INCOMING")
           a == IF m.answer = "AUTO_ANSWER" THEN "ACCEPT" ELSE "REFUSE"
           r == addIncomingCall(m, d, i)
<1>1. m \in Typed /\ i \in Ids
  BY DEF Tidy, Ids
<1>2. CASE m.known[i] = 0 /\ ~Known(d, i)
  BY <1>2 DEF addIncomingCall
<1>3. CASE ~(m.known[i] = 0 /\ ~Known(d, i))
  <2>1. "INCOMING" \in Reached \ {"DIALING"} /\ "INCOMING" \in Ordinary
    BY DEF Reached, State, Ordinary
  <2>2. Sane(c, Size(m)) /\ c.id = i /\ c.state = "INCOMING" /\ ~c.missed
    BY <1>1, <2>1, NewCallOfId
  <2> HIDE DEF c
  <2>3. addCall(m, c) \in Tidy /\ addCall(m, c).known[i] = Size(m) + 1
    BY <1>1, <2>1, <2>2, AddCallTidy, AddCallFields
  <2>4. b \in Tidy /\ b.known[i] # 0
    <3>1. Size(m) + 1 # 0
      BY <1>1, TypedFacts, Ranges
    <3> QED
      BY <2>3, <3>1 DEF c
  <2>5. \/ r.model = b
        \/ r = Performed(b, d, b.known[i], a)
    BY <1>3 DEF addIncomingCall
  <2>6. a \in {"ACCEPT", "REFUSE"}
    OBVIOUS
  <2> HIDE DEF a, r, b
  <2>7. b.known[i] \in 1..Size(b)
    BY <1>1, <2>4, KnownObject DEF Tidy
  <2>8. Performed(b, d, b.known[i], a).model \in Tidy
    BY <2>4, <2>6, <2>7, PerformedTidy
  <2> QED
    BY <2>4, <2>5, <2>8 DEF r
<1> QED
  BY <1>2, <1>3

LEMMA AddExistingCallTidy ==
  ASSUME NEW m \in Tidy, NEW d \in Rings, NEW i \in CallId
  PROVE  addExistingCall(m, d, i) \in Tidy
<1> DEFINE s == StartState(d, i)
           c == NewCall("CALL", i, s)
<1>1. CASE ~Known(d, i)
  BY <1>1 DEF addExistingCall
<1>2. CASE Known(d, i)
  <2>1. s \in Reached \ {"DIALING"} /\ s \in Ordinary
    BY <1>2 DEF StartState, Known, Alive, Reached, State, Ordinary
  <2>2. m \in Typed /\ addExistingCall(m, d, i) = addCall(m, c)
    BY <1>2 DEF addExistingCall, Tidy
  <2> HIDE DEF s
  <2>3. Sane(c, Size(m)) /\ c.state = s /\ ~c.missed
    BY <2>1, <2>2, NewCallOfId
  <2> HIDE DEF c
  <2> QED
    BY <2>1, <2>2, <2>3, AddCallTidy
<1> QED
  BY <1>1, <1>2

\* A call that is placed has not ended.
LEMMA PlacedTidy ==
  ASSUME NEW m \in Tidy, NEW o \in 1..Size(m), NEW i \in CallId, m.call[o].state = "DIALING"
  PROVE  Placed(m, o, i) \in Tidy
<1> DEFINE n == Placed(m, o, i)
           k == Size(m)
           r == Identified(m.call[o], i)
<1>1. m \in Typed /\ IsInjective(m.rows) /\ \A p \in 1..k : InOrder(m, p)
  BY DEF Tidy
<1>2. /\ n \in Typed /\ Size(n) = k /\ n.call[o] = r
      /\ \A p \in 1..k : p # o => n.call[p] = m.call[p]
      /\ n.rows = m.rows /\ n.checks = m.checks /\ n.removals = m.removals
  BY <1>1, PlacedFields
<1>3. m.call[o] \in Record(k)
  BY <1>1, TypedFacts
<1>4. r.state = "INITIALIZATION" /\ r.missed = m.call[o].missed
  BY <1>3 DEF Record, Identified
<1> HIDE DEF n, r
<1>5. InOrder(n, o)
  BY <1>1, <1>2, <1>4 DEF InOrder, Final, FinalStates
<1>6. \A p \in 1..k : p # o => InOrder(n, p)
  BY <1>1, <1>2 DEF InOrder, Final
<1>7. n \in Tidy
  BY <1>1, <1>2, <1>5, <1>6 DEF Tidy
<1> QED
  BY <1>7 DEF n

LEMMA HeadAndTail ==
  ASSUME NEW S, NEW s \in Seq(S), s # <<>>
  PROVE  Head(s) \in S /\ Tail(s) \in Seq(S) /\ ToSet(s) = {Head(s)} \cup ToSet(Tail(s))
<1> DEFINE n == Len(s)
           t == Tail(s)
           h == Head(s)
<1>1. n \in Nat \ {0} /\ DOMAIN s = 1..n
  BY EmptySeq, LenProperties
<1>2. /\ t \in Seq(S) /\ h \in S /\ h = s[1] /\ Len(t) = n - 1
      /\ \A j \in 1..(n - 1) : t[j] = s[j + 1]
  BY HeadTailProperties
<1>3. DOMAIN t = 1..(n - 1)
  BY <1>2
<1> HIDE DEF n, t, h
<1>4. ASSUME NEW j \in 1..n PROVE s[j] = h \/ \E l \in 1..(n - 1) : t[l] = s[j]
  <2>1. j # 1 => j - 1 \in 1..(n - 1) /\ (j - 1) + 1 = j
    BY <1>1
  <2> QED
    BY <1>2, <2>1
<1>5. 1 \in 1..n /\ \A j \in 1..(n - 1) : j + 1 \in 1..n
  BY <1>1
<1>6. \A x \in ToSet(s) : x = h \/ x \in ToSet(t)
  BY <1>1, <1>3, <1>4 DEF ToSet
<1>7. h \in ToSet(s) /\ \A x \in ToSet(t) : x \in ToSet(s)
  BY <1>1, <1>2, <1>3, <1>5 DEF ToSet
<1>8. ToSet(s) = {h} \cup ToSet(t)
  BY <1>6, <1>7
<1> QED
  BY <1>2, <1>8 DEF t, h


LEMMA InitTidy ==
  Init => model \in Tidy
<1> SUFFICES ASSUME Init PROVE model \in Tidy
  OBVIOUS
<1>1. model \in Typed
  BY InitInv DEF TypeInv
<1>2. Size(model) = 0 /\ model.rows = <<>> /\ DOMAIN model.rows = {}
  BY EmptySeq DEF Init, Size
<1>3. 1..Size(model) = {} /\ IsInjective(model.rows)
  BY <1>2 DEF IsInjective
<1> QED
  BY <1>1, <1>3 DEF Tidy

LEMMA StartTidy ==
  ASSUME ConfId = {}, TypeInv, model \in Tidy, Start
  PROVE  model' \in Tidy
<1> DEFINE C == {i \in CallId : Known(ring, i)}
           F == {f \in ConfId : ring.confs[f] = "live"}
           U == Tidy
           added == AddedCalls(model, ring, C)
           done == AddedConferences(added, ring, F)
           n == [done EXCEPT !.started = TRUE]
           G(E) == [D \in SUBSET E |-> U]
<1>1. ring \in Rings /\ model \in U /\ model' = n
  BY DEF TypeInv, Start, AddedCalls, AddedConferences
<1>2. C \in SUBSET CallId /\ F = {}
  OBVIOUS
<1>3. IsFiniteSet(C) /\ IsFiniteSet(F)
  BY <1>2, CallIdAssumption, FS_Subset, FS_EmptySet
<1>4. \A x \in U, i \in CallId : addExistingCall(x, ring, i) \in U
  BY <1>1, AddExistingCallTidy
<1>5. \A x \in U : [x EXCEPT !.started = TRUE] \in U
  <2> SUFFICES ASSUME NEW x \in U PROVE [x EXCEPT !.started = TRUE] \in U
    OBVIOUS
  <2> DEFINE y == [x EXCEPT !.started = TRUE]
  <2>1. x \in Typed /\ y \in Typed
    BY StartedFields DEF Tidy
  <2>2. y.call = x.call /\ y.rows = x.rows /\ y.checks = x.checks /\ y.removals = x.removals
    BY <2>1, TypedFacts DEF Models
  <2> HIDE DEF y
  <2>3. Size(y) = Size(x) /\ \A o : InOrder(y, o) <=> InOrder(x, o)
    BY <2>2 DEF Size, InOrder, Final
  <2>4. y \in U
    BY <2>1, <2>2, <2>3 DEF Tidy
  <2> QED
    BY <2>4 DEF y
<1> HIDE DEF C, F, U
<1>6. added \in U
  <2> DEFINE f == [p \in U \X C |-> addExistingCall(p[1], ring, p[2])]
             g == G(C)
  <2>1. \A x \in U, i \in C : f[<<x, i>>] \in U
    BY <1>2, <1>4
  <2>2. /\ \A D \in SUBSET C : g[D] = U
        /\ C \in SUBSET C /\ {} \in SUBSET C
        /\ \A D \in SUBSET C, i \in C : D \cup {i} \in SUBSET C
    OBVIOUS
  <2> HIDE DEF f, g
  <2>3. Graded(C, U, g, model, f)
    BY <1>1, <1>3, <2>1, <2>2 DEF Graded
  <2>4. added \in g[C]
    BY <2>3, AddedCallsReach DEF f
  <2> QED
    BY <2>2, <2>4
<1> HIDE DEF added
<1>7. done \in U
  <2> DEFINE f == [p \in U \X F |-> addConference(p[1], ring, p[2])]
             g == G(F)
  <2>1. \A D \in SUBSET F : g[D] = U
    OBVIOUS
  <2>2. F \in SUBSET F /\ {} \in SUBSET F /\ \A D \in SUBSET F : F \ D = {}
    BY <1>2
  <2> HIDE DEF f, g
  <2>3. Graded(F, U, g, added, f)
    BY <1>3, <1>6, <2>1, <2>2 DEF Graded
  <2>4. done \in g[F]
    BY <2>3, AddedConferencesReach DEF f
  <2> QED
    BY <2>1, <2>2, <2>4
<1> HIDE DEF done
<1> QED
  BY <1>1, <1>5, <1>7 DEF U

LEMMA UserTidy ==
  ASSUME ConfId = {}, TypeInv, model \in Tidy, User
  PROVE  model' \in Tidy
<1>1. model \in Typed
  BY DEF TypeInv
<1>2. CASE DialingCall
  <2> DEFINE c == NewCall("CALL", "", "DIALING")
  <2>1. model' = addCall(model, c)
    BY <1>2 DEF DialingCall
  <2>2. Sane(c, Size(model)) /\ c.state \in Ordinary /\ ~c.missed
    BY <1>1, NewDialedCall DEF NewCall, Ordinary, Reached, State
  <2> HIDE DEF c
  <2> QED
    BY <2>1, <2>2, AddCallTidy
<1>3. ASSUME NEW o \in Listed(model), PlaceCall(o) PROVE model' \in Tidy
  <2>1. PICK i \in CallId : model.call[o].state = "DIALING" /\ model' = Placed(model, o, i)
    BY <1>3 DEF PlaceCall, Placed
  <2>2. o \in 1..Size(model)
    BY <1>1, <1>3, ListedObjects
  <2> QED
    BY <2>1, <2>2, PlacedTidy
<1>4. ASSUME NEW o \in Listed(model), NEW a \in {"ACCEPT", "REFUSE"}, PerformAction(o, a)
      PROVE  model' \in Tidy
  <2>1. model' = Performed(model, ring, o, a).model
    BY <1>4 DEF PerformAction
  <2>2. o \in 1..Size(model)
    BY <1>1, <1>4, ListedObjects
  <2> QED
    BY <2>1, <2>2, PerformedTidy
<1>5. ASSUME NEW o \in Listed(model), NEW p \in Listed(model),
             JoinCalls(o, p) \/ MergeConferences(o, p) \/ DetachParticipant(o)
      PROVE  model' \in Tidy
  BY <1>5 DEF JoinCalls, MergeConferences, DetachParticipant
<1> QED
  BY <1>2, <1>3, <1>4, <1>5 DEF User

\* The two timers fire.
LEMMA TimerTidy ==
  ASSUME ConfId = {}, TypeInv, model \in Tidy, Check \/ AutoClean
  PROVE  model' \in Tidy
<1>1. model \in Typed /\ model \in Models /\ IsInjective(model.rows)
  BY TypedFacts DEF Tidy
<1>2. CASE Check
  <2> DEFINE o == Head(model.checks)
             t == Tail(model.checks)
             rest == [model EXCEPT !.checks = t]
             u == Append(rest.removals, o)
             later == [rest EXCEPT !.removals = Append(@, o)]
             gone == removeCall(rest, o)
  <2>1. model.checks \in Seq(1..Size(model)) /\ model.checks # <<>>
    BY <1>1, <1>2, TypedFacts DEF Check
  <2>2. /\ o \in 1..Size(model) /\ t \in Seq(1..Size(model))
        /\ ToSet(model.checks) = {o} \cup ToSet(t)
    BY <2>1, HeadAndTail
  <2>3. \/ model' = gone /\ rest.call[o].state = "ABORTED"
        \/ model' = later /\ ~rest.call[o].missed
        \/ model' = rest /\ rest.call[o].state # "ABORTED" /\ rest.call[o].missed
    <3>1. rest.call = model.call
      BY <1>1 DEF Models
    <3>2. rest.call[o] \in Record(Size(model))
      BY <1>1, <2>2, <3>1, TypedFacts
    <3>3. rest.call[o].missed \in BOOLEAN
      BY <3>2 DEF Record
    <3> QED
      BY <1>2, <3>3 DEF Check
  <2>4. /\ rest.call = model.call /\ rest.rows = model.rows /\ rest.checks = t
        /\ rest.removals = model.removals /\ rest \in From(model)
    BY <1>1, <2>2, ListsFields DEF Models
  <2> HIDE DEF rest, o, t
  <2>5. rest \in Apart(model, o) /\ rest \in Typed /\ Size(rest) = Size(model)
    <3>1. \A p \in 1..Size(model) : p # o =>
            /\ rest.call[p] = model.call[p]
            /\ p \in ToSet(rest.rows) <=> p \in ToSet(model.rows)
            /\ p \in ToSet(rest.checks) <=> p \in ToSet(model.checks)
            /\ p \in ToSet(rest.removals) <=> p \in ToSet(model.removals)
      BY <2>2, <2>4
    <3>2. rest \in Apart(model, o)
      BY <2>4, <3>1 DEF Apart
    <3> QED
      BY <1>1, <2>2, <3>2, ApartThen
  <2>6. rest \in Models /\ rest.removals \in Seq(1..Size(rest)) /\ o \in 1..Size(rest)
    BY <2>2, <2>5, TypedFacts
  <2>7. u \in Seq(1..Size(rest)) /\ ToSet(u) = ToSet(rest.removals) \cup {o}
    BY <2>6, AppendedSet, AppendProperties
  <2> HIDE DEF u
  <2>8. /\ later.call = rest.call /\ later.rows = rest.rows /\ later.checks = rest.checks
        /\ later.removals = u /\ later \in From(rest)
    <3>1. later = [rest EXCEPT !.removals = u]
      BY <2>6 DEF u, Models
    <3>2. [rest EXCEPT !.removals = u] \in From(rest)
      BY <2>5, <2>7, ListsFields
    <3> QED
      BY <2>6, <3>1, <3>2 DEF Models
  <2> HIDE DEF later
  <2>9. InOrder(model, o)
    BY <2>2 DEF Tidy
  <2>10. CASE model' = gone /\ rest.call[o].state = "ABORTED"
    <3>1. /\ gone \in Apart(rest, o) /\ gone.call = rest.call /\ o \notin ToSet(gone.rows)
          /\ gone.checks = rest.checks /\ gone.removals = rest.removals
      BY <1>1, <2>4, <2>5, <2>6, RemoveCallApart
    <3> HIDE DEF gone
    <3>2. gone \in Apart(model, o)
      BY <1>1, <2>2, <2>5, <3>1, ApartThen
    <3>3. InOrder(gone, o)
      BY <2>2, <2>4, <2>9, <2>10, <3>1 DEF InOrder, Final, FinalStates
    <3> QED
      BY <2>2, <2>10, <3>2, <3>3, TidyApart
  <2>11. CASE model' = later /\ ~rest.call[o].missed
    <3>1. later \in Apart(rest, o)
      BY <2>7, <2>8 DEF Apart
    <3>2. later \in Apart(model, o)
      BY <1>1, <2>2, <2>5, <3>1, ApartThen
    <3>3. InOrder(later, o)
      BY <2>2, <2>4, <2>7, <2>8, <2>9, <2>11 DEF InOrder, Final, FinalStates
    <3> QED
      BY <2>2, <2>11, <3>2, <3>3, TidyApart
  <2>12. CASE model' = rest /\ rest.call[o].state # "ABORTED" /\ rest.call[o].missed
    <3>1. InOrder(rest, o)
      BY <2>2, <2>4, <2>9, <2>12 DEF InOrder, Final, FinalStates
    <3> QED
      BY <2>2, <2>5, <2>12, <3>1, TidyApart
  <2> QED
    BY <2>3, <2>10, <2>11, <2>12
<1>3. CASE AutoClean
  <2> DEFINE o == Head(model.removals)
             t == Tail(model.removals)
             rest == [model EXCEPT !.removals = t]
             gone == removeCall(rest, o)
  <2>1. model.removals \in Seq(1..Size(model)) /\ model.removals # <<>>
    BY <1>1, <1>3, TypedFacts DEF AutoClean
  <2>2. /\ o \in 1..Size(model) /\ t \in Seq(1..Size(model))
        /\ ToSet(model.removals) = {o} \cup ToSet(t)
    BY <2>1, HeadAndTail
  <2>3. model' = gone
    BY <1>1, <1>3 DEF AutoClean, Models
  <2>4. /\ rest.call = model.call /\ rest.rows = model.rows /\ rest.checks = model.checks
        /\ rest.removals = t /\ rest \in From(model)
    BY <1>1, <2>2, ListsFields DEF Models
  <2> HIDE DEF rest, o, t
  <2>5. rest \in Apart(model, o) /\ rest \in Typed /\ Size(rest) = Size(model)
    <3>1. \A p \in 1..Size(model) : p # o =>
            /\ rest.call[p] = model.call[p]
            /\ p \in ToSet(rest.rows) <=> p \in ToSet(model.rows)
            /\ p \in ToSet(rest.checks) <=> p \in ToSet(model.checks)
            /\ p \in ToSet(rest.removals) <=> p \in ToSet(model.removals)
      BY <2>2, <2>4
    <3>2. rest \in Apart(model, o)
      BY <2>4, <3>1 DEF Apart
    <3> QED
      BY <1>1, <2>2, <3>2, ApartThen
  <2>6. /\ gone \in Apart(rest, o) /\ gone.call = rest.call /\ o \notin ToSet(gone.rows)
        /\ gone.checks = rest.checks /\ gone.removals = rest.removals
    BY <1>1, <2>2, <2>4, <2>5, RemoveCallApart
  <2> HIDE DEF gone
  <2>7. gone \in Apart(model, o)
    BY <1>1, <2>2, <2>5, <2>6, ApartThen
  <2>8. InOrder(model, o)
    BY <2>2 DEF Tidy
  <2>9. InOrder(gone, o)
    BY <2>2, <2>4, <2>6, <2>8 DEF InOrder, Final, FinalStates
  <2> QED
    BY <2>2, <2>3, <2>7, <2>9, TidyApart
<1> QED
  BY <1>2, <1>3

LEMMA DeliverTidy ==
  ASSUME ConfId = {}, TypeInv, model \in Tidy, Deliver
  PROVE  model' \in Tidy
<1> DEFINE d == [ring EXCEPT !.queue = Tail(@)]
           e == Head(ring.queue)
           i == e.id
           m == model
<1>1. ring \in Rings /\ ring.queue # <<>> /\ m \in Typed /\ ring.queue \in Seq(Signals)
  BY DEF TypeInv, Deliver, Rings
<1>2. model' = Delivered(m, d, e).model
  BY DEF Deliver
<1>3. d \in Rings /\ e \in Signals
  <2> DEFINE q == Tail(ring.queue)
  <2>1. q \in Seq(Signals) /\ e \in Signals
    BY <1>1, HeadAndTail
  <2> HIDE DEF q
  <2>2. [ring EXCEPT !.queue = q] \in Rings
    BY <1>1, <2>1 DEF Rings
  <2> QED
    BY <2>1, <2>2 DEF q
<1> HIDE DEF d, e
<1>4. CASE e.signal = "callStateChanged"
  <2>1. i \in CallId /\ e.state \in DaemonReports /\ i \in Ids
    BY <1>3, <1>4 DEF Signals, Ids
  <2>2. Delivered(m, d, e) = slotCallStateChanged(m, d, i, e.state)
    BY <1>4 DEF Delivered
  <2> HIDE DEF i, m
  <2>3. CASE m.known[i] # 0
    <3>1. m.known[i] \in 1..Size(m)
      BY <1>1, <2>1, <2>3, KnownObject
    <3>2. Delivered(m, d, e).model = CallStateChanged(m, m.known[i], e.state)
      BY <2>2, <2>3 DEF slotCallStateChanged
    <3> QED
      BY <1>2, <2>1, <3>1, <3>2, CallStateChangedTidy DEF m
  <2>4. CASE m.known[i] = 0
    <3>1. Delivered(m, d, e).model \in
            {m, addIncomingCall(m, d, i).model, addExistingCall(m, d, i)}
      BY <2>2, <2>4 DEF slotCallStateChanged
    <3> QED
      BY <1>2, <1>3, <2>1, <3>1, AddIncomingCallTidy, AddExistingCallTidy DEF m
  <2> QED
    BY <2>3, <2>4
<1>5. CASE e.signal = "incomingCall"
  <2>1. i \in CallId
    BY <1>3, <1>5 DEF Signals
  <2>2. Delivered(m, d, e) = addIncomingCall(m, d, i)
    BY <1>5 DEF Delivered
  <2> HIDE DEF i
  <2> QED
    BY <1>2, <1>3, <2>1, <2>2, AddIncomingCallTidy
<1>6. e.signal \in {"callStateChanged", "incomingCall"}
  BY <1>3 DEF Signals
<1> QED
  BY <1>4, <1>5, <1>6

LEMMA NextTidy ==
  ASSUME ConfId = {}, TypeInv, model \in Tidy, [Next]_vars
  PROVE  model' \in Tidy
<1>1. CASE UNCHANGED vars
  BY <1>1 DEF vars
<1>2. CASE Ring
  BY <1>2 DEF Ring, RingReceives, RingAnnouncesLate, RingDials, RingMoves, RingForgets,
              RingDissolves, RingAdds
<1>3. CASE Check \/ AutoClean
  BY <1>3, TimerTidy
<1> QED
  BY <1>1, <1>2, <1>3, StartTidy, UserTidy, DeliverTidy DEF Next

\* Without conferences the list is its rows.
LEMMA ListedRows ==
  ASSUME ConfId = {}, NEW m \in Typed, NEW o \in Listed(m)
  PROVE  o \in ToSet(m.rows)
<1>1. ToSet(m.rows) \subseteq 1..Size(m)
  BY TypedFacts, ElementsOf
<1>2. \A r \in ToSet(m.rows) : ToSet(m.call[r].children) = {}
  BY <1>1, NoConference, EmptySeq DEF ToSet
<1> QED
  BY <1>2 DEF Listed

LEMMA TidyLeaves ==
  ASSUME ConfId = {}, TypeInv, model \in Tidy
  PROVE  EndedCallLeaves /\ MissedCallStays
<1>1. model \in Typed
  BY DEF TypeInv
<1>2. ASSUME NEW o \in Objects
      PROVE  /\ o \in 1..Size(model) /\ InOrder(model, o)
             /\ Over(o) <=> model.call[o].state \in FinalStates
  <2>1. o \in 1..Size(model)
    BY <1>1, TypedFacts DEF Objects
  <2>2. InOrder(model, o) /\ model.call[o].state \in Ordinary
    BY <2>1, TidyState
  <2> QED
    BY <2>1, <2>2, OrdinaryStates DEF Over, LifeCycle
<1>3. ASSUME Quiet, NEW o \in Listed(model), Over(o)
      PROVE  model.call[o].missed \/ model.call[o].state \in {"FAILURE", "BUSY"}
  <2>1. o \in ToSet(model.rows) /\ o \in Objects
    BY <1>1, ListedRows, ListedObjects, TypedFacts DEF Objects
  <2>2. ToSet(model.checks) = {} /\ ToSet(model.removals) = {}
    BY <1>3, EmptySeq DEF Quiet, ToSet
  <2> QED
    BY <1>2, <1>3, <2>1, <2>2 DEF InOrder, FinalStates
<1>4. ASSUME NEW o \in Objects, Over(o), model.call[o].missed, model.call[o].state # "ERROR"
      PROVE  o \in Listed(model)
  <2>1. o \in ToSet(model.rows)
    BY <1>2, <1>4 DEF InOrder
  <2> QED
    BY <2>1 DEF Listed
<1> QED
  BY <1>3, <1>4 DEF EndedCallLeaves, MissedCallStays


-----------------------------------------------------------------------------
(* Without conferences and automatic answers: a call that the daemon has is followed.  *)

\* The states of the object of a call that the daemon has not ended.
Going == {"INITIALIZATION", "INCOMING", "RINGING", "CURRENT"}

Endless == {"", "INCOMING", "RINGING", "CURRENT"}

\* The places of the signals of call i in the queue.
Queued(d, i) == {k \in DOMAIN d.queue : d.queue[k].id = i}

\* A call that the daemon has is not said to be over; and that it is connecting, which an
\* object that is further on takes for an error, can only be the first that is said of it.
Said(m, d, i) ==
  /\ d.calls[i] = "free" => Queued(d, i) = {} /\ i \notin d.late
  /\ d.calls[i] \in Alive =>
       /\ m.known[i] # 0 => m.call[m.known[i]].state \in Going
       /\ \A k \in Queued(d, i) :
            \/ d.queue[k].state \in Endless
            \/ /\ d.queue[k].state = "CONNECTING"
               /\ m.known[i] = 0 \/ m.call[m.known[i]].state = "INITIALIZATION"
               /\ \A j \in Queued(d, i) : k <= j

\* One that is established is known, or its state is still on its way.
Awaited(m, d, i) ==
  d.calls[i] = "current" /\ m.started =>
    m.known[i] # 0 \/ \E k \in Queued(d, i) : d.queue[k].state = "CURRENT"

Followed(m, d, i) == Said(m, d, i) /\ Awaited(m, d, i)

\* The handlers that change no call but i, and the steps of the daemon that leave call j
\* alone.
Elsewhere(m, i) ==
  {n \in Typed :
     /\ n.started = m.started
     /\ \A j \in CallId : j # i =>
          /\ n.known[j] = m.known[j]
          /\ m.known[j] # 0 => n.call[m.known[j]].state = m.call[m.known[j]].state}

Besides(d, j) ==
  {e \in Rings :
     /\ e.calls[j] = d.calls[j] /\ (j \in e.late => j \in d.late)
     /\ \A k \in DOMAIN d.queue : k \in DOMAIN e.queue /\ e.queue[k] = d.queue[k]
     /\ \A k \in DOMAIN e.queue : k \in DOMAIN d.queue \/ e.queue[k].id # j}

LEMMA BesidesFacts ==
  ASSUME NEW d \in Rings, NEW j
  PROVE  d \in Besides(d, j) /\ \A e \in Besides(d, j) : e \in Rings /\ Besides(e, j) \subseteq Besides(d, j)
<1>1. d \in Besides(d, j)
  BY DEF Besides
<1>2. ASSUME NEW e \in Besides(d, j), NEW f \in Besides(e, j) PROVE f \in Besides(d, j)
  <2>1. f \in Rings /\ f.calls[j] = d.calls[j] /\ (j \in f.late => j \in d.late)
    BY <1>2 DEF Besides
  <2>2. \A k \in DOMAIN d.queue : k \in DOMAIN f.queue /\ f.queue[k] = d.queue[k]
    BY <1>2 DEF Besides
  <2>3. \A k \in DOMAIN f.queue : k \in DOMAIN d.queue \/ f.queue[k].id # j
    <3> SUFFICES ASSUME NEW k \in DOMAIN f.queue, k \notin DOMAIN d.queue PROVE f.queue[k].id # j
      OBVIOUS
    <3>1. CASE k \in DOMAIN e.queue
      <4>1. f.queue[k] = e.queue[k] /\ e.queue[k].id # j
        BY <1>2, <3>1 DEF Besides
      <4> QED
        BY <4>1
    <3>2. CASE k \notin DOMAIN e.queue
      BY <1>2, <3>2 DEF Besides
    <3> QED
      BY <3>1, <3>2
  <2> QED
    BY <2>1, <2>2, <2>3 DEF Besides
<1> QED
  BY <1>1, <1>2 DEF Besides

LEMMA BesidesQueued ==
  ASSUME NEW d, NEW j, NEW e \in Besides(d, j)
  PROVE  Queued(e, j) = Queued(d, j) /\ \A k \in Queued(d, j) : e.queue[k] = d.queue[k]
<1>1. \A k \in Queued(d, j) : k \in Queued(e, j) /\ e.queue[k] = d.queue[k]
  BY DEF Besides, Queued
<1>2. \A k \in Queued(e, j) : k \in Queued(d, j)
  <2> SUFFICES ASSUME NEW k \in Queued(e, j) PROVE k \in Queued(d, j)
    OBVIOUS
  <2>1. k \in DOMAIN e.queue /\ e.queue[k].id = j
    BY DEF Queued
  <2>2. k \in DOMAIN d.queue /\ e.queue[k] = d.queue[k]
    BY <2>1 DEF Besides
  <2> QED
    BY <2>1, <2>2 DEF Queued
<1> QED
  BY <1>1, <1>2

\* What happens to another call.
LEMMA FollowedElsewhere ==
  ASSUME NEW m, NEW d, NEW i, NEW j \in CallId, i # j, NEW n \in Elsewhere(m, i),
         NEW e \in Besides(d, j), Followed(m, d, j)
  PROVE  Followed(n, e, j)
<1>1. Queued(e, j) = Queued(d, j) /\ \A k \in Queued(d, j) : e.queue[k] = d.queue[k]
  BY BesidesQueued
<1>2. e.calls[j] = d.calls[j] /\ (j \in e.late => j \in d.late)
  BY DEF Besides
<1>3. /\ n.known[j] = m.known[j] /\ n.started = m.started
      /\ m.known[j] # 0 => n.call[m.known[j]].state = m.call[m.known[j]].state
  BY DEF Elsewhere
<1> QED
  BY <1>1, <1>2, <1>3 DEF Followed, Said, Awaited

\* A signal is added to the queue.
LEMMA Emitted ==
  ASSUME NEW d \in Rings, NEW s, NEW i, NEW t, [signal |-> s, id |-> i, state |-> t] \in Signals
  PROVE  LET e == Emit(d, s, i, t)
             n == Len(d.queue)
         IN  /\ e \in Rings /\ e.calls = d.calls /\ e.late = d.late
             /\ n \in Nat /\ DOMAIN d.queue = 1..n /\ DOMAIN e.queue = 1..(n + 1)
             /\ e.queue[n + 1].id = i /\ e.queue[n + 1].state = t
             /\ \A k \in 1..n : e.queue[k] = d.queue[k]
<1> DEFINE x == [signal |-> s, id |-> i, state |-> t]
           q == Append(d.queue, x)
           e == Emit(d, s, i, t)
           n == Len(d.queue)
<1>1. d.queue \in Seq(Signals) /\ x \in Signals /\ x.id = i /\ x.state = t
  BY DEF Rings
<1> HIDE DEF x
<1>2. /\ q \in Seq(Signals) /\ n \in Nat /\ DOMAIN d.queue = 1..n /\ Len(q) = n + 1
      /\ q[n + 1] = x /\ \A k \in 1..n : q[k] = d.queue[k]
  BY <1>1, AppendProperties
<1>3. DOMAIN q = 1..(n + 1)
  BY <1>2
<1>4. e = [d EXCEPT !.queue = q]
  BY DEF Emit, x
<1> HIDE DEF q, e
<1>5. e \in Rings /\ e.calls = d.calls /\ e.late = d.late /\ e.queue = q
  BY <1>2, <1>4 DEF Rings
<1> QED
  BY <1>1, <1>2, <1>3, <1>5 DEF e

\* The calls are as they were.
Saying(d) == {e \in Rings : e.calls = d.calls}

LEMMA EmitSaying ==
  ASSUME NEW d \in Rings, NEW s, NEW i, NEW t, [signal |-> s, id |-> i, state |-> t] \in Signals
  PROVE  Emit(d, s, i, t) \in Saying(d)
BY Emitted DEF Saying

LEMMA EmitBesides ==
  ASSUME NEW d \in Rings, NEW s, NEW i, NEW t, [signal |-> s, id |-> i, state |-> t] \in Signals,
         NEW j, i # j
  PROVE  Emit(d, s, i, t) \in Besides(d, j)
<1> DEFINE e == Emit(d, s, i, t)
           n == Len(d.queue)
<1>1. /\ e \in Rings /\ e.calls = d.calls /\ e.late = d.late
      /\ n \in Nat /\ DOMAIN d.queue = 1..n /\ DOMAIN e.queue = 1..(n + 1)
      /\ e.queue[n + 1].id = i
      /\ \A k \in 1..n : e.queue[k] = d.queue[k]
  BY Emitted
<1> HIDE DEF e, n
<1>2. /\ \A k \in 1..n : k \in 1..(n + 1)
      /\ \A k \in 1..(n + 1) : k = n + 1 \/ k \in 1..n
  BY <1>1
<1>3. e \in Besides(d, j)
  BY <1>1, <1>2 DEF Besides
<1> QED
  BY <1>3 DEF e

LEMMA MovedBesides ==
  ASSUME NEW d \in Rings, NEW i \in CallId, NEW to \in DaemonCall, NEW t \in DaemonReports,
         NEW j \in CallId, i # j
  PROVE  Moved(d, i, to, t) \in Besides(d, j)
<1> DEFINE e == [d EXCEPT !.calls[i] = to]
<1>1. /\ e \in Rings /\ e.queue = d.queue /\ e.late = d.late /\ e.calls[j] = d.calls[j]
      /\ [signal |-> "callStateChanged", id |-> i, state |-> t] \in Signals
  BY DEF Rings, Signals
<1>2. Moved(d, i, to, t) = Emit(e, "callStateChanged", i, t)
  BY DEF Moved
<1> HIDE DEF e
<1>3. e \in Besides(d, j)
  BY <1>1 DEF Besides
<1> QED
  BY <1>1, <1>2, <1>3, EmitBesides, BesidesFacts

\* A signal of call i itself, that does not say that it is over.
LEMMA EmitFollowed ==
  ASSUME NEW m, NEW d \in Rings, NEW s, NEW i, NEW t \in Endless,
         [signal |-> s, id |-> i, state |-> t] \in Signals,
         Said(m, d, i), d.calls[i] # "free", Awaited(m, d, i) \/ t = "CURRENT"
  PROVE  Followed(m, Emit(d, s, i, t), i)
<1> DEFINE e == Emit(d, s, i, t)
           n == Len(d.queue)
<1>1. /\ e.calls = d.calls /\ e.late = d.late
      /\ n \in Nat /\ DOMAIN d.queue = 1..n /\ DOMAIN e.queue = 1..(n + 1)
      /\ e.queue[n + 1].id = i /\ e.queue[n + 1].state = t
      /\ \A k \in 1..n : e.queue[k] = d.queue[k]
  BY Emitted
<1> HIDE DEF e, n
<1>2. /\ \A k \in 1..n : k \in 1..(n + 1) /\ k <= n + 1
      /\ \A k \in 1..(n + 1) : k = n + 1 \/ k \in 1..n
  BY <1>1
<1>3. /\ \A k \in Queued(d, i) : k \in Queued(e, i) /\ e.queue[k] = d.queue[k] /\ k <= n + 1
      /\ \A k \in Queued(e, i) : k = n + 1 \/ k \in Queued(d, i)
  BY <1>1, <1>2 DEF Queued
<1>4. ASSUME d.calls[i] \in Alive, NEW k \in Queued(e, i)
      PROVE  \/ e.queue[k].state \in Endless
             \/ /\ e.queue[k].state = "CONNECTING"
                /\ m.known[i] = 0 \/ m.call[m.known[i]].state = "INITIALIZATION"
                /\ \A j \in Queued(e, i) : k <= j
  <2>1. CASE k = n + 1
    BY <1>1, <2>1
  <2>2. CASE k \in Queued(d, i)
    <3>1. e.queue[k] = d.queue[k] /\ k <= n + 1
      BY <1>3, <2>2
    <3>2. (\A j \in Queued(d, i) : k <= j) => (\A j \in Queued(e, i) : k <= j)
      BY <1>3, <3>1
    <3> QED
      BY <1>4, <2>2, <3>1, <3>2 DEF Said
  <2> QED
    BY <1>3, <1>4, <2>1, <2>2
<1>5. Said(m, e, i)
  BY <1>1, <1>3, <1>4 DEF Said
<1>6. n + 1 \in Queued(e, i)
  BY <1>1 DEF Queued
<1>7. Awaited(m, e, i)
  BY <1>1, <1>3, <1>6 DEF Awaited
<1> QED
  BY <1>5, <1>7 DEF Followed, e


\* The state of call i changes, and the daemon says so.
LEMMA MovedFollowed ==
  ASSUME NEW m, NEW d \in Rings, NEW i \in CallId, NEW to \in Alive, NEW t \in {"INCOMING", "RINGING", "CURRENT"},
         Followed(m, d, i), d.calls[i] \in Alive, to = "current" => t = "CURRENT"
  PROVE  Followed(m, Moved(d, i, to, t), i)
<1> DEFINE e == [d EXCEPT !.calls[i] = to]
<1>1. to \in DaemonCall \ {"free"} /\ t \in Endless /\ t \in DaemonReports
  BY DEF DaemonCall, Alive, Endless, DaemonReports
<1>2. /\ e \in Rings /\ e.queue = d.queue /\ e.late = d.late /\ e.calls[i] = to
      /\ [signal |-> "callStateChanged", id |-> i, state |-> t] \in Signals
  BY <1>1 DEF Rings, Signals
<1>3. Moved(d, i, to, t) = Emit(e, "callStateChanged", i, t)
  BY DEF Moved
<1> HIDE DEF e
<1>4. Queued(e, i) = Queued(d, i)
  BY <1>2 DEF Queued
<1>5. Said(m, e, i)
  BY <1>1, <1>2, <1>4 DEF Followed, Said
<1>6. Awaited(m, e, i) \/ t = "CURRENT"
  BY <1>2 DEF Awaited
<1> QED
  BY <1>1, <1>2, <1>3, <1>5, <1>6, EmitFollowed

\* Call i ends.
LEMMA GoneFollowed ==
  ASSUME NEW m, NEW d \in Rings, NEW i \in CallId, NEW to \in {"ended", "gone"}, NEW t \in DaemonReports
  PROVE  Followed(m, Moved(d, i, to, t), i)
<1> DEFINE e == [d EXCEPT !.calls[i] = to]
           n == Moved(d, i, to, t)
<1>1. to \in DaemonCall /\ to \notin Alive \cup {"free"}
  BY DEF DaemonCall, Alive
<1>2. /\ e \in Rings /\ e.calls[i] = to
      /\ [signal |-> "callStateChanged", id |-> i, state |-> t] \in Signals
  BY <1>1 DEF Rings, Signals
<1>3. n = Emit(e, "callStateChanged", i, t)
  BY DEF Moved
<1> HIDE DEF e, n
<1>4. n.calls[i] = to
  BY <1>2, <1>3, Emitted
<1>5. Followed(m, n, i)
  BY <1>1, <1>4 DEF Followed, Said, Awaited, Alive
<1> QED
  BY <1>5 DEF n

\* Call i is made or comes in: nothing was said of it before.
LEMMA MadeFollowed ==
  ASSUME NEW m, NEW d \in Rings, NEW i \in CallId, d.calls[i] = "free", Said(m, d, i),
         m.known[i] = 0 \/ m.call[m.known[i]].state = "INITIALIZATION",
         NEW to \in {"incoming", "connecting"}, NEW t \in {"INCOMING", "CONNECTING"}
  PROVE  /\ Followed(m, [d EXCEPT !.calls[i] = to], i)
         /\ Followed(m, Moved(d, i, to, t), i)
<1> DEFINE r == [d EXCEPT !.calls[i] = to]
           e == Emit(r, "callStateChanged", i, t)
           n == Len(r.queue)
<1>1. to \in DaemonCall /\ to # "current" /\ t \in DaemonReports /\ "INCOMING" \in Endless
  BY DEF DaemonCall, Alive, DaemonReports, Endless
<1>2. m.known[i] # 0 => m.call[m.known[i]].state \in Going
  BY DEF Going
<1>3. /\ r \in Rings /\ r.queue = d.queue /\ r.late = d.late /\ r.calls[i] = to
      /\ [signal |-> "callStateChanged", id |-> i, state |-> t] \in Signals
  BY <1>1 DEF Rings, Signals
<1>4. Moved(d, i, to, t) = e
  BY DEF Moved
<1> HIDE DEF r
<1>5. Queued(r, i) = {}
  BY <1>3 DEF Said, Queued
<1>6. Followed(m, r, i)
  BY <1>1, <1>2, <1>3, <1>5 DEF Followed, Said, Awaited
<1>7. /\ e.calls = r.calls
      /\ n \in Nat /\ DOMAIN r.queue = 1..n /\ DOMAIN e.queue = 1..(n + 1)
      /\ e.queue[n + 1].id = i /\ e.queue[n + 1].state = t
      /\ \A k \in 1..n : e.queue[k] = r.queue[k]
  BY <1>3, Emitted
<1> HIDE DEF e, n
<1>8. \A k \in Queued(e, i) : k = n + 1 /\ k <= n + 1
  <2>1. \A k \in 1..(n + 1) : k <= n + 1 /\ (k = n + 1 \/ k \in 1..n)
    BY <1>7
  <2> QED
    BY <1>5, <1>7, <2>1 DEF Queued
<1>9. \A k \in Queued(e, i) : e.queue[k].state = t /\ \A j \in Queued(e, i) : k <= j
  BY <1>7, <1>8
<1>10. Followed(m, e, i)
  BY <1>1, <1>2, <1>3, <1>7, <1>9 DEF Followed, Said, Awaited
<1> QED
  BY <1>4, <1>6, <1>10 DEF r

\* The daemon acts on its own.
LEMMA RingFollowed ==
  ASSUME ConfId = {}, TypeInv, Separate(model, ring), Ring,
         \A i \in CallId : Followed(model, ring, i)
  PROVE  \A i \in CallId : Followed(model', ring', i)
<1>1. /\ ring \in Rings /\ model \in Typed /\ model' = model
      /\ \A i \in CallId : model \in Elsewhere(model, i)
  BY DEF TypeInv, Elsewhere, Ring, RingReceives, RingAnnouncesLate, RingDials, RingMoves,
         RingForgets, RingDissolves, RingAdds
<1>2. /\ {"incoming", "connecting", "ringing", "current", "ended", "gone"} \subseteq DaemonCall
      /\ {"incoming", "connecting", "ringing", "current"} \subseteq Alive
      /\ {"INCOMING", "CONNECTING", "RINGING", "CURRENT", "OVER"} \subseteq DaemonReports
      /\ Endings \subseteq DaemonReports /\ {"INCOMING", ""} \subseteq Endless
  BY EndingsAssumption DEF DaemonCall, Alive, DaemonReports, Endless
<1>3. ASSUME NEW i \in CallId, Followed(model, ring', i),
             \A j \in CallId : i # j => ring' \in Besides(ring, j)
      PROVE  \A j \in CallId : Followed(model', ring', j)
  BY <1>1, <1>3, FollowedElsewhere
<1>4. CASE RingReceives
  <2>1. PICK i \in CallId :
          /\ ring.calls[i] = "free"
          /\ LET announced == Emit([ring EXCEPT !.calls[i] = "incoming"], "incomingCall", i, "")
             IN  ring' \in {Moved(announced, i, "incoming", "INCOMING"),
                            [Moved(ring, i, "incoming", "INCOMING") EXCEPT !.late = @ \cup {i}]}
    BY <1>4 DEF RingReceives
  <2> DEFINE rung == [ring EXCEPT !.calls[i] = "incoming"]
             announced == Emit(rung, "incomingCall", i, "")
             first == Moved(announced, i, "incoming", "INCOMING")
             moved == Moved(ring, i, "incoming", "INCOMING")
             other == [moved EXCEPT !.late = @ \cup {i}]
  <2>2. ring' \in {first, other}
    BY <2>1
  <2>3. model.known[i] = 0 /\ Said(model, ring, i)
    BY <2>1 DEF Separate, Followed
  <2>4. /\ rung \in Rings /\ rung.queue = ring.queue /\ rung.late = ring.late
        /\ rung.calls[i] = "incoming" /\ \A j \in CallId : i # j => rung.calls[j] = ring.calls[j]
        /\ [signal |-> "incomingCall", id |-> i, state |-> ""] \in Signals
    BY <1>1, <1>2 DEF Rings, Signals
  <2>5. Followed(model, rung, i) /\ Followed(model, moved, i)
    BY <1>1, <2>1, <2>3, MadeFollowed
  <2> HIDE DEF rung
  <2>6. \A j \in CallId : i # j => rung \in Besides(ring, j)
    BY <2>4 DEF Besides
  <2>7. /\ Followed(model, announced, i) /\ announced.calls[i] = "incoming" /\ announced \in Rings
        /\ \A j \in CallId : i # j => announced \in Besides(ring, j)
    <3>1. Followed(model, announced, i)
      BY <1>2, <2>4, <2>5, EmitFollowed DEF Followed
    <3>2. announced \in Saying(rung)
      BY <2>4, EmitSaying
    <3>3. \A j \in CallId : i # j => announced \in Besides(rung, j)
      BY <2>4, EmitBesides
    <3> HIDE DEF announced
    <3> QED
      BY <1>1, <2>4, <2>6, <3>1, <3>2, <3>3, BesidesFacts DEF Saying
  <2> HIDE DEF announced
  <2>8. CASE ring' = first
    <3>1. Followed(model, first, i)
      BY <1>2, <2>7, MovedFollowed
    <3>2. \A j \in CallId : i # j => first \in Besides(announced, j)
      BY <1>2, <2>7, MovedBesides
    <3> HIDE DEF first
    <3>3. \A j \in CallId : i # j => first \in Besides(ring, j)
      BY <1>1, <2>7, <3>2, BesidesFacts
    <3> QED
      BY <1>3, <2>8, <3>1, <3>3
  <2>9. CASE ring' = other
    <3>1. \A j \in CallId : i # j => moved \in Besides(ring, j)
      BY <1>1, <1>2, MovedBesides
    <3>2. moved \in Rings /\ moved.calls[i] = "incoming"
      <4>1. [signal |-> "callStateChanged", id |-> i, state |-> "INCOMING"] \in Signals
        BY <1>2 DEF Signals
      <4>2. moved = Emit(rung, "callStateChanged", i, "INCOMING")
        BY DEF moved, Moved, rung
      <4> HIDE DEF moved
      <4>3. moved \in Saying(rung)
        BY <2>4, <4>1, <4>2, EmitSaying
      <4> QED
        BY <2>4, <4>3 DEF Saying
    <3> HIDE DEF moved
    <3>3. /\ other \in Rings /\ other.calls = moved.calls /\ other.queue = moved.queue
          /\ other.late = moved.late \cup {i}
      BY <3>2 DEF Rings
    <3> HIDE DEF other
    <3>4. \A j \in CallId : i # j => other \in Besides(moved, j)
      BY <3>3 DEF Besides
    <3>5. \A j \in CallId : i # j => other \in Besides(ring, j)
      BY <1>1, <3>1, <3>4, BesidesFacts
    <3>6. Queued(other, i) = Queued(moved, i)
      BY <3>3 DEF Queued
    <3>7. Followed(model, other, i)
      BY <2>5, <3>2, <3>3, <3>6 DEF Followed, Said, Awaited
    <3> QED
      BY <1>3, <2>9, <3>5, <3>7
  <2> QED
    BY <2>2, <2>8, <2>9
<1>5. CASE RingAnnouncesLate
  <2>1. PICK i \in ring.late :
          ring' = Emit([ring EXCEPT !.late = @ \ {i}], "incomingCall", i, "")
    BY <1>5 DEF RingAnnouncesLate
  <2> DEFINE l == ring.late \ {i}
             d == [ring EXCEPT !.late = l]
  <2>2. i \in CallId /\ l \in SUBSET CallId
    BY <1>1 DEF Rings
  <2>3. ring' = Emit(d, "incomingCall", i, "")
    BY <2>1
  <2> HIDE DEF l
  <2>4. /\ d \in Rings /\ d.calls = ring.calls /\ d.queue = ring.queue /\ d.late = l
        /\ [signal |-> "incomingCall", id |-> i, state |-> ""] \in Signals
    BY <1>1, <2>2 DEF Rings, Signals
  <2> HIDE DEF d
  <2>5. ring.calls[i] # "free" /\ Followed(model, ring, i)
    BY <2>1, <2>2 DEF Followed, Said
  <2>6. Queued(d, i) = Queued(ring, i)
    BY <2>4 DEF Queued
  <2>7. Followed(model, d, i) /\ d.calls[i] # "free"
    BY <2>4, <2>5, <2>6, ZenonT(60) DEF Followed, Said, Awaited
  <2>8. Followed(model, ring', i)
    BY <1>2, <2>3, <2>4, <2>7, EmitFollowed DEF Followed
  <2>9. \A j \in CallId : i # j => d \in Besides(ring, j)
    BY <2>4 DEF Besides, l
  <2>10. \A j \in CallId : i # j => ring' \in Besides(d, j)
    BY <2>3, <2>4, EmitBesides
  <2>11. \A j \in CallId : i # j => ring' \in Besides(ring, j)
    BY <1>1, <2>9, <2>10, BesidesFacts
  <2> QED
    BY <1>3, <2>2, <2>8, <2>11
<1>6. CASE RingDials
  <2>1. PICK i \in CallId :
          ring.calls[i] = "free" /\ ring' = Moved(ring, i, "connecting", "CONNECTING")
    BY <1>6 DEF RingDials
  <2>2. model.known[i] = 0 /\ Said(model, ring, i)
    BY <2>1 DEF Separate, Followed
  <2>3. Followed(model, ring', i)
    BY <1>1, <2>1, <2>2, MadeFollowed
  <2>4. \A j \in CallId : i # j => ring' \in Besides(ring, j)
    BY <1>1, <1>2, <2>1, MovedBesides
  <2> QED
    BY <1>3, <2>3, <2>4
<1>7. CASE RingMoves
  <2>1. PICK i \in CallId :
          \/ ring.calls[i] = "connecting" /\ ring' = Moved(ring, i, "ringing", "RINGING")
          \/ ring.calls[i] = "ringing" /\ ring' = Moved(ring, i, "current", "CURRENT")
          \/ ring.calls[i] \in Alive /\ \E s \in Endings : ring' = Ended(ring, i, s)
    BY <1>7 DEF RingMoves
  <2>2. Leaves(ring, i) = ring
    BY DEF Leaves, ConferencesOf
  <2>3. \/ ring.calls[i] \in Alive /\ ring' = Moved(ring, i, "ringing", "RINGING")
        \/ ring.calls[i] \in Alive /\ ring' = Moved(ring, i, "current", "CURRENT")
        \/ \E s \in Endings : ring' = Moved(ring, i, "ended", s)
    BY <1>2, <2>1, <2>2 DEF Ended
  <2>4. Followed(model, ring', i)
    BY <1>1, <1>2, <2>3, MovedFollowed, GoneFollowed
  <2>5. \A j \in CallId : i # j => ring' \in Besides(ring, j)
    BY <1>1, <1>2, <2>3, MovedBesides
  <2> QED
    BY <1>3, <2>4, <2>5
<1>8. CASE RingForgets
  <2>1. PICK i \in CallId : ring' = Moved(ring, i, "gone", "OVER")
    BY <1>8 DEF RingForgets
  <2>2. Followed(model, ring', i)
    BY <1>1, <1>2, <2>1, GoneFollowed
  <2>3. \A j \in CallId : i # j => ring' \in Besides(ring, j)
    BY <1>1, <1>2, <2>1, MovedBesides
  <2> QED
    BY <1>3, <2>2, <2>3
<1>9. ~RingDissolves /\ ~RingAdds
  BY DEF RingDissolves, RingAdds
<1> QED
  BY <1>4, <1>5, <1>6, <1>7, <1>8, <1>9 DEF Ring


\* The first signal is taken off the queue.
Taken(d) == [d EXCEPT !.queue = Tail(@)]

LEMMA TakenQueued ==
  ASSUME NEW d \in Rings, d.queue # <<>>, NEW j
  PROVE  /\ Taken(d) \in Saying(d) /\ Taken(d).late = d.late
         /\ Head(d.queue) \in Signals /\ d.queue[1] = Head(d.queue)
         /\ 1 \in Queued(d, j) <=> Head(d.queue).id = j
         /\ \A k \in Queued(d, j) : k \in Nat
         /\ \A k \in Queued(Taken(d), j) :
              k \in Nat \ {0} /\ k + 1 \in Queued(d, j) /\ Taken(d).queue[k] = d.queue[k + 1]
         /\ \A k \in Queued(d, j) :
              k = 1 \/ (k - 1 \in Queued(Taken(d), j) /\ Taken(d).queue[k - 1] = d.queue[k])
<1> DEFINE q == Tail(d.queue)
           r == Taken(d)
           e == Head(d.queue)
           n == Len(d.queue)
<1>1. d.queue \in Seq(Signals)
  BY DEF Rings
<1>2. n \in Nat \ {0} /\ DOMAIN d.queue = 1..n
  BY <1>1, EmptySeq, LenProperties
<1>3. /\ q \in Seq(Signals) /\ e \in Signals /\ e = d.queue[1] /\ Len(q) = n - 1
      /\ \A k \in 1..(n - 1) : q[k] = d.queue[k + 1]
  BY <1>1, HeadTailProperties
<1>4. DOMAIN q = 1..(n - 1)
  BY <1>3
<1>5. r = [d EXCEPT !.queue = q]
  BY DEF Taken
<1> HIDE DEF q, e, n, r
<1>6. r \in Saying(d) /\ r.late = d.late /\ r.queue = q
  BY <1>3, <1>5 DEF Rings, Saying
<1>7. /\ \A k \in 1..(n - 1) : k \in Nat \ {0} /\ k + 1 \in 1..n
      /\ \A k \in 1..n : k \in Nat /\ (k = 1 \/ (k - 1 \in 1..(n - 1) /\ (k - 1) + 1 = k))
      /\ 1 \in 1..n
  BY <1>2
<1>8. 1 \in Queued(d, j) <=> e.id = j
  BY <1>2, <1>3, <1>7 DEF Queued
<1>9. \A k \in Queued(d, j) : k \in Nat
  BY <1>2, <1>7 DEF Queued
<1>10. \A k \in Queued(r, j) : k \in Nat \ {0} /\ k + 1 \in Queued(d, j) /\ r.queue[k] = d.queue[k + 1]
  BY <1>2, <1>3, <1>4, <1>6, <1>7 DEF Queued
<1>11. ASSUME NEW k \in Queued(d, j)
       PROVE  k = 1 \/ (k - 1 \in Queued(r, j) /\ r.queue[k - 1] = d.queue[k])
  <2>1. k \in 1..n /\ d.queue[k].id = j
    BY <1>2 DEF Queued
  <2>2. ASSUME k # 1 PROVE k - 1 \in 1..(n - 1) /\ q[k - 1] = d.queue[k]
    BY <1>3, <1>7, <2>1, <2>2
  <2> QED
    BY <1>4, <1>6, <2>1, <2>2 DEF Queued
<1> QED
  BY <1>3, <1>6, <1>8, <1>9, <1>10, <1>11 DEF r, e

LEMMA TakenFollowed ==
  ASSUME NEW m, NEW d \in Rings, d.queue # <<>>, NEW j, Head(d.queue).id # j, Followed(m, d, j)
  PROVE  Followed(m, Taken(d), j)
<1> DEFINE r == Taken(d)
<1>1. /\ r.calls = d.calls /\ r.late = d.late
      /\ \A k \in Queued(d, j) : k \in Nat
      /\ \A k \in Queued(r, j) :
           k \in Nat \ {0} /\ k + 1 \in Queued(d, j) /\ r.queue[k] = d.queue[k + 1]
      /\ \A k \in Queued(d, j) : k - 1 \in Queued(r, j) /\ r.queue[k - 1] = d.queue[k]
  BY TakenQueued DEF Saying
<1> HIDE DEF r
<1>2. Queued(d, j) = {} => Queued(r, j) = {}
  BY <1>1
<1>3. ASSUME NEW k \in Queued(r, j), \A l \in Queued(d, j) : k + 1 <= l, NEW l \in Queued(r, j)
      PROVE  k <= l
  <2>1. k \in Nat /\ l \in Nat /\ k + 1 <= l + 1
    BY <1>1, <1>3
  <2> QED
    BY <2>1
<1>4. Said(m, r, j)
  <2>1. ASSUME d.calls[j] \in Alive, NEW k \in Queued(r, j)
        PROVE  \/ r.queue[k].state \in Endless
               \/ /\ r.queue[k].state = "CONNECTING"
                  /\ m.known[j] = 0 \/ m.call[m.known[j]].state = "INITIALIZATION"
                  /\ \A l \in Queued(r, j) : k <= l
    <3>1. k + 1 \in Queued(d, j) /\ r.queue[k] = d.queue[k + 1]
      BY <1>1, <2>1
    <3>2. \/ d.queue[k + 1].state \in Endless
          \/ /\ d.queue[k + 1].state = "CONNECTING"
             /\ m.known[j] = 0 \/ m.call[m.known[j]].state = "INITIALIZATION"
             /\ \A l \in Queued(d, j) : k + 1 <= l
      BY <2>1, <3>1 DEF Followed, Said
    <3> QED
      BY <1>3, <2>1, <3>1, <3>2
  <2> QED
    BY <1>1, <1>2, <2>1 DEF Followed, Said
<1>5. Awaited(m, r, j)
  BY <1>1 DEF Followed, Awaited
<1> QED
  BY <1>4, <1>5 DEF Followed, r

\* The signal s of call i is being handled.
Owed(m, d, i, s) ==
  /\ d.calls[i] # "free"
  /\ d.calls[i] \in Alive =>
       /\ m.known[i] # 0 => m.call[m.known[i]].state \in Going
       /\ \/ s \in Endless
          \/ s = "CONNECTING" /\ (m.known[i] = 0 \/ m.call[m.known[i]].state = "INITIALIZATION")
       /\ \A k \in Queued(d, i) : d.queue[k].state \in Endless
  /\ Awaited(m, d, i) \/ s = "CURRENT"

LEMMA TakenOwed ==
  ASSUME NEW m, NEW d \in Rings, d.queue # <<>>, NEW i, Head(d.queue).id = i, Followed(m, d, i)
  PROVE  Owed(m, Taken(d), i, Head(d.queue).state)
<1> DEFINE r == Taken(d)
           s == Head(d.queue).state
<1>1. /\ r.calls = d.calls /\ 1 \in Queued(d, i) /\ d.queue[1].state = s
      /\ \A k \in Queued(r, i) :
           k \in Nat \ {0} /\ k + 1 \in Queued(d, i) /\ r.queue[k] = d.queue[k + 1]
      /\ \A k \in Queued(d, i) :
           k = 1 \/ (k - 1 \in Queued(r, i) /\ r.queue[k - 1] = d.queue[k])
  BY TakenQueued DEF Saying
<1> HIDE DEF r, s
<1>2. \A k \in Queued(r, i) : ~(k + 1 <= 1)
  <2>1. \A k \in Nat \ {0} : ~(k + 1 <= 1)
    OBVIOUS
  <2> QED
    BY <1>1, <2>1
<1>3. Awaited(m, r, i) \/ s = "CURRENT"
  BY <1>1 DEF Followed, Awaited
<1>4. r.calls[i] # "free"
  BY <1>1 DEF Followed, Said
<1>5. ASSUME r.calls[i] \in Alive
      PROVE  /\ m.known[i] # 0 => m.call[m.known[i]].state \in Going
             /\ \/ s \in Endless
                \/ s = "CONNECTING" /\ (m.known[i] = 0 \/ m.call[m.known[i]].state = "INITIALIZATION")
             /\ \A k \in Queued(r, i) : r.queue[k].state \in Endless
  <2>1. d.calls[i] \in Alive
    BY <1>1, <1>5
  <2>2. m.known[i] # 0 => m.call[m.known[i]].state \in Going
    BY <2>1 DEF Followed, Said
  <2>3. \/ s \in Endless
        \/ s = "CONNECTING" /\ (m.known[i] = 0 \/ m.call[m.known[i]].state = "INITIALIZATION")
    BY <1>1, <2>1 DEF Followed, Said
  <2>4. ASSUME NEW k \in Queued(r, i) PROVE r.queue[k].state \in Endless
    <3>1. k + 1 \in Queued(d, i) /\ r.queue[k] = d.queue[k + 1] /\ ~(k + 1 <= 1)
      BY <1>1, <1>2
    <3>2. \/ d.queue[k + 1].state \in Endless
          \/ \A l \in Queued(d, i) : k + 1 <= l
      BY <2>1, <3>1 DEF Followed, Said
    <3> QED
      BY <1>1, <3>1, <3>2
  <2> QED
    BY <2>2, <2>3, <2>4
<1> QED
  BY <1>3, <1>4, <1>5 DEF Owed, r, s

\* What a handler leaves of a call whose signal it has handled.
LEMMA OwedFollowed ==
  ASSUME NEW m, NEW d, NEW i, NEW s, Owed(m, d, i, s), NEW n,
         \/ n = m /\ (m.known[i] # 0 \/ s # "CURRENT" \/ d.calls[i] \notin Alive)
         \/ n.known[i] # 0 /\ (d.calls[i] \in Alive => n.call[n.known[i]].state \in Going)
  PROVE  Followed(n, d, i)
<1>1. "current" \in Alive
  BY DEF Alive
<1>2. CASE n = m /\ (m.known[i] # 0 \/ s # "CURRENT" \/ d.calls[i] \notin Alive)
  BY <1>1, <1>2 DEF Owed, Followed, Said, Awaited
<1>3. CASE n.known[i] # 0 /\ (d.calls[i] \in Alive => n.call[n.known[i]].state \in Going)
  BY <1>1, <1>3 DEF Owed, Followed, Said, Awaited
<1> QED
  BY <1>2, <1>3

\* What handlers do to one object, one after the other.
LEMMA ApartSteps ==
  ASSUME ConfId = {}, NEW m \in Typed, IsInjective(m.rows), NEW o \in 1..Size(m), NEW n \in Apart(m, o)
  PROVE  /\ \A s \in Reached \ {"DIALING"} : SetState(n, o, s) \in Apart(m, o)
         /\ SetMissed(n, o) \in Apart(m, o) /\ slotCallChanged(n, o) \in Apart(m, o)
         /\ Schedule(n, o) \in Apart(m, o)
<1>1. /\ n \in Typed /\ o \in 1..Size(n) /\ IsInjective(n.rows)
      /\ \A p \in Apart(n, o) : p \in Apart(m, o)
  BY ApartThen DEF Apart
<1>2. \A s \in Reached \ {"DIALING"} : SetState(n, o, s) \in Apart(n, o)
  BY <1>1, SetStateApart
<1>3. SetMissed(n, o) \in Apart(n, o)
  BY <1>1, MissedApart
<1>4. slotCallChanged(n, o) \in Apart(n, o)
  BY <1>1, CallChangedApart
<1>5. Schedule(n, o) \in Apart(n, o)
  BY <1>1, ScheduleApart
<1> QED
  BY <1>1, <1>2, <1>3, <1>4, <1>5

LEMMA CallStateChangedIsApart ==
  ASSUME ConfId = {}, NEW m \in Tidy, NEW o \in 1..Size(m), NEW s \in DaemonReports
  PROVE  CallStateChanged(m, o, s) \in Apart(m, o)
<1> DEFINE was   == m.call[o].state
           t     == stateChangedStateMap[was][toDaemonCallState(s)]
           moved == SetState(m, o, t)
           erred == SetState(moved, o, "ERROR")
           miss  == SetMissed(moved, o)
           done  == stateChanged(m, o, s)
<1>1. m \in Typed /\ IsInjective(m.rows) /\ was \in Ordinary /\ m \in Apart(m, o)
  BY TidyState, ApartThen
<1>2. t \in Reached \ {"DIALING"} /\ "ERROR" \in Reached \ {"DIALING"}
  BY <1>1, OverStaysOver DEF Ordinary, Reached, State
<1>3. done \in {erred, slotCallChanged(miss, o), slotCallChanged(moved, o)}
  BY DEF stateChanged
<1> HIDE DEF t, done
<1>4. moved \in Apart(m, o)
  BY <1>1, <1>2, ApartSteps
<1> HIDE DEF moved
<1>5. erred \in Apart(m, o) /\ miss \in Apart(m, o) /\ slotCallChanged(moved, o) \in Apart(m, o)
  BY <1>1, <1>2, <1>4, ApartSteps
<1> HIDE DEF miss, erred
<1>6. slotCallChanged(miss, o) \in Apart(m, o)
  BY <1>1, <1>5, ApartSteps
<1>7. done \in Apart(m, o)
  BY <1>3, <1>5, <1>6
<1>8. CallStateChanged(m, o, s) \in {done, Schedule(done, o)}
  BY DEF CallStateChanged, done
<1> QED
  BY <1>1, <1>7, <1>8, ApartSteps

LEMMA PerformedIsApart ==
  ASSUME ConfId = {}, NEW m \in Tidy, NEW d, NEW o \in 1..Size(m), NEW a \in {"ACCEPT", "REFUSE"}
  PROVE  Performed(m, d, o, a).model \in Apart(m, o)
<1> DEFINE was == m.call[o].state
           t == actionPerformedStateMap[was][a]
           e == SetState(m, o, t)
           miss == SetMissed(e, o)
           erred == SetState(miss, o, "ERROR")
           over == SetState(e, o, "OVER")
           n == Performed(m, d, o, a).model
<1>1. m \in Typed /\ IsInjective(m.rows) /\ was \in Ordinary /\ m \in Apart(m, o)
  BY TidyState, ApartThen
<1>2. t \in Reached \ {"DIALING"} /\ {"ERROR", "OVER"} \subseteq Reached \ {"DIALING"}
  BY <1>1, OverStaysOver DEF Ordinary, Reached, State
<1>3. n \in {e, slotCallChanged(e, o), miss, erred, over}
  BY DEF Performed
<1> HIDE DEF t, n
<1>4. e \in Apart(m, o)
  BY <1>1, <1>2, ApartSteps
<1> HIDE DEF e
<1>5. over \in Apart(m, o) /\ miss \in Apart(m, o) /\ slotCallChanged(e, o) \in Apart(m, o)
  BY <1>1, <1>2, <1>4, ApartSteps
<1> HIDE DEF miss
<1>6. erred \in Apart(m, o)
  BY <1>1, <1>2, <1>5, ApartSteps
<1> QED
  BY <1>3, <1>4, <1>5, <1>6 DEF n

\* A call that is over nowhere is not ended by what it is told.
LEMMA GoesOn ==
  ASSUME ConfId = {}, NEW m \in Tidy, NEW o \in 1..Size(m), NEW s,
         m.call[o].state \in Going,
         \/ s \in {"INCOMING", "RINGING", "CURRENT"}
         \/ s = "CONNECTING" /\ m.call[o].state = "INITIALIZATION"
  PROVE  CallStateChanged(m, o, s).call[o].state \in Going
<1> DEFINE was   == m.call[o].state
           d     == toDaemonCallState(s)
           t     == stateChangedStateMap[was][d]
           f     == stateChangedFunctionMap[was][d]
           moved == SetState(m, o, t)
           done  == slotCallChanged(moved, o)
<1>1. m \in Typed /\ IsInjective(m.rows)
  BY TidyState
<1>2. t \in Going /\ f \notin {"error", "failure", "startStop"}
  <2>1. \/ d \in {"RINGING", "CURRENT"}
        \/ d = "CONNECTING" /\ was = "INITIALIZATION"
    BY DEF toDaemonCallState
  <2> HIDE DEF d, was
  <2>2. was \in Going
    BY DEF was
  <2>3. t \in Going
    <3>1. CASE was = "INITIALIZATION"
      BY <2>1, <3>1 DEF Going, State, DaemonState, stateChangedStateMap, DaemonRow
    <3>2. CASE was \in {"INCOMING", "RINGING", "CURRENT"}
      BY <2>1, <3>2 DEF Going, State, DaemonState, stateChangedStateMap, DaemonRow
    <3> QED
      BY <2>2, <3>1, <3>2 DEF Going
  <2>4. f \in {OnRinging(was), OnCurrent(was)}
    BY <2>1, <2>2 DEF stateChangedFunctionMap, Going, State, DaemonState
  <2>5. OnRinging(was) = "nothing" /\ OnCurrent(was) \in {"start", "warning", "nothing"}
    BY <2>2 DEF OnRinging, OnCurrent, GivenUp, Placing, Going
  <2> QED
    BY <2>3, <2>4, <2>5
<1>3. stateChanged(m, o, s) = done
  BY <1>2 DEF stateChanged
<1> HIDE DEF t, f
<1>4. t \in Reached \ {"DIALING"} /\ t # "OVER"
  BY <1>2 DEF Going, Reached, State
<1>5. moved \in Apart(m, o) /\ moved.call[o].state = t
  BY <1>1, <1>4, SetStateApart
<1> HIDE DEF moved
<1>6. moved \in Typed /\ o \in 1..Size(moved) /\ IsInjective(moved.rows)
  BY <1>1, <1>5, ApartThen DEF Apart
<1>7. done.call = moved.call
  BY <1>6, CallChangedApart
<1> HIDE DEF done
<1>8. done.call[o].state = t
  BY <1>5, <1>7
<1>9. CallStateChanged(m, o, s) = done
  BY <1>3, <1>4, <1>8 DEF CallStateChanged
<1> QED
  BY <1>2, <1>8, <1>9


LEMMA ElsewhereFacts ==
  ASSUME NEW m \in Typed, NEW i
  PROVE  m \in Elsewhere(m, i) /\ \A n \in Elsewhere(m, i) : Elsewhere(n, i) \subseteq Elsewhere(m, i)
<1>1. m \in Elsewhere(m, i)
  BY DEF Elsewhere
<1>2. ASSUME NEW n \in Elsewhere(m, i), NEW p \in Elsewhere(n, i) PROVE p \in Elsewhere(m, i)
  BY <1>2 DEF Elsewhere
<1> QED
  BY <1>1, <1>2

\* A handler of one object changes at most the call of that object.
LEMMA ApartElsewhere ==
  ASSUME NEW m \in Typed, NEW o \in 1..Size(m), NEW i, m.call[o].id \notin CallId \ {i},
         NEW n \in Apart(m, o)
  PROVE  n \in Elsewhere(m, i)
<1>1. n \in Typed /\ n.known = m.known /\ n.started = m.started
  BY ApartThen DEF Apart, From, Kept
<1>2. ASSUME NEW j \in CallId, j # i, m.known[j] # 0
      PROVE  n.call[m.known[j]] = m.call[m.known[j]]
  <2>1. j \in Ids
    BY DEF Ids
  <2>2. m.known[j] \in 1..Size(m) /\ m.call[m.known[j]].id = j
    BY <1>2, <2>1, KnownObject, TypedFacts
  <2>3. m.known[j] # o
    BY <1>2, <2>2
  <2> QED
    BY <2>2, <2>3 DEF Apart
<1> QED
  BY <1>1, <1>2 DEF Elsewhere

\* What the user's requests ask of the daemon, when there is no conference.
LEMMA PerformedRing ==
  ASSUME ConfId = {}, NEW m \in Typed, NEW d \in Rings, NEW o \in 1..Size(m), NEW a
  PROVE  Performed(m, d, o, a).ring \in {d, Accepted(d, m.call[o].id), HungUp(d, m.call[o].id)}
<1>1. ~IsConference(m, o)
  BY NoConference
<1> QED
  BY <1>1 DEF Performed

LEMMA HungUpIs ==
  ASSUME ConfId = {}, NEW d \in Rings, NEW i
  PROVE  HungUp(d, i) = IF i \in CallId /\ d.calls[i] \in Alive THEN Moved(d, i, "ended", "HUNGUP") ELSE d
<1>1. Leaves(d, i) = d
  BY DEF Leaves, ConferencesOf
<1> QED
  BY <1>1 DEF HungUp, Ended, Known

LEMMA RequestsBesides ==
  ASSUME ConfId = {}, NEW d \in Rings, NEW i, NEW j \in CallId, i # j
  PROVE  Accepted(d, i) \in Besides(d, j) /\ HungUp(d, i) \in Besides(d, j)
<1>1. /\ {"current", "ended"} \subseteq DaemonCall
      /\ {"CURRENT", "HUNGUP"} \subseteq DaemonReports
  BY DEF DaemonCall, Alive, DaemonReports
<1>2. i \in CallId => /\ Moved(d, i, "current", "CURRENT") \in Besides(d, j)
                      /\ Moved(d, i, "ended", "HUNGUP") \in Besides(d, j)
  BY <1>1, MovedBesides
<1>3. d \in Besides(d, j)
  BY BesidesFacts
<1>4. Accepted(d, i) = d \/ (i \in CallId /\ Accepted(d, i) = Moved(d, i, "current", "CURRENT"))
  BY DEF Accepted, Known
<1>5. HungUp(d, i) = d \/ (i \in CallId /\ HungUp(d, i) = Moved(d, i, "ended", "HUNGUP"))
  BY HungUpIs
<1> QED
  BY <1>2, <1>3, <1>4, <1>5

LEMMA GoingActions ==
  ASSUME NEW s \in Going
  PROVE  /\ s = "INCOMING" =>
              /\ actionPerformedStateMap[s]["ACCEPT"] = s /\ actionPerformedStateMap[s]["REFUSE"] = s
              /\ actionPerformedFunctionMap[s]["ACCEPT"] = "accept"
              /\ actionPerformedFunctionMap[s]["REFUSE"] = "refuse"
         /\ s # "INCOMING" => actionPerformedFunctionMap[s]["REFUSE"] \in {"hangUp", "cancel"}
<1>1. /\ actionPerformedFunctionMap[s]["ACCEPT"] = OnAccept(s)
      /\ actionPerformedFunctionMap[s]["REFUSE"] = OnRefuse(s)
  BY DEF actionPerformedFunctionMap, Going, State, Action
<1>2. s = "INCOMING" => OnAccept(s) = "accept" /\ OnRefuse(s) = "refuse"
  BY DEF OnAccept, OnRefuse
<1>3. s # "INCOMING" => OnRefuse(s) \in {"hangUp", "cancel"}
  BY DEF OnRefuse, Going
<1>4. s = "INCOMING" => actionPerformedStateMap[s]["ACCEPT"] = s /\ actionPerformedStateMap[s]["REFUSE"] = s
  BY DEF actionPerformedStateMap, ActionRow, State, Action
<1> QED
  BY <1>1, <1>2, <1>3, <1>4

\* The user, or the account, accepts or refuses a call that is known.
LEMMA PerformedFollowed ==
  ASSUME ConfId = {}, NEW m \in Tidy, NEW d \in Rings, NEW i \in CallId, m.known[i] # 0,
         NEW a \in {"ACCEPT", "REFUSE"}, a = "ACCEPT" => m.call[m.known[i]].state = "INCOMING",
         Followed(m, d, i)
  PROVE  Followed(Performed(m, d, m.known[i], a).model, Performed(m, d, m.known[i], a).ring, i)
<1> DEFINE o == m.known[i]
           s == m.call[o].state
           n == Performed(m, d, o, a).model
           e == Performed(m, d, o, a).ring
<1>1. m \in Typed /\ i \in Ids /\ o # 0
  BY DEF Tidy, Ids
<1>2. o \in 1..Size(m) /\ m.call[o].id = i /\ ~IsConference(m, o)
  BY <1>1, KnownObject, TypedFacts, NoConference
<1>3. n \in Apart(m, o) /\ e \in {d, Accepted(d, i), HungUp(d, i)}
  BY <1>1, <1>2, PerformedIsApart, PerformedRing
<1>4. n.known = m.known /\ n.started = m.started
  BY <1>3 DEF Apart, From, Kept
<1>5. "current" \in Alive /\ "incoming" \in Alive /\ "HUNGUP" \in DaemonReports
  BY DEF Alive, DaemonReports
<1>6. CASE d.calls[i] \notin Alive
  <2>1. Accepted(d, i) = d /\ HungUp(d, i) = d
    BY <1>5, <1>6, HungUpIs DEF Accepted
  <2>2. e = d
    BY <1>3, <2>1
  <2> HIDE DEF n, e
  <2>3. Followed(n, d, i)
    BY <1>5, <1>6 DEF Followed, Said, Awaited
  <2> QED
    BY <2>2, <2>3 DEF n, e
<1>7. CASE d.calls[i] \in Alive
  <2>1. s \in Going /\ Known(d, i)
    BY <1>1, <1>7 DEF Followed, Said, Known
  <2>2. \A x : Followed(x, HungUp(d, i), i)
    BY <1>5, <1>7, HungUpIs, GoneFollowed
  <2>3. CASE s = "INCOMING"
    <3>1. /\ actionPerformedStateMap[s][a] = s
          /\ a = "ACCEPT" => actionPerformedFunctionMap[s][a] = "accept"
          /\ a = "REFUSE" => actionPerformedFunctionMap[s][a] = "refuse"
      BY <2>1, <2>3, GoingActions
    <3>2. SetState(m, o, s) = m
      BY DEF SetState
    <3>3. a = "ACCEPT" => n = m /\ e = Accepted(d, i)
      BY <1>2, <3>1, <3>2 DEF Performed
    <3>4. a = "REFUSE" => n = SetMissed(m, o) /\ e \in {d, HungUp(d, i)}
      BY <1>2, <2>1, <3>1, <3>2 DEF Performed
    <3>5. a = "REFUSE" => n.call[o].state = s
      BY <1>1, <1>2, <3>4, MissedApart
    <3> HIDE DEF n, e
    <3>6. CASE a = "ACCEPT"
      <4>1. Followed(m, Accepted(d, i), i)
        <5>1. Accepted(d, i) \in {d, Moved(d, i, "current", "CURRENT")}
          BY DEF Accepted
        <5>2. Followed(m, Moved(d, i, "current", "CURRENT"), i)
          BY <1>5, <1>7, MovedFollowed
        <5> QED
          BY <5>1, <5>2
      <4> QED
        BY <3>3, <3>6, <4>1 DEF n, e
    <3>7. CASE a = "REFUSE"
      <4>1. Followed(n, d, i)
        BY <1>4, <3>5, <3>7 DEF Followed, Said, Awaited, o, s
      <4> QED
        BY <2>2, <3>4, <3>7, <4>1 DEF n, e
    <3> QED
      BY <3>6, <3>7
  <2>4. CASE s # "INCOMING"
    <3>1. a = "REFUSE" /\ actionPerformedFunctionMap[s][a] \in {"hangUp", "cancel"}
      BY <2>1, <2>4, GoingActions
    <3>2. e = HungUp(d, i)
      BY <1>2, <3>1 DEF Performed
    <3> HIDE DEF n, e
    <3>3. Followed(n, e, i)
      BY <2>2, <3>2
    <3> QED
      BY <3>3 DEF n, e
  <2> QED
    BY <2>3, <2>4
<1> QED
  BY <1>6, <1>7

\* The objects of the other calls are not touched when one is added.
LEMMA AddedElsewhere ==
  ASSUME NEW m \in Typed, NEW c, Sane(c, Size(m))
  PROVE  /\ addCall(m, c) \in Elsewhere(m, c.id)
         /\ c.id \in CallId => /\ addCall(m, c).known[c.id] # 0
                               /\ addCall(m, c).call[addCall(m, c).known[c.id]] = c
<1> DEFINE n == addCall(m, c)
           o == Size(m) + 1
<1>1. /\ n \in Typed /\ n.call[o] = c /\ \A p \in 1..Size(m) : n.call[p] = m.call[p]
      /\ \A i \in Ids : n.known[i] = IF i = c.id THEN o ELSE m.known[i]
      /\ n.started = m.started
  BY AddCallFields
<1>2. o # 0
  BY TypedFacts, Ranges
<1> HIDE DEF n, o
<1>3. ASSUME NEW j \in CallId, j # c.id
      PROVE  /\ n.known[j] = m.known[j]
             /\ m.known[j] # 0 => n.call[m.known[j]].state = m.call[m.known[j]].state
  <2>1. j \in Ids
    BY DEF Ids
  <2>2. m.known[j] # 0 => m.known[j] \in 1..Size(m)
    BY <2>1, KnownObject
  <2> QED
    BY <1>1, <1>3, <2>1, <2>2
<1>4. n \in Elsewhere(m, c.id)
  BY <1>1, <1>3 DEF Elsewhere
<1>5. c.id \in CallId => n.known[c.id] # 0 /\ n.call[n.known[c.id]] = c
  BY <1>1, <1>2 DEF Ids
<1> QED
  BY <1>4, <1>5 DEF n

LEMMA AddExistingFollowed ==
  ASSUME NEW m \in Typed, NEW d \in Rings, NEW i \in CallId, NEW s, Owed(m, d, i, s)
  PROVE  Followed(addExistingCall(m, d, i), d, i) /\ addExistingCall(m, d, i) \in Elsewhere(m, i)
<1> DEFINE t == StartState(d, i)
           c == NewCall("CALL", i, t)
           n == addCall(m, c)
<1>1. CASE ~Known(d, i)
  <2>1. d.calls[i] \notin Alive /\ addExistingCall(m, d, i) = m
    BY <1>1 DEF Known, addExistingCall
  <2> QED
    BY <2>1, OwedFollowed, ElsewhereFacts
<1>2. CASE Known(d, i)
  <2>1. t \in Reached \ {"DIALING"} /\ (d.calls[i] \in Alive => t \in Going)
    BY <1>2 DEF StartState, Known, Alive, Reached, State, Going
  <2>2. addExistingCall(m, d, i) = n
    BY <1>2 DEF addExistingCall
  <2> HIDE DEF t
  <2>3. Sane(c, Size(m)) /\ c.state = t /\ c.id = i
    BY <2>1, NewCallOfId
  <2> HIDE DEF c
  <2>4. n \in Elsewhere(m, i) /\ n.known[i] # 0 /\ n.call[n.known[i]] = c
    BY <2>3, AddedElsewhere
  <2> HIDE DEF n
  <2>5. Followed(n, d, i)
    BY <2>1, <2>3, <2>4, OwedFollowed
  <2> QED
    BY <2>2, <2>4, <2>5
<1> QED
  BY <1>1, <1>2

\* A call that comes in is followed, built or not and refused or not.
LEMMA AddIncomingFollowed ==
  ASSUME ConfId = {}, "AUTO_ANSWER" \notin AutoAnswers, NEW m \in Tidy, NEW d \in Rings,
         NEW i \in CallId, NEW s, Owed(m, d, i, s), s # "CURRENT"
  PROVE  /\ Followed(addIncomingCall(m, d, i).model, addIncomingCall(m, d, i).ring, i)
         /\ addIncomingCall(m, d, i).model \in Elsewhere(m, i)
         /\ \A j \in CallId : i # j => addIncomingCall(m, d, i).ring \in Besides(d, j)
<1> DEFINE c == NewCall("CALL", i, "INCOMING")
           b == IF m.known[i] = 0 THEN addCall(m, c) ELSE m
           r == addIncomingCall(m, d, i)
           p == Performed(b, d, b.known[i], "REFUSE")
<1>1. m \in Typed /\ i \in Ids /\ m.answer # "AUTO_ANSWER" /\ \A j \in CallId : d \in Besides(d, j)
  BY BesidesFacts, TypedFacts DEF Tidy, Ids, Models
<1>2. CASE m.known[i] = 0 /\ ~Known(d, i)
  <2>1. r.model = m /\ r.ring = d /\ d.calls[i] \notin Alive
    BY <1>2 DEF addIncomingCall, Known
  <2> HIDE DEF r
  <2>2. Followed(m, d, i) /\ m \in Elsewhere(m, i)
    BY <1>1, <2>1, OwedFollowed, ElsewhereFacts
  <2>3. Followed(r.model, r.ring, i)
    BY <2>1, <2>2
  <2> QED
    BY <1>1, <2>1, <2>2, <2>3 DEF r
<1>3. CASE ~(m.known[i] = 0 /\ ~Known(d, i))
  <2>1. "INCOMING" \in Reached \ {"DIALING"} /\ "INCOMING" \in Ordinary /\ "INCOMING" \in Going
    BY DEF Reached, State, Ordinary, Going
  <2>2. Sane(c, Size(m)) /\ c.id = i /\ c.state = "INCOMING" /\ ~c.missed
    BY <1>1, <2>1, NewCallOfId
  <2>3. (r.model = b /\ r.ring = d) \/ r = p
    BY <1>1, <1>3 DEF addIncomingCall
  <2> HIDE DEF c
  <2>4. b \in Tidy /\ b \in Elsewhere(m, i) /\ b.known[i] # 0 /\ Followed(b, d, i)
    <3>1. CASE m.known[i] = 0
      <4> DEFINE n == addCall(m, c)
      <4>1. n \in Tidy
        BY <2>1, <2>2, AddCallTidy
      <4>2. n \in Elsewhere(m, i) /\ n.known[i] # 0 /\ n.call[n.known[i]] = c
        BY <1>1, <2>2, AddedElsewhere
      <4>3. b = n
        BY <3>1
      <4> HIDE DEF n, b
      <4>4. Followed(n, d, i)
        BY <2>1, <2>2, <4>2, OwedFollowed
      <4> QED
        BY <4>1, <4>2, <4>3, <4>4
    <3>2. CASE m.known[i] # 0
      <4>1. b = m
        BY <3>2
      <4> HIDE DEF b
      <4> QED
        BY <1>1, <3>2, <4>1, OwedFollowed, ElsewhereFacts
    <3> QED
      BY <3>1, <3>2
  <2> HIDE DEF r, b
  <2>5. b \in Typed /\ b.known[i] \in 1..Size(b) /\ b.call[b.known[i]].id = i
    BY <1>1, <2>4, KnownObject, TypedFacts DEF Tidy
  <2>6. /\ p.model \in Elsewhere(m, i) /\ Followed(p.model, p.ring, i)
        /\ \A j \in CallId : i # j => p.ring \in Besides(d, j)
    <3>1. p.model \in Apart(b, b.known[i])
      BY <2>4, <2>5, PerformedIsApart
    <3>2. p.model \in Elsewhere(b, i)
      BY <2>5, <3>1, ApartElsewhere
    <3>3. p.ring \in {d, Accepted(d, i), HungUp(d, i)}
      BY <2>5, PerformedRing
    <3>4. Followed(p.model, p.ring, i)
      BY <2>4, PerformedFollowed
    <3> HIDE DEF p
    <3>5. p.model \in Elsewhere(m, i)
      BY <1>1, <2>4, <3>2, ElsewhereFacts
    <3> QED
      BY <1>1, <3>3, <3>4, <3>5, RequestsBesides
  <2> HIDE DEF p
  <2>7. CASE r.model = b /\ r.ring = d
    <3>1. Followed(r.model, r.ring, i) /\ r.model \in Elsewhere(m, i)
      BY <2>4, <2>7
    <3> QED
      BY <1>1, <2>7, <3>1 DEF r
  <2>8. CASE r = p
    <3>1. Followed(r.model, r.ring, i)
      BY <2>6, <2>8
    <3> QED
      BY <2>6, <2>8, <3>1 DEF r
  <2> QED
    BY <2>3, <2>7, <2>8
<1> QED
  BY <1>2, <1>3


\* All the calls, in one state of the system.
AllFollowed == \A i \in CallId : Followed(model, ring, i)

\* A step that changes one call, or none.
LEMMA FollowedBy ==
  ASSUME AllFollowed, NEW i, model' \in Elsewhere(model, i),
         \A j \in CallId : i # j => ring' \in Besides(ring, j),
         i \in CallId => Followed(model', ring', i)
  PROVE  AllFollowed'
<1>1. ASSUME NEW j \in CallId, i # j PROVE Followed(model', ring', j)
  <2>1. Followed(model, ring, j) /\ ring' \in Besides(ring, j)
    BY <1>1 DEF AllFollowed
  <2> QED
    BY <1>1, <2>1, FollowedElsewhere
<1> QED
  BY <1>1 DEF AllFollowed

LEMMA InitFollowed ==
  Init => AllFollowed
<1> SUFFICES ASSUME Init, NEW i \in CallId PROVE Followed(model, ring, i)
  BY DEF AllFollowed
<1>1. ring.queue = <<>> /\ ring.late = {} /\ ~model.started
  BY DEF Init
<1>2. i \in Ids /\ model.known = [j \in Ids |-> 0]
  BY DEF Init, Ids
<1>3. Queued(ring, i) = {} /\ model.known[i] = 0
  BY <1>1, <1>2, EmptySeq DEF Queued
<1> QED
  BY <1>1, <1>3 DEF Followed, Said, Awaited

\* The calls of D are listed, and what is listed goes on.
Begun(d, D) ==
  {m \in Typed : /\ \A i \in D : m.known[i] # 0
                 /\ \A i \in CallId : m.known[i] # 0 /\ d.calls[i] \in Alive =>
                                        m.call[m.known[i]].state \in Going}

LEMMA AddExistingBegun ==
  ASSUME NEW d \in Rings, NEW D \in SUBSET CallId, NEW m \in Begun(d, D), NEW i \in CallId,
         Known(d, i)
  PROVE  addExistingCall(m, d, i) \in Begun(d, D \cup {i})
<1> DEFINE t == StartState(d, i)
           c == NewCall("CALL", i, t)
           n == addCall(m, c)
<1>1. m \in Typed
  BY DEF Begun
<1>2. t \in Reached \ {"DIALING"} /\ (d.calls[i] \in Alive => t \in Going)
  BY DEF StartState, Known, Alive, Reached, State, Going
<1>3. addExistingCall(m, d, i) = n
  BY DEF addExistingCall
<1> HIDE DEF t
<1>4. Sane(c, Size(m)) /\ c.state = t /\ c.id = i
  BY <1>1, <1>2, NewCallOfId
<1> HIDE DEF c
<1>5. n \in Elsewhere(m, i) /\ n.known[i] # 0 /\ n.call[n.known[i]] = c
  BY <1>1, <1>4, AddedElsewhere
<1> HIDE DEF n
<1>6. n \in Begun(d, D \cup {i})
  BY <1>2, <1>4, <1>5 DEF Begun, Elsewhere
<1> QED
  BY <1>3, <1>6

LEMMA StartFollowed ==
  ASSUME ConfId = {}, TypeInv, Separate(model, ring), AllFollowed, Start
  PROVE  AllFollowed'
<1> DEFINE C == {i \in CallId : Known(ring, i)}
           F == {f \in ConfId : ring.confs[f] = "live"}
           U == Typed
           added == AddedCalls(model, ring, C)
           done == AddedConferences(added, ring, F)
           n == [done EXCEPT !.started = TRUE]
<1>1. /\ ring \in Rings /\ model \in Typed /\ model' = n /\ ring' = ring
      /\ ring.queue = <<>> /\ \A i \in Ids : model.known[i] = 0
  BY DEF TypeInv, Separate, Start, AddedCalls, AddedConferences
<1>2. C \in SUBSET CallId /\ F = {} /\ \A i \in C : Known(ring, i)
  OBVIOUS
<1>3. IsFiniteSet(C) /\ IsFiniteSet(F)
  BY <1>2, CallIdAssumption, FS_Subset, FS_EmptySet
<1>4. \A i \in CallId : ring.calls[i] = "current" => i \in C
  BY DEF Known, Alive
<1> HIDE DEF C, F
<1>5. added \in Begun(ring, C)
  <2> DEFINE f == [p \in U \X C |-> addExistingCall(p[1], ring, p[2])]
             g == [D \in SUBSET C |-> Begun(ring, D)]
  <2>1. \A D \in SUBSET C : \A x \in Begun(ring, D), i \in C :
          x \in U /\ f[<<x, i>>] \in Begun(ring, D \cup {i})
    <3> SUFFICES ASSUME NEW D \in SUBSET C, NEW x \in Begun(ring, D), NEW i \in C
                 PROVE  x \in U /\ f[<<x, i>>] \in Begun(ring, D \cup {i})
      OBVIOUS
    <3>1. x \in U
      BY DEF Begun
    <3>2. D \in SUBSET CallId /\ i \in CallId /\ Known(ring, i)
      BY <1>2
    <3>3. addExistingCall(x, ring, i) \in Begun(ring, D \cup {i})
      BY <1>1, <3>2, AddExistingBegun
    <3> QED
      BY <3>1, <3>3
  <2>2. /\ \A D \in SUBSET C : g[D] = Begun(ring, D)
        /\ C \in SUBSET C /\ {} \in SUBSET C
        /\ \A D \in SUBSET C, i \in C : D \cup {i} \in SUBSET C
    OBVIOUS
  <2>3. model \in Begun(ring, {})
    BY <1>1 DEF Begun, Ids
  <2> HIDE DEF f, g, U
  <2>4. model \in g[{}]
    BY <2>2, <2>3
  <2>5. \A D \in SUBSET C : g[D] \subseteq U
    <3> SUFFICES ASSUME NEW D \in SUBSET C PROVE Begun(ring, D) \subseteq U
      BY <2>2
    <3> QED
      BY DEF Begun, U
  <2>6. ASSUME NEW D \in SUBSET C, NEW i \in C \ D, NEW x \in g[D]
        PROVE  f[<<x, i>>] \in g[D \cup {i}]
    <3>1. x \in Begun(ring, D)
      BY <2>2, <2>6
    <3>2. f[<<x, i>>] \in Begun(ring, D \cup {i})
      BY <2>1, <3>1
    <3>3. D \cup {i} \in SUBSET C
      OBVIOUS
    <3> QED
      BY <2>2, <3>2, <3>3
  <2>7. Graded(C, U, g, model, f)
    BY <1>3, <2>4, <2>5, <2>6 DEF Graded
  <2>8. added \in g[C]
    BY <2>7, AddedCallsReach DEF f
  <2> QED
    BY <2>2, <2>8
<1> HIDE DEF added
<1>6. done \in Begun(ring, C)
  <2> DEFINE f == [p \in U \X F |-> addConference(p[1], ring, p[2])]
             B == Begun(ring, C)
             g == [D \in SUBSET F |-> B]
  <2>1. \A D \in SUBSET F : g[D] = B
    OBVIOUS
  <2>2. B \subseteq U
    BY DEF Begun
  <2>3. F \in SUBSET F /\ {} \in SUBSET F /\ \A D \in SUBSET F : F \ D = {}
    BY <1>2
  <2>4. added \in B
    BY <1>5
  <2> HIDE DEF f, g, B, U
  <2>5. Graded(F, U, g, added, f)
    BY <1>3, <2>1, <2>2, <2>3, <2>4 DEF Graded
  <2>6. done \in g[F]
    BY <2>5, AddedConferencesReach DEF f
  <2> QED
    BY <2>1, <2>3, <2>6 DEF B
<1> HIDE DEF done
<1>7. n.known = done.known /\ n.call = done.call
  BY <1>6, TypedFacts DEF Begun, Models
<1> HIDE DEF n
<1>8. ASSUME NEW i \in CallId PROVE Followed(n, ring, i)
  <2>1. Queued(ring, i) = {}
    BY <1>1, EmptySeq DEF Queued
  <2>2. ring.calls[i] = "free" => i \notin ring.late
    BY DEF AllFollowed, Followed, Said
  <2>3. n.known[i] # 0 /\ ring.calls[i] \in Alive => n.call[n.known[i]].state \in Going
    BY <1>6, <1>7 DEF Begun
  <2>4. ring.calls[i] = "current" => n.known[i] # 0
    BY <1>4, <1>6, <1>7 DEF Begun
  <2> QED
    BY <2>1, <2>2, <2>3, <2>4 DEF Followed, Said, Awaited
<1> QED
  BY <1>1, <1>8 DEF AllFollowed

LEMMA PlacedFollowed ==
  ASSUME NEW m \in Typed, NEW d \in Rings, NEW o \in 1..Size(m), NEW i \in CallId,
         m.call[o].state = "DIALING", d.calls[i] = "free", Followed(m, d, i)
  PROVE  /\ Placed(m, o, i) \in Elsewhere(m, i)
         /\ Followed(Placed(m, o, i), Moved(d, i, "connecting", "CONNECTING"), i)
<1> DEFINE n == Placed(m, o, i)
           r == Identified(m.call[o], i)
<1>1. /\ n \in Typed /\ n.call[o] = r
      /\ \A p \in 1..Size(m) : p # o => n.call[p] = m.call[p]
      /\ n.known[i] = o /\ n.started = m.started
      /\ \A j \in Ids : j # i => n.known[j] = m.known[j]
  BY PlacedFields
<1>2. m.call[o] \in Record(Size(m)) /\ m.call[o].id = ""
  BY TypedFacts DEF Sane
<1>3. r.state = "INITIALIZATION"
  BY <1>2 DEF Record, Identified
<1> HIDE DEF n, r
<1>4. ASSUME NEW j \in CallId, j # i, m.known[j] # 0
      PROVE  n.call[m.known[j]] = m.call[m.known[j]]
  <2>1. j \in Ids /\ j # ""
    BY CallIdAssumption DEF Ids
  <2>2. m.known[j] \in 1..Size(m) /\ m.call[m.known[j]].id = j
    BY <1>4, <2>1, KnownObject, TypedFacts
  <2> QED
    BY <1>1, <1>2, <2>1, <2>2
<1>5. n \in Elsewhere(m, i)
  BY <1>1, <1>4 DEF Elsewhere, Ids
<1>6. Said(n, d, i)
  <2>1. "free" \notin Alive
    BY DEF Alive
  <2> QED
    BY <2>1 DEF Followed, Said
<1>7. Followed(n, Moved(d, i, "connecting", "CONNECTING"), i)
  BY <1>1, <1>3, <1>6, MadeFollowed
<1> QED
  BY <1>5, <1>7 DEF n

LEMMA UserFollowed ==
  ASSUME ConfId = {}, TypeInv, Separate(model, ring), model \in Tidy, AllFollowed, User
  PROVE  AllFollowed'
<1>1. /\ model \in Typed /\ ring \in Rings /\ "" \notin CallId /\ \A i : model \in Elsewhere(model, i)
      /\ \A j : ring \in Besides(ring, j)
  BY CallIdAssumption, ElsewhereFacts, BesidesFacts DEF TypeInv
<1>2. CASE DialingCall
  <2> DEFINE c == NewCall("CALL", "", "DIALING")
  <2>1. model' = addCall(model, c) /\ ring' = ring
    BY <1>2 DEF DialingCall
  <2>2. Sane(c, Size(model)) /\ c.id = ""
    BY <1>1, NewDialedCall
  <2> HIDE DEF c
  <2>3. model' \in Elsewhere(model, "")
    BY <1>1, <2>1, <2>2, AddedElsewhere
  <2> QED
    BY <1>1, <2>1, <2>3, FollowedBy
<1>3. ASSUME NEW o \in Listed(model), PlaceCall(o) PROVE AllFollowed'
  <2>1. PICK i \in CallId :
          /\ ring.calls[i] = "free" /\ model.call[o].state = "DIALING"
          /\ model' = Placed(model, o, i) /\ ring' = Moved(ring, i, "connecting", "CONNECTING")
    BY <1>3 DEF PlaceCall, Placed
  <2>2. o \in 1..Size(model) /\ Followed(model, ring, i)
    BY <1>1, <1>3, ListedObjects DEF AllFollowed
  <2>3. model' \in Elsewhere(model, i) /\ Followed(model', ring', i)
    BY <1>1, <2>1, <2>2, PlacedFollowed
  <2>4. "connecting" \in DaemonCall /\ "CONNECTING" \in DaemonReports
    BY DEF DaemonCall, Alive, DaemonReports
  <2>5. \A j \in CallId : i # j => ring' \in Besides(ring, j)
    BY <1>1, <2>1, <2>4, MovedBesides
  <2> QED
    BY <2>3, <2>5, FollowedBy
<1>4. ASSUME NEW o \in Listed(model), NEW a \in {"ACCEPT", "REFUSE"}, PerformAction(o, a)
      PROVE  AllFollowed'
  <2> DEFINE i == model.call[o].id
             n == Performed(model, ring, o, a).model
             e == Performed(model, ring, o, a).ring
  <2>1. model' = n /\ ring' = e /\ (a = "ACCEPT" => model.call[o].state = "INCOMING")
    BY <1>4 DEF PerformAction
  <2>2. o \in 1..Size(model) /\ Unique(model)
    BY <1>1, <1>4, ListedObjects DEF Separate
  <2>3. n \in Apart(model, o) /\ e \in {ring, Accepted(ring, i), HungUp(ring, i)}
    BY <1>1, <2>2, PerformedIsApart, PerformedRing
  <2>4. n \in Elsewhere(model, i)
    BY <1>1, <2>2, <2>3, ApartElsewhere
  <2>5. \A j \in CallId : i # j => e \in Besides(ring, j)
    BY <1>1, <2>3, RequestsBesides
  <2>6. ASSUME i \in CallId PROVE Followed(n, e, i)
    <3>1. model.known[i] = o /\ o # 0
      BY <1>1, <2>2, <2>6, TypedFacts DEF Unique
    <3>2. Followed(model, ring, i)
      BY <2>6 DEF AllFollowed
    <3> QED
      BY <1>1, <2>1, <2>6, <3>1, <3>2, PerformedFollowed
  <2> HIDE DEF n, e, i
  <2> QED
    BY <2>1, <2>4, <2>5, <2>6, FollowedBy
<1>5. ASSUME NEW o \in Listed(model), NEW p \in Listed(model),
             JoinCalls(o, p) \/ MergeConferences(o, p) \/ DetachParticipant(o)
      PROVE  AllFollowed'
  <2>1. o \in 1..Size(model)
    BY <1>1, <1>5, ListedObjects
  <2>2. ~MergeConferences(o, p)
    BY <1>1, <2>1, NoConference DEF MergeConferences
  <2>3. model' = model /\ ring' = ring
    BY <1>5, <2>2 DEF JoinCalls, Joined, DetachParticipant, Leaves, ConferencesOf
  <2> QED
    BY <1>1, <2>3, FollowedBy
<1> QED
  BY <1>2, <1>3, <1>4, <1>5 DEF User

LEMMA TimerFollowed ==
  ASSUME ConfId = {}, TypeInv, model \in Tidy, AllFollowed, Check \/ AutoClean
  PROVE  AllFollowed'
<1>1. /\ model \in Typed /\ model \in Models /\ IsInjective(model.rows) /\ ring \in Rings
      /\ ring' = ring /\ "" \notin CallId
  BY TypedFacts, CallIdAssumption DEF Tidy, TypeInv, Check, AutoClean
<1>2. ASSUME NEW rest \in From(model), rest.call = model.call, rest.rows = model.rows,
             NEW o \in 1..Size(model)
      PROVE  removeCall(rest, o) \in From(rest) /\ removeCall(rest, o).call = model.call
  <2>1. rest \in Typed /\ Size(rest) = Size(model)
    BY <1>1, ThenFrom
  <2> QED
    BY <1>1, <1>2, <2>1, RemoveCallApart DEF Apart
<1>3. model' \in Typed /\ model'.call = model.call /\ model'.known = model.known
      /\ model'.started = model.started
  <2>1. CASE Check
    <3> DEFINE o == Head(model.checks)
               t == Tail(model.checks)
               rest == [model EXCEPT !.checks = t]
               u == Append(rest.removals, o)
               later == [rest EXCEPT !.removals = Append(@, o)]
    <3>1. model.checks \in Seq(1..Size(model)) /\ model.checks # <<>>
      BY <1>1, <2>1, TypedFacts DEF Check
    <3>2. o \in 1..Size(model) /\ t \in Seq(1..Size(model))
      BY <3>1, HeadAndTail
    <3>3. model' \in {removeCall(rest, o), later, rest}
      BY <2>1 DEF Check
    <3>4. /\ rest.call = model.call /\ rest.rows = model.rows /\ rest \in From(model)
          /\ later = [rest EXCEPT !.removals = u]
      BY <1>1, <3>2, ListsFields DEF Models
    <3> HIDE DEF rest, o, t, later
    <3>5. rest \in Typed /\ Size(rest) = Size(model) /\ \A n \in From(rest) : n \in From(model)
      BY <1>1, <3>4, ThenFrom
    <3>6. rest \in Models /\ rest.removals \in Seq(1..Size(rest)) /\ o \in 1..Size(rest)
      BY <3>2, <3>5, TypedFacts
    <3>7. u \in Seq(1..Size(rest))
      BY <3>6, AppendProperties
    <3> HIDE DEF u
    <3>8. later \in From(rest) /\ later.call = model.call
      BY <3>4, <3>5, <3>6, <3>7, ListsFields DEF Models
    <3>9. removeCall(rest, o) \in From(rest) /\ removeCall(rest, o).call = model.call
      BY <1>2, <3>2, <3>4
    <3>10. model' \in From(model) /\ model'.call = model.call
      BY <3>3, <3>4, <3>5, <3>8, <3>9
    <3> QED
      BY <3>10 DEF From, Kept
  <2>2. CASE AutoClean
    <3> DEFINE o == Head(model.removals)
               t == Tail(model.removals)
               rest == [model EXCEPT !.removals = t]
    <3>1. model.removals \in Seq(1..Size(model)) /\ model.removals # <<>>
      BY <1>1, <2>2, TypedFacts DEF AutoClean
    <3>2. o \in 1..Size(model) /\ t \in Seq(1..Size(model))
      BY <3>1, HeadAndTail
    <3>3. model' = removeCall(rest, o)
      BY <1>1, <2>2 DEF AutoClean, Models
    <3>4. rest.call = model.call /\ rest.rows = model.rows /\ rest \in From(model)
      BY <1>1, <3>2, ListsFields DEF Models
    <3> HIDE DEF rest, o, t
    <3>5. \A n \in From(rest) : n \in From(model)
      BY <1>1, <3>4, ThenFrom
    <3>6. removeCall(rest, o) \in From(rest) /\ removeCall(rest, o).call = model.call
      BY <1>2, <3>2, <3>4
    <3>7. model' \in From(model) /\ model'.call = model.call
      BY <3>3, <3>5, <3>6
    <3> QED
      BY <3>7 DEF From, Kept
  <2> QED
    BY <2>1, <2>2
<1>4. model' \in Elsewhere(model, "")
  BY <1>3 DEF Elsewhere
<1>5. \A j : ring' \in Besides(ring, j)
  BY <1>1, BesidesFacts
<1> QED
  BY <1>1, <1>4, <1>5, FollowedBy

LEMMA DeliverFollowed ==
  ASSUME ConfId = {}, "AUTO_ANSWER" \notin AutoAnswers, TypeInv, model \in Tidy, AllFollowed, Deliver
  PROVE  AllFollowed'
<1> DEFINE d == Taken(ring)
           e == Head(ring.queue)
           i == e.id
           s == e.state
           m == model
           n == Delivered(m, d, e).model
           r == Delivered(m, d, e).ring
<1>1. ring \in Rings /\ ring.queue # <<>> /\ m \in Typed
  BY DEF TypeInv, Deliver
<1>2. model' = n /\ ring' = r
  BY DEF Deliver, Taken
<1>3. d \in Rings /\ e \in Signals
  BY <1>1, TakenQueued DEF Saying
<1>4. \A j \in CallId : i # j => Followed(m, d, j)
  BY <1>1, TakenFollowed DEF AllFollowed
<1>5. e.signal \in {"callStateChanged", "incomingCall"} /\ i \in CallId /\ i \in Ids
  BY <1>3 DEF Signals, Ids
<1>6. Owed(m, d, i, s)
  BY <1>1, <1>5, TakenOwed DEF AllFollowed
<1>7. (\A j \in CallId : d \in Besides(d, j)) /\ m \in Elsewhere(m, i)
  BY <1>1, <1>3, BesidesFacts, ElsewhereFacts
<1> HIDE DEF d, i, s, m
<1>8. n \in Elsewhere(m, i) /\ Followed(n, r, i) /\ \A j \in CallId : i # j => r \in Besides(d, j)
  <2>1. CASE e.signal = "callStateChanged"
    <3>1. s \in DaemonReports
      BY <1>3, <2>1 DEF Signals, s
    <3>2. Delivered(m, d, e) = slotCallStateChanged(m, d, i, s)
      BY <2>1 DEF Delivered, i, s
    <3>3. CASE m.known[i] # 0
      <4> DEFINE o == m.known[i]
      <4>1. o \in 1..Size(m) /\ m.call[o].id = i
        BY <1>1, <1>5, <3>3, KnownObject, TypedFacts
      <4>2. n = CallStateChanged(m, o, s) /\ r = d
        BY <3>2, <3>3 DEF slotCallStateChanged
      <4> HIDE DEF n, r, o
      <4>3. n \in Apart(m, o)
        BY <3>1, <4>1, <4>2, CallStateChangedIsApart DEF m
      <4>4. n.known[i] = o /\ n.known[i] # 0
        BY <3>3, <4>3 DEF Apart, From, Kept, o
      <4>5. ASSUME d.calls[i] \in Alive PROVE n.call[n.known[i]].state \in Going
        <5>1. /\ m.call[o].state \in Going
              /\ s \in Endless \/ (s = "CONNECTING" /\ m.call[o].state = "INITIALIZATION")
          BY <1>6, <3>3, <4>5 DEF Owed, o
        <5>2. \/ s \in {"INCOMING", "RINGING", "CURRENT"}
              \/ s = "CONNECTING" /\ m.call[o].state = "INITIALIZATION"
          BY <3>1, <5>1 DEF Endless, DaemonReports
        <5> QED
          BY <4>1, <4>2, <4>4, <5>1, <5>2, GoesOn DEF m
      <4>6. Followed(n, d, i)
        BY <1>6, <4>4, <4>5, OwedFollowed
      <4>7. n \in Elsewhere(m, i)
        BY <1>1, <4>1, <4>3, ApartElsewhere
      <4> QED
        BY <1>7, <4>2, <4>6, <4>7
    <3>4. CASE m.known[i] = 0
      <4>1. CASE s = "CONNECTING"
        <5>1. n = m /\ r = d
          BY <3>2, <3>4, <4>1 DEF slotCallStateChanged
        <5> HIDE DEF n, r
        <5> QED
          BY <1>6, <1>7, <4>1, <5>1, OwedFollowed
      <4>2. CASE s \in {"INCOMING", "RINGING"}
        <5>1. Delivered(m, d, e) = addIncomingCall(m, d, i)
          BY <3>2, <3>4, <4>2 DEF slotCallStateChanged
        <5> QED
          BY <1>3, <1>5, <1>6, <4>2, <5>1, AddIncomingFollowed DEF m
      <4>3. CASE s \notin {"CONNECTING", "INCOMING", "RINGING"}
        <5>1. n = addExistingCall(m, d, i) /\ r = d
          BY <3>2, <3>4, <4>3 DEF slotCallStateChanged
        <5> HIDE DEF n, r
        <5> QED
          BY <1>1, <1>3, <1>5, <1>6, <1>7, <5>1, AddExistingFollowed
      <4> QED
        BY <4>1, <4>2, <4>3
    <3> QED
      BY <3>3, <3>4
  <2>2. CASE e.signal = "incomingCall"
    <3>1. s = ""
      BY <1>3, <2>2 DEF Signals, s
    <3>2. Delivered(m, d, e) = addIncomingCall(m, d, i)
      BY <2>2 DEF Delivered, i
    <3> QED
      BY <1>3, <1>5, <1>6, <3>1, <3>2, AddIncomingFollowed DEF m
  <2> QED
    BY <1>5, <2>1, <2>2
<1> HIDE DEF n, r
<1>9. ASSUME NEW j \in CallId, i # j PROVE Followed(n, r, j)
  BY <1>4, <1>8, <1>9, FollowedElsewhere
<1> QED
  BY <1>2, <1>8, <1>9 DEF AllFollowed

LEMMA NextFollowed ==
  ASSUME ConfId = {}, "AUTO_ANSWER" \notin AutoAnswers, TypeInv, Separate(model, ring),
         model \in Tidy, AllFollowed, [Next]_vars
  PROVE  AllFollowed'
<1>1. CASE UNCHANGED vars
  BY <1>1 DEF vars, AllFollowed
<1>2. CASE Ring
  BY <1>2, RingFollowed DEF AllFollowed
<1>3. CASE Check \/ AutoClean
  BY <1>3, TimerFollowed
<1> QED
  BY <1>1, <1>2, <1>3, StartFollowed, UserFollowed, DeliverFollowed DEF Next

LEMMA FollowedIsListed ==
  ASSUME TypeInv, model \in Tidy, AllFollowed
  PROVE  EstablishedIsListed
<1> SUFFICES ASSUME Quiet, NEW i \in CallId, ring.calls[i] = "current"
             PROVE  model.known[i] # 0 /\ model.known[i] \in Listed(model)
  BY DEF EstablishedIsListed
<1>1. Queued(ring, i) = {}
  BY EmptySeq DEF Quiet, Queued
<1>2. model.known[i] # 0 /\ model.call[model.known[i]].state \in Going
  BY <1>1 DEF Quiet, AllFollowed, Followed, Said, Awaited, Alive
<1>3. model.known[i] \in 1..Size(model)
  BY <1>2, KnownObject DEF TypeInv, Ids
<1>4. model.known[i] \in ToSet(model.rows)
  BY <1>2, <1>3 DEF Tidy, InOrder, Final, FinalStates, Going
<1> QED
  BY <1>2, <1>4 DEF Listed


-----------------------------------------------------------------------------
(* The theorems.                                                           *)

\* In every behaviour the list is two levels deep, what has children is a conference and
\* what has a parent is a call, and what an identifier leads to is the object that has it:
\* whatever conferences come, change and go, and whatever the daemon does before its calls
\* are listed.
THEOREM TypeCorrect ==
  Spec => []TypeOK
<1>1. Init => TypeInv
  BY InitInv
<1>2. TypeInv /\ [Next]_vars => TypeInv'
  BY NextStep DEF Step
<1> QED
  BY <1>1, <1>2, TypeInvImplies, PTL DEF Spec

\* When the daemon does nothing before its calls are listed, no daemon call and no
\* conference is shown by two objects.
THEOREM OneObjectCorrect ==
  ASSUME ~EarlySignals
  PROVE  Spec => []OneObject
<1> DEFINE Inv == TypeInv /\ Separate(model, ring)
<1>1. Init => Inv
  BY InitInv
<1>2. Inv /\ [Next]_vars => Inv'
  BY NextStep DEF Step
<1>3. Inv => OneObject
  <2> SUFFICES ASSUME Inv, NEW o \in Objects, NEW p \in Objects,
                      model.call[o].id = model.call[p].id, model.call[o].id # ""
               PROVE  o = p
    BY DEF OneObject
  <2>1. o \in 1..Size(model) /\ p \in 1..Size(model)
    BY TypedFacts DEF TypeInv, Objects
  <2> QED
    BY <2>1 DEF Separate, Unique
<1> QED
  BY <1>1, <1>2, <1>3, PTL DEF Spec

\* When the daemon does nothing before its calls are listed, no step of the user, of the
\* daemon, of a handler or of a timer loses a call that is not over, however many
\* conferences are made, joined, merged and ended and in whichever order the list hears
\* of it: the call is in the list, or is a child of a conference that is not and whose
\* end, when it is told, puts it back.
THEOREM LiveCallIsKeptCorrect ==
  ASSUME ~EarlySignals
  PROVE  Spec => []LiveCallIsKept
<1> DEFINE Inv == TypeInv /\ Separate(model, ring) /\ Guarded
<1>1. Init => Inv
  BY InitInv, InitGuarded
<1>2. Inv /\ [Next]_vars => Inv'
  <2> SUFFICES ASSUME Inv, [Next]_vars PROVE Inv'
    OBVIOUS
  <2>1. TypeInv' /\ Separate(model', ring')
    BY NextStep DEF Step
  <2>2. Guarded'
    BY NextGuarded
  <2> QED
    BY <2>1, <2>2
<1>3. Inv => LiveCallIsKept
  BY GuardedKeeps
<1> QED
  BY <1>1, <1>2, <1>3, PTL DEF Spec

\* Without conferences, a call that ended normally leaves the list for good: whatever order
\* its last signals, the user's refusal and the two timers come in, once nothing is pending
\* the calls that are over and still listed are those that were missed or have failed.
\* (Below a conference the timers find no row to take away: such a call stays there until
\* the conference is removed.)
THEOREM EndedCallLeavesCorrect ==
  ASSUME ConfId = {}
  PROVE  Spec => []EndedCallLeaves
<1> DEFINE Inv == TypeInv /\ model \in Tidy
<1>1. Init => Inv
  BY InitInv, InitTidy
<1>2. Inv /\ [Next]_vars => Inv'
  BY NextStep, NextTidy DEF Step
<1>3. Inv => EndedCallLeaves
  BY TidyLeaves
<1> QED
  BY <1>1, <1>2, <1>3, PTL DEF Spec

\* Without conferences, no timer that was set before a call was marked as missed takes the
\* call away, and what is missed is never built unlisted.  (A conference that is removed
\* does not put back the calls that are over, missed or not.)
THEOREM MissedCallStaysCorrect ==
  ASSUME ConfId = {}
  PROVE  Spec => []MissedCallStays
<1> DEFINE Inv == TypeInv /\ model \in Tidy
<1>1. Init => Inv
  BY InitInv, InitTidy
<1>2. Inv /\ [Next]_vars => Inv'
  BY NextStep, NextTidy DEF Step
<1>3. Inv => MissedCallStays
  BY TidyLeaves
<1> QED
  BY <1>1, <1>2, <1>3, PTL DEF Spec

\* Without conferences and automatic answers, and when the daemon does nothing before its
\* calls are listed, a call that the daemon has established is known and listed once its
\* signals are handled: whoever made it, whichever of the two signals that announce it came
\* first, and whatever the user asked in between.  (A late announcement of an established
\* call accepts it once more when the account answers by itself, and the call is in error;
\* a call may be below a conference that the list has ended too early.)
THEOREM EstablishedIsListedCorrect ==
  ASSUME ~EarlySignals, ConfId = {}, "AUTO_ANSWER" \notin AutoAnswers
  PROVE  Spec => []EstablishedIsListed
<1> DEFINE Inv == TypeInv /\ Separate(model, ring) /\ model \in Tidy /\ AllFollowed
<1>1. Init => Inv
  BY InitInv, InitTidy, InitFollowed
<1>2. Inv /\ [Next]_vars => Inv'
  <2> SUFFICES ASSUME Inv, [Next]_vars PROVE Inv'
    OBVIOUS
  <2>1. TypeInv' /\ Separate(model', ring')
    BY NextStep DEF Step
  <2>2. model' \in Tidy /\ AllFollowed'
    BY NextTidy, NextFollowed
  <2> QED
    BY <2>1, <2>2
<1>3. Inv => EstablishedIsListed
  BY FollowedIsListed
<1> QED
  BY <1>1, <1>2, <1>3, PTL DEF Spec
=============================================================================
