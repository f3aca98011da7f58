-------------------------- MODULE ConferenceProofs --------------------------
(***************************************************************************)
(* The conferences of CallModel: for any number of calls, conferences and  *)
(* signals, the list ends up with the conferences that the daemon has.     *)
(*                                                                         *)
(* A handler reads what the daemon has when a signal is handled, and not   *)
(* when it was emitted.  The invariant (Agreed) says what a conference of  *)
(* the list has too much or too little, and which signal will correct it.  *)
(***************************************************************************)
EXTENDS CallModelProofs

-----------------------------------------------------------------------------
(* Sequences: how often an element occurs.                                 *)

\* Where the elements are when the first occurrence of one is taken out.
LEMMA RemovedPlaces ==
  ASSUME NEW S, NEW s \in Seq(S), NEW e, e \in ToSet(s)
  PROVE  \E k \in 1..Len(s) :
           /\ s[k] = e
           /\ RemoveFirst(s, e) \in Seq(S) /\ Len(RemoveFirst(s, e)) = Len(s) - 1
           /\ \A i \in 1..Len(RemoveFirst(s, e)) :
                RemoveFirst(s, e)[i] = IF i < k THEN s[i] ELSE s[i + 1]
<1> DEFINE I == {i \in 1..Len(s) : s[i] = e}
           k == Min(I)
           t == SubSeq(s, 1, k - 1) \o SubSeq(s, k + 1, Len(s))
<1>1. I \in SUBSET Nat /\ I # {}
  BY DEF ToSet
<1>2. k \in I
  BY <1>1, LeastNumber
<1>3. RemoveFirst(s, e) = t
  BY <1>1 DEF RemoveFirst, RemoveAt, SelectInSeq
<1>4. k \in 1..Len(s) /\ s[k] = e
  BY <1>2
<1> HIDE DEF k
<1> DEFINE a == SubSeq(s, 1, k - 1)
           b == SubSeq(s, k + 1, Len(s))
<1>5. /\ a \in Seq(S) /\ Len(a) = k - 1 /\ \A i \in 1..(k - 1) : a[i] = s[i]
  BY <1>4
<1>6. /\ b \in Seq(S) /\ Len(b) = Len(s) - k
      /\ \A i \in 1..(Len(s) - k) : b[i] = s[k + i]
  BY <1>4
<1> HIDE DEF a, b
<1>7. /\ a \o b \in Seq(S) /\ Len(a \o b) = Len(a) + Len(b)
      /\ \A i \in 1..(Len(a) + Len(b)) :
           (a \o b)[i] = IF i <= Len(a) THEN a[i] ELSE b[i - Len(a)]
  BY <1>5, <1>6, ConcatProperties
<1>8. t = a \o b
  BY DEF a, b
<1> HIDE DEF t
<1>9. t \in Seq(S) /\ Len(t) = Len(s) - 1
  <2>1. Len(s) \in Nat /\ k \in Nat /\ (k - 1) + (Len(s) - k) = Len(s) - 1
    BY <1>4
  <2>2. Len(t) = Len(a) + Len(b) /\ t \in Seq(S)
    BY <1>7, <1>8
  <2> QED
    BY <1>5, <1>6, <2>1, <2>2
<1>10. ASSUME NEW i \in 1..Len(t) PROVE t[i] = IF i < k THEN s[i] ELSE s[i + 1]
  <2>1. CASE i < k
    BY <1>4, <1>5, <1>7, <1>8, <2>1
  <2>2. CASE ~(i < k)
    <3>1. i - (k - 1) \in 1..(Len(s) - k) /\ k + (i - (k - 1)) = i + 1
      BY <1>4, <1>9, <2>2
    <3>2. t[i] = b[i - (k - 1)]
      BY <1>4, <1>5, <1>6, <1>7, <1>8, <2>2
    <3> QED
      BY <1>6, <2>2, <3>1, <3>2
  <2> QED
    BY <2>1, <2>2
<1> QED
  BY <1>3, <1>4, <1>9, <1>10

\* An element has one place in a sequence, or none.
Once(s, x) == \A k, l \in DOMAIN s : s[k] = x /\ s[l] = x => k = l

\* What is taken out is gone when it had one place; the others keep theirs.
LEMMA RemovedOnce ==
  ASSUME NEW S, NEW s \in Seq(S), NEW e
  PROVE  /\ Once(s, e) => e \notin ToSet(RemoveFirst(s, e))
         /\ \A x \in S : Once(s, x) => Once(RemoveFirst(s, e), x)
<1>1. CASE e \notin ToSet(s)
  BY <1>1, RemovedFirst
<1>2. CASE e \in ToSet(s)
  <2> DEFINE t == RemoveFirst(s, e)
  <2>1. PICK k \in 1..Len(s) :
          /\ s[k] = e /\ t \in Seq(S) /\ Len(t) = Len(s) - 1
          /\ \A i \in 1..Len(t) : t[i] = IF i < k THEN s[i] ELSE s[i + 1]
    BY <1>2, RemovedPlaces
  <2> HIDE DEF t
  <2>2. DOMAIN s = 1..Len(s) /\ DOMAIN t = 1..Len(t) /\ Len(s) \in Nat /\ Len(t) \in Nat
    BY <2>1
  <2>3. ASSUME Once(s, e), NEW j \in 1..Len(t), t[j] = e PROVE FALSE
    <3> DEFINE at == IF j < k THEN j ELSE j + 1
    <3>1. at \in 1..Len(s) /\ s[at] = e /\ at # k
      BY <2>1, <2>2, <2>3
    <3> HIDE DEF at
    <3> QED
      BY <2>1, <2>2, <2>3, <3>1 DEF Once
  <2>4. ASSUME NEW x \in S, Once(s, x), NEW i \in 1..Len(t), NEW j \in 1..Len(t), t[i] = x, t[j] = x
        PROVE  i = j
    <3> DEFINE p == IF i < k THEN i ELSE i + 1
               q == IF j < k THEN j ELSE j + 1
    <3>1. p \in 1..Len(s) /\ q \in 1..Len(s) /\ s[p] = x /\ s[q] = x
      BY <2>1, <2>2, <2>4
    <3>2. p = q
      <4> HIDE DEF p, q
      <4> QED
        BY <2>2, <2>4, <3>1 DEF Once
    <3> QED
      BY <2>1, <2>2, <3>2
  <2>5. Once(s, e) => e \notin ToSet(t)
    BY <2>2, <2>3 DEF ToSet
  <2>6. \A x \in S : Once(s, x) => Once(t, x)
    BY <2>2, <2>4 DEF Once
  <2> QED
    BY <2>5, <2>6 DEF t
<1> QED
  BY <1>1, <1>2

\* What is appended is not the element.
LEMMA ConcatOnce ==
  ASSUME NEW S, NEW s \in Seq(S), NEW t \in Seq(S), NEW x,
         \/ Once(s, x) /\ x \notin ToSet(t)
         \/ x \notin ToSet(s) /\ Once(t, x)
  PROVE  Once(s \o t, x)
<1> DEFINE u == s \o t
<1>1. /\ Len(s) \in Nat /\ DOMAIN s = 1..Len(s) /\ Len(t) \in Nat /\ DOMAIN t = 1..Len(t)
      /\ DOMAIN u = 1..(Len(s) + Len(t))
      /\ \A j \in 1..Len(s) : u[j] = s[j]
      /\ \A j \in 1..Len(t) : u[Len(s) + j] = t[j]
  OBVIOUS
<1> HIDE DEF u
<1>2. \A j \in 1..(Len(s) + Len(t)) : j \in 1..Len(s) \/ (j - Len(s) \in 1..Len(t) /\ Len(s) + (j - Len(s)) = j)
  BY <1>1
<1>3. ASSUME NEW k \in DOMAIN u, u[k] = x
      PROVE  \/ k \in 1..Len(s) /\ s[k] = x
             \/ k - Len(s) \in 1..Len(t) /\ t[k - Len(s)] = x
  BY <1>1, <1>2, <1>3
<1>4. ASSUME NEW k \in DOMAIN u, NEW l \in DOMAIN u, u[k] = x, u[l] = x PROVE k = l
  <2>1. CASE Once(s, x) /\ x \notin ToSet(t)
    <3>1. k \in 1..Len(s) /\ l \in 1..Len(s) /\ s[k] = x /\ s[l] = x
      BY <1>1, <1>3, <1>4, <2>1 DEF ToSet
    <3> QED
      BY <1>1, <2>1, <3>1 DEF Once
  <2>2. CASE x \notin ToSet(s) /\ Once(t, x)
    <3>1. /\ k - Len(s) \in 1..Len(t) /\ l - Len(s) \in 1..Len(t)
          /\ t[k - Len(s)] = x /\ t[l - Len(s)] = x
      BY <1>1, <1>3, <1>4, <2>2 DEF ToSet
    <3>2. k - Len(s) = l - Len(s)
      BY <1>1, <2>2, <3>1 DEF Once
    <3> QED
      BY <1>1, <1>4, <3>2
  <2> QED
    BY <2>1, <2>2
<1> QED
  BY <1>4 DEF Once, u

LEMMA AppendedOnce ==
  ASSUME NEW S, NEW s \in Seq(S), NEW e, NEW x, e # x, Once(s, x), NEW t, t = Append(s, e)
  PROVE  Once(t, x)
<1> DEFINE n == Len(s)
<1>1. /\ n \in Nat /\ DOMAIN s = 1..n /\ DOMAIN t = 1..(n + 1)
      /\ t[n + 1] = e /\ \A j \in 1..n : t[j] = s[j]
  <2>1. s \in Seq(S \cup {e}) /\ e \in S \cup {e}
    OBVIOUS
  <2> QED
    BY <2>1, AppendProperties
<1> HIDE DEF n
<1>2. \A j \in 1..(n + 1) : j = n + 1 \/ j \in 1..n
  BY <1>1
<1> QED
  BY <1>1, <1>2 DEF Once

-----------------------------------------------------------------------------
(* The list: what a conference of it is, and what leaves it alone.         *)

Rows(m) == ToSet(m.rows)
Kids(m, o) == ToSet(m.call[o].children)
Timed(m) == ToSet(m.checks) \cup ToSet(m.removals)

\* What a conference always is: listed once at most, and above calls that have an
\* identifier.
WellFormed(m, o) ==
  /\ Once(m.rows, o)
  /\ m.call[o].state \in {"CONFERENCE", "CURRENT", "OVER"}
  /\ \A c \in Kids(m, o) : m.call[c].id \in CallId

Formed == {m \in Typed : \A o \in 1..Size(m) : IsConference(m, o) => WellFormed(m, o)}

\* What a handler that is not about conferences does to one: it may leave the list, but
\* not before it is over, unless it is in X; and it is not put on a timer while listed.
Stays(m, n, X, o) ==
  /\ o \in Rows(n) => o \in Rows(m)
  /\ m.call[o].state = "OVER" => n.call[o].state = "OVER"
  /\ o \notin X => /\ o \in Rows(m) => o \in Rows(n) \/ n.call[o].state = "OVER"
                   /\ o \in Rows(n) /\ o \in Timed(n) => o \in Timed(m)

\* What such a handler makes of the model.  It may add calls.
Tame(m, X) ==
  {n \in Formed :
     /\ 1..Size(m) \subseteq 1..Size(n)
     /\ n.started = m.started /\ n.crashed = m.crashed
     /\ \A f \in ConfId : n.known[f] = m.known[f]
     /\ \A i \in CallId : m.known[i] # 0 => n.known[i] = m.known[i]
     /\ \A o \in 1..Size(m) :
          /\ n.call[o].type = m.call[o].type
          /\ n.call[o].parent = m.call[o].parent
          /\ n.call[o].children = m.call[o].children
          /\ m.call[o].id # "" => n.call[o].id = m.call[o].id
          /\ IsConference(m, o) => Stays(m, n, X, o)}

LEMMA TameThen ==
  ASSUME NEW m \in Formed, NEW X, NEW n \in Tame(m, X), NEW p \in Tame(n, X)
  PROVE  p \in Tame(m, X)
<1>1. n \in Formed /\ p \in Formed /\ 1..Size(m) \subseteq 1..Size(n) /\ 1..Size(n) \subseteq 1..Size(p)
  BY DEF Tame
<1>2. ASSUME NEW o \in 1..Size(m)
      PROVE  /\ p.call[o].type = m.call[o].type
             /\ p.call[o].parent = m.call[o].parent
             /\ p.call[o].children = m.call[o].children
             /\ m.call[o].id # "" => p.call[o].id = m.call[o].id
             /\ IsConference(m, o) => Stays(m, p, X, o)
  <2>1. o \in 1..Size(n)
    BY <1>1
  <2>2. /\ n.call[o].type = m.call[o].type
        /\ n.call[o].parent = m.call[o].parent
        /\ n.call[o].children = m.call[o].children
        /\ m.call[o].id # "" => n.call[o].id = m.call[o].id
        /\ IsConference(m, o) => Stays(m, n, X, o)
    BY DEF Tame
  <2>3. /\ p.call[o].type = n.call[o].type
        /\ p.call[o].parent = n.call[o].parent
        /\ p.call[o].children = n.call[o].children
        /\ n.call[o].id # "" => p.call[o].id = n.call[o].id
        /\ IsConference(n, o) => Stays(n, p, X, o)
    BY <2>1 DEF Tame
  <2>4. IsConference(m, o) => Stays(m, p, X, o)
    BY <2>2, <2>3 DEF Stays, IsConference
  <2> QED
    BY <2>2, <2>3, <2>4
<1>3. /\ p.started = m.started /\ p.crashed = m.crashed
      /\ \A f \in ConfId : p.known[f] = m.known[f]
      /\ \A i \in CallId : m.known[i] # 0 => p.known[i] = m.known[i]
  BY DEF Tame
<1>4. 1..Size(m) \subseteq 1..Size(p)
  BY <1>1
<1> QED
  BY <1>1, <1>2, <1>3, <1>4 DEF Tame

LEMMA TameReflexive ==
  ASSUME NEW m \in Formed, NEW X
  PROVE  m \in Tame(m, X)
BY DEF Tame, Stays

LEMMA TameMore ==
  ASSUME NEW m \in Formed, NEW X, NEW Y, X \subseteq Y
  PROVE  Tame(m, X) \subseteq Tame(m, Y)
<1> SUFFICES ASSUME NEW n \in Tame(m, X) PROVE n \in Tame(m, Y)
  OBVIOUS
<1>1. \A o \in 1..Size(m) : Stays(m, n, X, o) => Stays(m, n, Y, o)
  BY DEF Stays
<1> QED
  BY <1>1 DEF Tame

\* A handler that adds no object.
LEMMA TameBy ==
  ASSUME NEW m \in Formed, NEW n \in From(m), NEW X,
         \A o \in 1..Size(m) : n.call[o].parent = m.call[o].parent
                               /\ n.call[o].children = m.call[o].children,
         \A o \in 1..Size(m) : IsConference(m, o) =>
           /\ Once(n.rows, o) /\ n.call[o].state \in {"CONFERENCE", "CURRENT", "OVER"}
           /\ Stays(m, n, X, o)
  PROVE  n \in Tame(m, X)
<1>1. /\ m \in Typed /\ n \in Typed /\ Size(n) = Size(m)
      /\ \A o \in 1..Size(m) : n.call[o].id = m.call[o].id /\ n.call[o].type = m.call[o].type
      /\ n.known = m.known /\ n.started = m.started /\ n.crashed = m.crashed
  BY DEF Formed, From, Kept
<1>2. n \in Formed
  <2> SUFFICES ASSUME NEW o \in 1..Size(m), IsConference(m, o), NEW c \in Kids(n, o)
               PROVE  n.call[c].id \in CallId
    BY <1>1 DEF Formed, WellFormed, IsConference
  <2>1. c \in Kids(m, o)
    BY DEF Kids
  <2>2. c \in 1..Size(m)
    <3>1. m.call[o].children \in Seq(1..Size(m))
      BY <1>1, ChildrenOf
    <3> QED
      BY <2>1, <3>1, ElementsOf DEF Kids
  <2>3. m.call[c].id \in CallId
    BY <2>1 DEF Formed, WellFormed
  <2> QED
    BY <1>1, <2>2, <2>3
<1> QED
  BY <1>1, <1>2 DEF Tame

LEMMA FormedFacts ==
  ASSUME NEW m \in Formed
  PROVE  /\ m \in Typed
         /\ \A o \in 1..Size(m) : IsConference(m, o) => WellFormed(m, o)
         /\ \A o \in 1..Size(m) : Kids(m, o) \subseteq 1..Size(m)
         /\ \A o \in 1..Size(m) : \A c \in Kids(m, o) : m.call[c].id \in CallId /\ ~IsConference(m, c)
         /\ Rows(m) \subseteq 1..Size(m)
<1>1. m \in Typed /\ \A o \in 1..Size(m) : IsConference(m, o) => WellFormed(m, o)
  BY DEF Formed
<1>2. \A o \in 1..Size(m) : Kids(m, o) \subseteq 1..Size(m)
  <2> SUFFICES ASSUME NEW o \in 1..Size(m) PROVE Kids(m, o) \subseteq 1..Size(m)
    OBVIOUS
  <2>1. m.call[o].children \in Seq(1..Size(m))
    BY <1>1, ChildrenOf
  <2> QED
    BY <2>1, ElementsOf DEF Kids
<1>3. ASSUME NEW o \in 1..Size(m), NEW c \in Kids(m, o)
      PROVE  m.call[c].id \in CallId /\ ~IsConference(m, c)
  <2>1. IsConference(m, o)
    <3>1. ~IsConference(m, o) => m.call[o].children = <<>>
      BY <1>1, ChildrenOf DEF IsConference
    <3>2. ToSet(<<>>) = {}
      BY DEF ToSet
    <3> QED
      BY <3>1, <3>2 DEF Kids
  <2>2. m.call[c].id \in CallId
    BY <1>1, <2>1 DEF WellFormed
  <2>3. c \in 1..Size(m)
    BY <1>2
  <2> QED
    BY <1>1, <2>2, <2>3, ChildrenOf, CallIdAssumption DEF IsConference
<1>4. Rows(m) \subseteq 1..Size(m)
  BY <1>1, TypedFacts, ElementsOf DEF Rows
<1> QED
  BY <1>1, <1>2, <1>3, <1>4

-----------------------------------------------------------------------------
(* The handlers that are not about conferences.                            *)

LEMMA MissedTame ==
  ASSUME NEW m \in Formed, NEW o \in 1..Size(m)
  PROVE  SetMissed(m, o) \in Tame(m, {})
<1> DEFINE n == SetMissed(m, o)
<1>1. m \in Typed
  BY DEF Formed
<1>2. /\ n \in From(m) /\ n.call[o] = [m.call[o] EXCEPT !.missed = TRUE]
      /\ n.rows = m.rows /\ n.checks = m.checks /\ n.removals = m.removals
      /\ \A p \in 1..Size(m) : p # o => n.call[p] = m.call[p]
  BY <1>1, MissedFrom
<1>3. m.call[o] \in Record(Size(m))
  BY <1>1, TypedFacts
<1> HIDE DEF n
<1>4. /\ n.call[o].state = m.call[o].state /\ n.call[o].parent = m.call[o].parent
      /\ n.call[o].children = m.call[o].children
  BY <1>2, <1>3 DEF Record
<1>5. \A p \in 1..Size(m) :
        /\ n.call[p].state = m.call[p].state /\ n.call[p].parent = m.call[p].parent
        /\ n.call[p].children = m.call[p].children
  BY <1>2, <1>4
<1>6. \A p \in 1..Size(m) : Stays(m, n, {}, p)
  BY <1>2, <1>5 DEF Stays, Rows, Timed
<1> QED
  BY <1>2, <1>5, <1>6, TameBy DEF Formed, WellFormed, n

LEMMA StateTame ==
  ASSUME NEW m \in Formed, NEW o \in 1..Size(m), NEW s \in Reached \ {"DIALING"},
         IsConference(m, o) => /\ s \in {"CONFERENCE", "CURRENT", "OVER"}
                               /\ m.call[o].state = "OVER" => s = "OVER"
  PROVE  [m EXCEPT !.call[o].state = s] \in Tame(m, {})
<1> DEFINE n == [m EXCEPT !.call[o].state = s]
<1>1. m \in Typed
  BY DEF Formed
<1>2. /\ n \in From(m) /\ n.call[o] = Restated(m.call[o], s)
      /\ n.rows = m.rows /\ n.checks = m.checks /\ n.removals = m.removals
      /\ \A p \in 1..Size(m) : p # o => n.call[p] = m.call[p]
  BY <1>1, StateFrom
<1>3. m.call[o] \in Record(Size(m))
  BY <1>1, TypedFacts
<1> HIDE DEF n
<1>4. /\ n.call[o].state = s /\ n.call[o].parent = m.call[o].parent
      /\ n.call[o].children = m.call[o].children
  BY <1>2, <1>3 DEF Record, Restated
<1>5. \A p \in 1..Size(m) :
        /\ n.call[p].parent = m.call[p].parent
        /\ n.call[p].children = m.call[p].children
        /\ n.call[p].state = IF p = o THEN s ELSE m.call[p].state
  BY <1>2, <1>4
<1>6. \A p \in 1..Size(m) : IsConference(m, p) => Stays(m, n, {}, p)
  BY <1>2, <1>5 DEF Stays, Rows, Timed
<1>7. \A p \in 1..Size(m) : IsConference(m, p) =>
        Once(n.rows, p) /\ n.call[p].state \in {"CONFERENCE", "CURRENT", "OVER"}
  BY <1>2, <1>5 DEF Formed, WellFormed
<1> QED
  BY <1>2, <1>5, <1>6, <1>7, TameBy DEF n

LEMMA ScheduleTame ==
  ASSUME NEW m \in Formed, NEW o \in 1..Size(m), NEW X,
         IsConference(m, o) => o \in X \/ o \notin Rows(m)
  PROVE  Schedule(m, o) \in Tame(m, X)
<1> DEFINE n == Schedule(m, o)
<1>1. m \in Typed
  BY DEF Formed
<1>2. n \in From(m)
  BY <1>1, ScheduleFrom
<1>3. n.call = m.call /\ n.rows = m.rows /\ n.removals = m.removals
      /\ n.checks = Append(m.checks, o)
  BY <1>1, TypedFacts DEF Schedule, Models
<1>4. ToSet(n.checks) = ToSet(m.checks) \cup {o}
  BY <1>1, <1>3, TypedFacts, AppendedSet
<1> HIDE DEF n
<1>5. \A p \in 1..Size(m) : IsConference(m, p) => Stays(m, n, X, p)
  BY <1>3, <1>4 DEF Stays, Rows, Timed
<1> QED
  BY <1>2, <1>3, <1>5, TameBy DEF n, Formed, WellFormed

\* The conferences among the rows when a row is taken out.
LEMMA RestoredRows ==
  ASSUME NEW m \in Formed, NEW o \in 1..Size(m)
  PROVE  LET n == Restored(m, o)
         IN  /\ n \in From(m) /\ n.call = m.call
             /\ n.checks = m.checks /\ n.removals = m.removals
             /\ \A p \in 1..Size(m) : IsConference(m, p) =>
                  /\ Once(n.rows, p)
                  /\ p \in Rows(n) <=> p \in Rows(m) /\ p # o
<1> DEFINE S == 1..Size(m)
           rest == RemoveFirst(m.rows, o)
           back == {c \in DOMAIN m.call : m.call[c].state \notin {"OVER", "ERROR"}}
           kept == Among(m.call[o].children, back)
           n == Restored(m, o)
<1>1. m \in Typed
  BY DEF Formed
<1>2. n \in From(m)
  BY <1>1, RestoredFrom
<1>3. /\ n.call = m.call /\ n.checks = m.checks /\ n.removals = m.removals
      /\ n.rows = rest \o kept
  BY <1>1, TypedFacts DEF Restored, removeInternal, Models
<1>4. m.rows \in Seq(S) /\ m.call[o].children \in Seq(S)
  BY <1>1, TypedFacts, ChildrenOf
<1>5. kept \in Seq(S) /\ \A p \in ToSet(kept) : p \in Kids(m, o)
  <2> DEFINE T == ToSet(m.call[o].children)
             s == m.call[o].children
  <2>1. s \in Seq(T)
    <3>1. Len(s) \in Nat /\ DOMAIN s = 1..Len(s)
      BY <1>4
    <3>2. \A k \in 1..Len(s) : s[k] \in T
      BY <3>1 DEF ToSet
    <3> HIDE DEF T
    <3> QED
      BY <1>4, <3>1, <3>2
  <2> HIDE DEF S, T, s, back
  <2>2. Among(s, back) \in Seq(T \cap back)
    BY <2>1, AmongIsPart
  <2>3. ToSet(Among(s, back)) \subseteq T \cap back
    BY <2>2, ElementsOf
  <2>4. kept \in Seq(S)
    BY <1>1, AmongChildren DEF S
  <2> QED
    BY <2>3, <2>4 DEF Kids, T, s
<1>6. /\ rest \in Seq(S)
      /\ \A p \in S : p # o => (p \in ToSet(rest) <=> p \in ToSet(m.rows))
      /\ Once(m.rows, o) => o \notin ToSet(rest)
      /\ \A p \in S : Once(m.rows, p) => Once(rest, p)
  <2> HIDE DEF S
  <2> QED
    BY <1>4, RemovedFirst, RemovedOnce
<1> HIDE DEF n, rest, kept
<1>7. ASSUME NEW p \in 1..Size(m), IsConference(m, p)
      PROVE  Once(n.rows, p) /\ (p \in Rows(n) <=> p \in Rows(m) /\ p # o)
  <2>1. Once(m.rows, p) /\ p \notin ToSet(kept)
    BY <1>5, <1>7, FormedFacts DEF WellFormed
  <2>2. p \in S
    OBVIOUS
  <2> HIDE DEF S
  <2>3. ToSet(n.rows) = ToSet(rest) \cup ToSet(kept)
    BY <1>3, <1>5, <1>6, ConcatSet
  <2>4. Once(rest, p)
    BY <1>6, <2>1, <2>2
  <2>5. Once(n.rows, p)
    BY <1>3, <1>5, <1>6, <2>1, <2>4, ConcatOnce
  <2> QED
    BY <1>6, <2>1, <2>2, <2>3, <2>5 DEF Rows
<1> QED
  BY <1>2, <1>3, <1>7 DEF n

LEMMA RestoredTame ==
  ASSUME NEW m \in Formed, NEW o \in 1..Size(m), NEW X,
         IsConference(m, o) => o \in X \/ o \notin Rows(m)
  PROVE  Restored(m, o) \in Tame(m, X)
<1> DEFINE n == Restored(m, o)
<1>1. /\ n \in From(m) /\ n.call = m.call
      /\ n.checks = m.checks /\ n.removals = m.removals
      /\ \A p \in 1..Size(m) : IsConference(m, p) =>
           /\ Once(n.rows, p)
           /\ p \in Rows(n) <=> p \in Rows(m) /\ p # o
  BY RestoredRows
<1> HIDE DEF n
<1>2. \A p \in 1..Size(m) : IsConference(m, p) => Stays(m, n, X, p)
  BY <1>1 DEF Stays, Timed
<1> QED
  BY <1>1, <1>2, TameBy DEF n, Formed, WellFormed

\* A conference that leaves the list as it is over.
LEMMA EndRestoredTame ==
  ASSUME NEW m \in Formed, NEW o \in 1..Size(m), IsConference(m, o)
  PROVE  EndConference(Restored(m, o), o) \in Tame(m, {})
<1> DEFINE n == Restored(m, o)
           t == [n EXCEPT !.call[o].state = "OVER"]
           p == EndConference(n, o)
<1>0. m \in Typed
  BY DEF Formed
<1>1. /\ n \in From(m) /\ n.call = m.call
      /\ n.checks = m.checks /\ n.removals = m.removals
      /\ \A x \in 1..Size(m) : IsConference(m, x) =>
           /\ Once(n.rows, x)
           /\ x \in Rows(n) <=> x \in Rows(m) /\ x # o
  BY RestoredRows
<1> HIDE DEF n
<1>2. n \in Typed /\ Size(n) = Size(m) /\ \A x \in From(n) : x \in From(m)
  BY <1>0, <1>1, ThenFrom
<1>3. CASE m.call[o].state = "OVER"
  <2>1. p = n
    BY <1>1, <1>3 DEF EndConference
  <2>2. \A x \in 1..Size(m) : IsConference(m, x) => Stays(m, n, {}, x)
    BY <1>1, <1>3 DEF Stays, Timed
  <2>3. n \in Tame(m, {})
    BY <1>1, <2>2, TameBy DEF Formed, WellFormed
  <2> QED
    BY <2>1, <2>3 DEF n
<1>4. CASE m.call[o].state # "OVER"
  <2>1. p = Schedule(t, o)
    BY <1>1, <1>4 DEF EndConference
  <2>2. "OVER" \in Reached \ {"DIALING"}
    BY DEF Reached, State
  <2>3. /\ t \in From(n) /\ t.call[o] = Restated(n.call[o], "OVER")
        /\ t.rows = n.rows /\ t.checks = n.checks /\ t.removals = n.removals
        /\ \A x \in 1..Size(n) : x # o => t.call[x] = n.call[x]
    BY <1>2, <2>2, StateFrom
  <2> HIDE DEF t
  <2>4. t \in Typed /\ Size(t) = Size(m) /\ t \in From(m)
    BY <1>2, <2>3, ThenFrom
  <2>5. Schedule(t, o) \in From(t)
    BY <2>4, ScheduleFrom
  <2>6. Schedule(t, o) \in From(m)
    BY <1>0, <2>4, <2>5, ThenFrom
  <2>7. /\ p.call = t.call /\ p.rows = t.rows /\ p.removals = t.removals
        /\ p.checks = Append(t.checks, o)
    BY <2>1, <2>4, TypedFacts DEF Schedule, Models
  <2>8. ToSet(p.checks) = ToSet(t.checks) \cup {o}
    BY <2>4, <2>7, TypedFacts, AppendedSet
  <2>9. m.call[o] \in Record(Size(m))
    BY <1>0, TypedFacts
  <2>9a. p.call[o] = Restated(m.call[o], "OVER")
    BY <1>1, <2>3, <2>7
  <2>10. /\ p.call[o].state = "OVER" /\ p.call[o].parent = m.call[o].parent
         /\ p.call[o].children = m.call[o].children
    BY <2>9, <2>9a DEF Record, Restated
  <2>11. \A x \in 1..Size(m) : x # o => p.call[x] = m.call[x]
    BY <1>1, <1>2, <2>3, <2>7
  <2>12. p.rows = n.rows /\ Timed(p) = Timed(m) \cup {o}
    BY <1>1, <2>3, <2>7, <2>8 DEF Timed
  <2> HIDE DEF p
  <2>13. \A x \in 1..Size(m) : IsConference(m, x) => Stays(m, p, {}, x)
    <3> SUFFICES ASSUME NEW x \in 1..Size(m), IsConference(m, x) PROVE Stays(m, p, {}, x)
      OBVIOUS
    <3>1. x \in Rows(p) <=> x \in Rows(m) /\ x # o
      BY <1>1, <2>12 DEF Rows
    <3> QED
      BY <2>10, <2>11, <2>12, <3>1 DEF Stays
  <2>14. \A x \in 1..Size(m) : IsConference(m, x) =>
           Once(p.rows, x) /\ p.call[x].state \in {"CONFERENCE", "CURRENT", "OVER"}
    BY <1>1, <2>10, <2>11, <2>12 DEF Formed, WellFormed
  <2>15. \A x \in 1..Size(m) : p.call[x].parent = m.call[x].parent
                               /\ p.call[x].children = m.call[x].children
    BY <2>10, <2>11
  <2>16. p \in From(m)
    BY <2>1, <2>6
  <2>17. p \in Tame(m, {})
    BY <2>13, <2>14, <2>15, <2>16, TameBy
  <2> QED
    BY <2>17 DEF p, n
<1> QED
  BY <1>3, <1>4 DEF n

LEMMA TameFormed ==
  ASSUME NEW m \in Formed, NEW X, NEW n \in Tame(m, X)
  PROVE  /\ n \in Formed
         /\ \A o \in 1..Size(m) : o \in 1..Size(n) /\ (IsConference(n, o) <=> IsConference(m, o))
         /\ \A p \in Tame(n, X) : p \in Tame(m, X)
         /\ \A p \in Tame(n, {}) : p \in Tame(m, X)
         /\ \A o \in 1..Size(m) : IsConference(m, o) /\ o \notin Rows(m) => o \notin Rows(n)
<1>1. n \in Formed /\ \A o \in 1..Size(m) : o \in 1..Size(n) /\ (IsConference(n, o) <=> IsConference(m, o))
  BY DEF Tame, IsConference
<1>2. Tame(n, {}) \subseteq Tame(n, X)
  BY <1>1, TameMore
<1>3. \A o \in 1..Size(m) : IsConference(m, o) /\ o \notin Rows(m) => o \notin Rows(n)
  BY DEF Tame, Stays
<1> QED
  BY <1>1, <1>2, <1>3, TameThen

LEMMA SweepTame ==
  ASSUME NEW m \in Formed
  PROVE  Sweep(m) \in Tame(m, {})
<1> DEFINE U == Tame(m, {})
<1>1. m \in U /\ m \in Typed
  BY TameReflexive DEF Formed
<1>2. ASSUME NEW x \in U, NEW o \in 1..Size(m), IsConference(m, o)
      PROVE  EndConference(Restored(x, o), o) \in U
  <2>1. x \in Formed /\ o \in 1..Size(x) /\ IsConference(x, o) /\ \A p \in Tame(x, {}) : p \in U
    BY <1>2, TameFormed
  <2> QED
    BY <2>1, EndRestoredTame
<1> HIDE DEF U
<1>3. Sweep(m) \in U
  BY <1>1, <1>2, SweepReaches
<1> QED
  BY <1>3 DEF U

LEMMA RemoveCallTame ==
  ASSUME NEW m \in Formed, NEW o \in 1..Size(m), NEW X,
         IsConference(m, o) => o \in X \/ o \notin Rows(m)
  PROVE  /\ removeCall(m, o) \in Tame(m, X)
         /\ IsConference(m, o) => o \notin Rows(removeCall(m, o))
<1> DEFINE n == Restored(m, o)
<1>1. n \in Tame(m, X) /\ (IsConference(m, o) => o \notin Rows(n))
  BY RestoredTame, RestoredRows
<1> HIDE DEF n
<1>2. n \in Formed /\ o \in 1..Size(n) /\ (IsConference(n, o) <=> IsConference(m, o))
      /\ \A p \in Tame(n, {}) : p \in Tame(m, X)
  BY <1>1, TameFormed
<1>3. Sweep(n) \in Tame(n, {})
  BY <1>2, SweepTame
<1>4. IsConference(m, o) => o \notin Rows(Sweep(n))
  BY <1>1, <1>2, <1>3, TameFormed
<1> QED
  BY <1>2, <1>3, <1>4 DEF removeCall, n

LEMMA RemoveConferenceTame ==
  ASSUME NEW m \in Formed, NEW o \in 1..Size(m), IsConference(m, o)
  PROVE  removeConference(m, o) \in Tame(m, {o}) /\ o \notin Rows(removeConference(m, o))
<1> DEFINE n == removeCall(m, o)
           t == [n EXCEPT !.call[o].state = "OVER"]
           X == {o}
<1>1. n \in Tame(m, X) /\ o \notin Rows(n)
  BY RemoveCallTame
<1> HIDE DEF n, X
<1>2. n \in Formed /\ o \in 1..Size(n) /\ IsConference(n, o)
      /\ \A p \in Tame(n, {}) : p \in Tame(m, X)
  BY <1>1, TameFormed
<1>3. "OVER" \in Reached \ {"DIALING"}
  BY DEF Reached, State
<1>4. t \in Tame(n, {})
  BY <1>2, <1>3, StateTame
<1> HIDE DEF t
<1>5. t \in Formed /\ o \in 1..Size(t) /\ o \notin Rows(t) /\ IsConference(t, o)
      /\ \A p \in Tame(t, {}) : p \in Tame(n, {})
  BY <1>1, <1>2, <1>4, TameFormed
<1>6. Schedule(t, o) \in Tame(t, {})
  BY <1>5, ScheduleTame
<1>7. o \notin Rows(Schedule(t, o))
  BY <1>5, <1>6, TameFormed
<1>8. removeConference(m, o) \in {n, Schedule(t, o)}
  BY DEF removeConference, EndConference, n, t
<1> QED
  BY <1>1, <1>2, <1>5, <1>6, <1>7, <1>8 DEF X

\* The slot that a change of an object runs.
LEMMA CallChangedTame ==
  ASSUME NEW m \in Formed, NEW o \in 1..Size(m), NEW X, IsConference(m, o) => o \in X
  PROVE  slotCallChanged(m, o) \in Tame(m, X)
<1>1. removeCall(m, o) \in Tame(m, X) /\ Schedule(m, o) \in Tame(m, X) /\ m \in Tame(m, X)
  BY RemoveCallTame, ScheduleTame, TameReflexive
<1> QED
  BY <1>1 DEF slotCallChanged

LEMMA SetStateTame ==
  ASSUME NEW m \in Formed, NEW o \in 1..Size(m), NEW X, NEW s \in Reached \ {"DIALING"},
         IsConference(m, o) => /\ o \in X /\ s \in {"CONFERENCE", "CURRENT", "OVER"}
                               /\ m.call[o].state = "OVER" => s = "OVER"
  PROVE  SetState(m, o, s) \in Tame(m, X)
<1> DEFINE n == [m EXCEPT !.call[o].state = s]
<1>1. n \in Tame(m, {})
  BY StateTame
<1>2. m \in Tame(m, X) /\ {} \subseteq X
  BY TameReflexive
<1>3. n \in Tame(m, X)
  BY <1>1, <1>2, TameMore
<1>4. SetState(m, o, s) \in {m, slotCallChanged(n, o)}
  BY DEF SetState
<1> HIDE DEF n
<1>5. n \in Formed /\ o \in 1..Size(n) /\ (IsConference(n, o) <=> IsConference(m, o))
      /\ \A p \in Tame(n, X) : p \in Tame(m, X)
  BY <1>3, TameFormed
<1>6. slotCallChanged(n, o) \in Tame(n, X)
  BY <1>5, CallChangedTame
<1> QED
  BY <1>2, <1>4, <1>5, <1>6

\* What the daemon reports of a call.
LEMMA CallStateChangedTame ==
  ASSUME NEW m \in Formed, NEW o \in 1..Size(m), ~IsConference(m, o), NEW s \in DaemonReports
  PROVE  CallStateChanged(m, o, s) \in Tame(m, {})
<1> DEFINE d     == toDaemonCallState(s)
           moved == SetState(m, o, stateChangedStateMap[m.call[o].state][d])
           erred == SetState(moved, o, "ERROR")
           miss  == SetMissed(moved, o)
           done  == stateChanged(m, o, s)
<1>0. m \in Typed
  BY DEF Formed
<1>1. m.call[o].state \in Reached /\ d \in DaemonState /\ "ERROR" \in Reached \ {"DIALING"}
  <2>1. m.call[o] \in Record(Size(m))
    BY <1>0, TypedFacts
  <2> QED
    BY <2>1, ReportsAreStates DEF Record, Reached, State
<1>2. stateChangedStateMap[m.call[o].state][d] \in Reached \ {"DIALING"}
  BY <1>1, StatesReached
<1>3. moved \in Tame(m, {})
  BY <1>2, SetStateTame
<1>4. done \in {erred, slotCallChanged(miss, o), slotCallChanged(moved, o)}
  BY DEF stateChanged
<1>4a. CallStateChanged(m, o, s) \in {done, Schedule(done, o)}
  BY DEF CallStateChanged
<1> HIDE DEF moved
<1>5. moved \in Formed /\ o \in 1..Size(moved) /\ ~IsConference(moved, o)
      /\ \A p \in Tame(moved, {}) : p \in Tame(m, {})
  BY <1>3, TameFormed
<1>6. erred \in Tame(moved, {}) /\ miss \in Tame(moved, {}) /\ slotCallChanged(moved, o) \in Tame(moved, {})
  BY <1>1, <1>5, SetStateTame, MissedTame, CallChangedTame
<1> HIDE DEF miss, erred
<1>7. miss \in Formed /\ o \in 1..Size(miss) /\ ~IsConference(miss, o)
      /\ \A p \in Tame(miss, {}) : p \in Tame(moved, {})
  BY <1>5, <1>6, TameFormed
<1>8. slotCallChanged(miss, o) \in Tame(miss, {})
  BY <1>7, CallChangedTame
<1>9. done \in Tame(m, {})
  BY <1>4, <1>5, <1>6, <1>7, <1>8
<1> HIDE DEF done
<1>10. done \in Formed /\ o \in 1..Size(done) /\ ~IsConference(done, o)
       /\ \A p \in Tame(done, {}) : p \in Tame(m, {})
  BY <1>9, TameFormed
<1>11. Schedule(done, o) \in Tame(done, {})
  BY <1>10, ScheduleTame
<1> QED
  BY <1>4a, <1>9, <1>10, <1>11

LEMMA OneMore ==
  ASSUME NEW k \in Nat
  PROVE  /\ \A p \in 1..k : p \in 1..(k + 1)
         /\ k + 1 \notin 1..k /\ \A p \in 1..(k + 1) : p = k + 1 \/ p \in 1..k
OBVIOUS

\* A call that is added, under an identifier that led to none.
LEMMA AddCallTame ==
  ASSUME NEW m \in Formed, NEW c, Sane(c, Size(m)), c.type # "CONFERENCE",
         c.id # "" => m.known[c.id] = 0
  PROVE  addCall(m, c) \in Tame(m, {})
<1> DEFINE n == addCall(m, c)
           k == Size(m)
           o == Size(m) + 1
<1>1. m \in Typed
  BY DEF Formed
<1>2. /\ n \in Typed /\ Size(n) = o
      /\ n.call[o] = c /\ \A p \in 1..k : n.call[p] = m.call[p]
      /\ \A i \in Ids : n.known[i] = IF i = c.id THEN o ELSE m.known[i]
      /\ n.rows = IF metaStateMap[c.state] = "FINISHED" THEN m.rows ELSE Append(m.rows, o)
      /\ n.checks = m.checks /\ n.removals = m.removals
      /\ n.started = m.started /\ n.crashed = m.crashed
  <2>1. LET x == addCall(m, c)
            y == Size(m) + 1
        IN  /\ x \in Typed /\ Size(x) = y
            /\ x.call[y] = c /\ \A p \in 1..Size(m) : x.call[p] = m.call[p]
            /\ \A i \in Ids : x.known[i] = IF i = c.id THEN y ELSE m.known[i]
            /\ x.rows = IF metaStateMap[c.state] = "FINISHED" THEN m.rows
                        ELSE Append(m.rows, y)
            /\ x.checks = m.checks /\ x.removals = m.removals
            /\ x.started = m.started /\ x.answer = m.answer /\ x.crashed = m.crashed
    BY <1>1, AddCallFields
  <2> QED
    BY <2>1
<1>2a. k \in Nat /\ o = k + 1 /\ m.rows \in Seq(1..k)
  BY <1>1, TypedFacts
<1>2b. ToSet(Append(m.rows, o)) = ToSet(m.rows) \cup {o}
  BY <1>2a, AppendedSet
<1>3. /\ \A p \in 1..k : p \in 1..o
      /\ o \notin 1..k /\ \A p \in 1..o : p = o \/ p \in 1..k
  BY <1>2a, OneMore
<1>4. c.id \notin ConfId
  BY DEF Sane
<1> HIDE DEF n, k, o
<1>5. ASSUME NEW p \in 1..k
      PROVE  /\ p \in Rows(n) <=> p \in Rows(m)
             /\ Once(m.rows, p) => Once(n.rows, p)
  <2>1. CASE n.rows = m.rows
    BY <2>1 DEF Rows
  <2>2. CASE n.rows = Append(m.rows, o)
    <3>1. p # o
      BY <1>3
    <3>2. ASSUME Once(m.rows, p) PROVE Once(n.rows, p)
      <4> DEFINE S == 1..k
      <4>1. m.rows \in Seq(S)
        BY <1>2a
      <4> HIDE DEF S
      <4> QED
        BY <2>2, <3>1, <3>2, <4>1, AppendedOnce
    <3> QED
      BY <1>2b, <2>2, <3>1, <3>2 DEF Rows
  <2> QED
    BY <1>2, <2>1, <2>2
<1>6. n \in Formed
  <2> SUFFICES ASSUME NEW p \in 1..o, IsConference(n, p) PROVE WellFormed(n, p)
    BY <1>2 DEF Formed
  <2>1. p \in 1..k
    BY <1>2, <1>3 DEF IsConference
  <2>2. IsConference(m, p) /\ n.call[p] = m.call[p]
    BY <1>2, <2>1 DEF IsConference
  <2>3. WellFormed(m, p) /\ Kids(m, p) \subseteq 1..k
    BY <2>1, <2>2, FormedFacts DEF k
  <2>4. Once(n.rows, p)
    BY <1>5, <2>1, <2>3 DEF WellFormed
  <2>5. \A x \in Kids(n, p) : n.call[x].id \in CallId
    BY <1>2, <2>2, <2>3 DEF WellFormed, Kids
  <2> QED
    BY <2>2, <2>3, <2>4, <2>5 DEF WellFormed
<1>7. ASSUME NEW p \in 1..k PROVE Stays(m, n, {}, p)
  BY <1>2, <1>5, <1>7 DEF Stays, Timed
<1>8. \A f \in ConfId : n.known[f] = m.known[f]
  BY <1>2, <1>4 DEF Ids
<1>9. \A i \in CallId : m.known[i] # 0 => n.known[i] = m.known[i]
  BY <1>2, CallIdAssumption DEF Ids
<1>10. 1..Size(m) \subseteq 1..Size(n)
  BY <1>2, <1>3 DEF k
<1> QED
  BY <1>2, <1>6, <1>7, <1>8, <1>9, <1>10 DEF Tame, n, k

\* A call that is being dialed is given an identifier that led to none.
LEMMA PlacedTame ==
  ASSUME NEW m \in Formed, NEW o \in 1..Size(m), NEW i \in CallId,
         m.call[o].state = "DIALING", m.known[i] = 0
  PROVE  Placed(m, o, i) \in Tame(m, {})
<1> DEFINE n == Placed(m, o, i)
           k == Size(m)
<1>1. m \in Typed
  BY DEF Formed
<1>2. /\ n \in Typed /\ Size(n) = k
      /\ n.call[o] = Identified(m.call[o], i)
      /\ \A p \in 1..k : p # o => n.call[p] = m.call[p]
      /\ n.known[i] = o
      /\ \A j \in Ids : j # i => n.known[j] = m.known[j]
      /\ n.rows = m.rows /\ n.checks = m.checks
      /\ n.removals = m.removals /\ n.started = m.started
      /\ m.call[o].type # "CONFERENCE" /\ m.call[o].children = <<>>
  BY <1>1, PlacedFields
<1>3. n.crashed = m.crashed
  <2>1. Placed(m, o, i).crashed = SetState(m, o, "INITIALIZATION").crashed
    <3>1. "INITIALIZATION" \in Reached \ {"DIALING"}
      BY DEF Reached, State
    <3>2. SetState(m, o, "INITIALIZATION") \in Models
      BY <1>1, <3>1, SetStateFrom, TypedFacts DEF From
    <3> QED
      BY <3>2 DEF Placed, Models
  <2>2. "INITIALIZATION" \in Reached \ {"DIALING"}
    BY DEF Reached, State
  <2> QED
    BY <1>1, <2>1, <2>2, SetStateFrom DEF From, Kept
<1>4. m.call[o] \in Record(k) /\ m.call[o].id = ""
  BY <1>1, TypedFacts DEF Sane
<1> HIDE DEF n, k
<1>5. /\ n.call[o].type = m.call[o].type /\ n.call[o].parent = m.call[o].parent
      /\ n.call[o].children = m.call[o].children
  BY <1>2, <1>4 DEF Identified, Record
<1>6. n \in Formed
  <2> SUFFICES ASSUME NEW p \in 1..k, IsConference(n, p) PROVE WellFormed(n, p)
    BY <1>2 DEF Formed
  <2>1. p # o
    BY <1>2, <1>5 DEF IsConference
  <2>2. IsConference(m, p) /\ n.call[p] = m.call[p]
    BY <1>2, <2>1 DEF IsConference
  <2>3. WellFormed(m, p) /\ Kids(m, p) \subseteq 1..k
    BY <2>2, FormedFacts DEF k
  <2>4. \A x \in Kids(m, p) : x # o
    BY <1>4, <2>3, CallIdAssumption DEF WellFormed
  <2>5. \A x \in Kids(n, p) : n.call[x].id \in CallId
    BY <1>2, <2>2, <2>3, <2>4 DEF WellFormed, Kids
  <2> QED
    BY <1>2, <2>2, <2>3, <2>5 DEF WellFormed
<1>7. ASSUME NEW p \in 1..k, IsConference(m, p) PROVE Stays(m, n, {}, p)
  <2>1. p # o
    BY <1>2, <1>7 DEF IsConference
  <2> QED
    BY <1>2, <2>1 DEF Stays, Timed, Rows
<1>8. \A f \in ConfId : n.known[f] = m.known[f]
  BY <1>2, CallIdAssumption DEF Ids
<1>9. \A j \in CallId : m.known[j] # 0 => n.known[j] = m.known[j]
  BY <1>2 DEF Ids
<1>10. \A p \in 1..k : /\ n.call[p].type = m.call[p].type /\ n.call[p].parent = m.call[p].parent
                       /\ n.call[p].children = m.call[p].children
                       /\ m.call[p].id # "" => n.call[p].id = m.call[p].id
  BY <1>2, <1>4, <1>5
<1> QED
  BY <1>2, <1>3, <1>6, <1>7, <1>8, <1>9, <1>10 DEF Tame, n, k

\* The user, or the account, accepts or refuses a call.
LEMMA PerformedTame ==
  ASSUME NEW m \in Formed, NEW d \in Rings, NEW o \in 1..Size(m), ~IsConference(m, o),
         NEW a \in {"ACCEPT", "REFUSE"}
  PROVE  Performed(m, d, o, a).model \in Tame(m, {})
<1> DEFINE c == m.call[o]
           e == SetState(m, o, actionPerformedStateMap[c.state][a])
           miss == SetMissed(e, o)
           erred == SetState(miss, o, "ERROR")
           over == SetState(e, o, "OVER")
           gone == slotCallChanged(e, o)
<1>1. c.state \in Reached
  BY TypedFacts DEF Formed, Record
<1>2. actionPerformedStateMap[c.state][a] \in Reached \ {"DIALING"}
  BY <1>1, StatesReached
<1>3. e \in Tame(m, {})
  BY <1>2, SetStateTame
<1>4. Performed(m, d, o, a).model \in {e, miss, erred, over, gone}
  BY DEF Performed
<1> HIDE DEF c, e
<1>5. /\ e \in Formed /\ o \in 1..Size(e) /\ ~IsConference(e, o)
      /\ \A p \in Tame(e, {}) : p \in Tame(m, {})
  BY <1>3, TameFormed
<1>6. "ERROR" \in Reached \ {"DIALING"} /\ "OVER" \in Reached \ {"DIALING"}
  BY DEF Reached, State
<1>7. miss \in Tame(e, {}) /\ over \in Tame(e, {}) /\ gone \in Tame(e, {})
  BY <1>5, <1>6, MissedTame, SetStateTame, CallChangedTame
<1> HIDE DEF miss, over, gone
<1>8. /\ miss \in Formed /\ o \in 1..Size(miss) /\ ~IsConference(miss, o)
      /\ \A p \in Tame(miss, {}) : p \in Tame(e, {})
  BY <1>5, <1>7, TameFormed
<1>9. erred \in Tame(miss, {})
  BY <1>6, <1>8, SetStateTame
<1> HIDE DEF erred
<1> QED
  BY <1>3, <1>4, <1>5, <1>7, <1>8, <1>9

\* The user hangs up a conference, that is not over.
LEMMA ConferencePerformed ==
  ASSUME NEW m \in Formed, NEW d \in Rings, NEW o \in 1..Size(m), IsConference(m, o),
         m.call[o].state # "OVER"
  PROVE  /\ Performed(m, d, o, "REFUSE").model \in Tame(m, {o})
         /\ Performed(m, d, o, "REFUSE").ring = HungUpConference(d, m.call[o].id)
<1> DEFINE s == m.call[o].state
           e == SetState(m, o, actionPerformedStateMap[s]["REFUSE"])
           over == SetState(e, o, "OVER")
           X == {o}
<1>1. s \in {"CONFERENCE", "CURRENT"}
  BY DEF Formed, WellFormed
<1>2. actionPerformedStateMap[s]["REFUSE"] = "CURRENT"
  BY <1>1 DEF actionPerformedStateMap, ActionRow, State, Action
<1>3. actionPerformedFunctionMap[s]["REFUSE"] = "hangUp"
  <2>1. actionPerformedFunctionMap[s]["REFUSE"] = OnRefuse(s)
    BY <1>1 DEF actionPerformedFunctionMap, State, Action
  <2> QED
    BY <1>1, <2>1 DEF OnRefuse
<1>4. /\ Performed(m, d, o, "REFUSE").model \in {e, over}
      /\ Performed(m, d, o, "REFUSE").ring = HungUpConference(d, m.call[o].id)
  BY <1>3 DEF Performed
<1>5. "CURRENT" \in Reached \ {"DIALING"} /\ "OVER" \in Reached \ {"DIALING"}
  BY DEF Reached, State
<1>6. e \in Tame(m, X)
  BY <1>1, <1>2, <1>5, SetStateTame
<1> HIDE DEF e
<1>7. /\ e \in Formed /\ o \in 1..Size(e) /\ IsConference(e, o)
      /\ \A p \in Tame(e, X) : p \in Tame(m, X)
  BY <1>6, TameFormed
<1>8. over \in Tame(e, X)
  BY <1>5, <1>7, SetStateTame
<1> QED
  BY <1>4, <1>6, <1>7, <1>8

\* A call that comes in, or that is not known yet.
LEMMA AddExistingTame ==
  ASSUME NEW m \in Formed, NEW d \in Rings, NEW i \in CallId, m.known[i] = 0
  PROVE  LET n == addExistingCall(m, d, i)
         IN  n \in Tame(m, {}) /\ (Known(d, i) => n.known[i] # 0)
<1> DEFINE s == StartState(d, i)
           c == NewCall("CALL", i, s)
<1>0. m \in Typed /\ Size(m) \in Nat
  BY TypedFacts DEF Formed
<1>1. CASE ~Known(d, i)
  BY <1>1, TameReflexive DEF addExistingCall
<1>2. CASE Known(d, i)
  <2>1. s \in Reached /\ s # "DIALING"
    BY <1>2 DEF StartState, Known, Alive, Reached, State
  <2> HIDE DEF s
  <2>2. Sane(c, Size(m)) /\ c.id = i /\ c.type = "CALL"
    BY <1>0, <2>1, NewCallOfId
  <2>3. addExistingCall(m, d, i) = addCall(m, c)
    BY <1>2 DEF addExistingCall, s
  <2> HIDE DEF c
  <2>4. addCall(m, c) \in Tame(m, {})
    BY <2>2, AddCallTame
  <2>5. addCall(m, c).known[i] = Size(m) + 1
    BY <1>0, <2>2, AddCallFields DEF Ids
  <2> QED
    BY <1>0, <2>3, <2>4, <2>5, Ranges
<1> QED
  BY <1>1, <1>2

-----------------------------------------------------------------------------
(* The queue: what the signals in it are about, and in which order.        *)

\* What a signal is about.
Makes(e, f) == e.id = f /\ e.signal = "conferenceCreated"
Ends(e, f) == e.id = f /\ e.signal = "conferenceRemoved"
Tells(e, f) == e.id = f /\ e.signal \in {"conferenceCreated", "conferenceChanged"}
Says(e, i) == e.id = i /\ e.signal = "callStateChanged" /\ e.state = "CURRENT"

\* What is in a queue, and in which order.
Silent(q, f) == \A k \in DOMAIN q : q[k].id # f
Creating(q, f) == \E k \in DOMAIN q : Makes(q[k], f)
Ending(q, f) == \E k \in DOMAIN q : Ends(q[k], f)
Told(q, f) == \E k \in DOMAIN q : Tells(q[k], f)
Reported(q, i) == \E k \in DOMAIN q : Says(q[k], i)
ToldBefore(q, f, g) == \E k, l \in DOMAIN q : k < l /\ Tells(q[k], f) /\ Tells(q[l], g)
ReportedBefore(q, i, f) == \E k, l \in DOMAIN q : k < l /\ Says(q[k], i) /\ Tells(q[l], f)
First(q, f) == \A k, l \in DOMAIN q : Makes(q[k], f) /\ q[l].id = f => k <= l

\* A signal is emitted.
LEMMA QueueGrows ==
  ASSUME NEW q \in Seq(Signals), NEW x \in Signals, NEW r, r = Append(q, x)
  PROVE  /\ r \in Seq(Signals)
         /\ \A f : Silent(r, f) <=> Silent(q, f) /\ x.id # f
         /\ \A f : Creating(r, f) <=> Creating(q, f) \/ Makes(x, f)
         /\ \A f : Ending(r, f) <=> Ending(q, f) \/ Ends(x, f)
         /\ \A f : Told(r, f) <=> Told(q, f) \/ Tells(x, f)
         /\ \A i : Reported(r, i) <=> Reported(q, i) \/ Says(x, i)
         /\ \A f, g : ToldBefore(r, f, g) <=> ToldBefore(q, f, g) \/ (Told(q, f) /\ Tells(x, g))
         /\ \A i, f : ReportedBefore(r, i, f)
                        <=> ReportedBefore(q, i, f) \/ (Reported(q, i) /\ Tells(x, f))
         /\ \A f : First(q, f) /\ (Makes(x, f) => Silent(q, f)) => First(r, f)
<1> DEFINE n == Len(q)
<1>1. /\ n \in Nat /\ DOMAIN q = 1..n /\ DOMAIN r = 1..(n + 1)
      /\ r[n + 1] = x /\ \A k \in 1..n : r[k] = q[k]
  BY AppendProperties
<1> HIDE DEF n
<1>2. /\ \A k \in DOMAIN q : k \in DOMAIN r /\ r[k] = q[k] /\ k < n + 1 /\ ~(n + 1 < k)
      /\ n + 1 \in DOMAIN r /\ r[n + 1] = x /\ ~(n + 1 < n + 1) /\ n + 1 <= n + 1
      /\ \A k \in DOMAIN r : k \in DOMAIN q \/ k = n + 1
      /\ \A k \in DOMAIN q : k <= n + 1
  BY <1>1
<1> DEFINE z == n + 1
<1>3. /\ \A k \in DOMAIN q : k \in DOMAIN r /\ r[k] = q[k] /\ k < z /\ ~(z < k) /\ k <= z
      /\ z \in DOMAIN r /\ r[z] = x /\ ~(z < z) /\ z <= z
      /\ \A k \in DOMAIN r : k \in DOMAIN q \/ k = z
  BY <1>2
<1> HIDE DEF z
<1>4. \A f : Silent(r, f) <=> Silent(q, f) /\ x.id # f
  BY <1>3 DEF Silent
<1>5. \A f : Creating(r, f) <=> Creating(q, f) \/ Makes(x, f)
  BY <1>3 DEF Creating
<1>6. \A f : Ending(r, f) <=> Ending(q, f) \/ Ends(x, f)
  BY <1>3 DEF Ending
<1>7. \A f : Told(r, f) <=> Told(q, f) \/ Tells(x, f)
  BY <1>3 DEF Told
<1>8. \A i : Reported(r, i) <=> Reported(q, i) \/ Says(x, i)
  BY <1>3 DEF Reported
<1>9. ASSUME NEW f, NEW g
      PROVE  ToldBefore(r, f, g) <=> ToldBefore(q, f, g) \/ (Told(q, f) /\ Tells(x, g))
  BY <1>3 DEF Told, ToldBefore
<1>10. ASSUME NEW i, NEW f
       PROVE  ReportedBefore(r, i, f) <=> ReportedBefore(q, i, f) \/ (Reported(q, i) /\ Tells(x, f))
  BY <1>3 DEF Reported, ReportedBefore
<1>11. ASSUME NEW f, First(q, f), Makes(x, f) => Silent(q, f) PROVE First(r, f)
  <2> SUFFICES ASSUME NEW k \in DOMAIN r, NEW l \in DOMAIN r, Makes(r[k], f), r[l].id = f
               PROVE  k <= l
    BY DEF First
  <2>1. CASE k \in DOMAIN q /\ l \in DOMAIN q
    BY <1>3, <1>11, <2>1 DEF First
  <2>2. CASE k \in DOMAIN q /\ l = z
    BY <1>3, <2>2
  <2>3. CASE k = z /\ l \in DOMAIN q
    BY <1>3, <1>11, <2>3 DEF Silent
  <2>4. CASE k = z /\ l = z
    BY <1>3, <2>4
  <2> QED
    BY <1>3, <2>1, <2>2, <2>3, <2>4
<1>12. r \in Seq(Signals)
  BY AppendProperties
<1> QED
  BY <1>4, <1>5, <1>6, <1>7, <1>8, <1>9, <1>10, <1>11, <1>12

\* The first signal is taken.
LEMMA QueueTaken ==
  ASSUME NEW q \in Seq(Signals), q # <<>>, NEW x, x = Head(q), NEW r, r = Tail(q)
  PROVE  /\ x \in Signals /\ r \in Seq(Signals)
         /\ \A f : Silent(q, f) <=> Silent(r, f) /\ x.id # f
         /\ \A f : Creating(q, f) <=> Creating(r, f) \/ Makes(x, f)
         /\ \A f : Ending(q, f) <=> Ending(r, f) \/ Ends(x, f)
         /\ \A f : Told(q, f) <=> Told(r, f) \/ Tells(x, f)
         /\ \A i : Reported(q, i) <=> Reported(r, i) \/ Says(x, i)
         /\ \A f, g : ToldBefore(q, f, g) <=> ToldBefore(r, f, g) \/ (Tells(x, f) /\ Told(r, g))
         /\ \A i, f : ReportedBefore(q, i, f)
                        <=> ReportedBefore(r, i, f) \/ (Says(x, i) /\ Told(r, f))
         /\ \A f : First(q, f) => First(r, f)
         /\ \A f : First(q, f) /\ x.id = f => ~Creating(r, f)
<1> DEFINE n == Len(q)
<1>1. n \in Nat \ {0} /\ DOMAIN q = 1..n
  BY EmptySeq, LenProperties
<1>2. /\ r \in Seq(Signals) /\ x \in Signals /\ x = q[1] /\ Len(r) = n - 1
      /\ \A k \in 1..(n - 1) : r[k] = q[k + 1]
  BY HeadTailProperties
<1>3. DOMAIN r = 1..(n - 1)
  BY <1>2
<1> HIDE DEF n
<1>4. /\ \A k \in DOMAIN r : k \in Nat /\ k + 1 \in DOMAIN q /\ q[k + 1] = r[k] /\ 1 < k + 1
      /\ 1 \in DOMAIN q /\ q[1] = x
      /\ \A k \in DOMAIN q : k = 1 \/ (k - 1 \in DOMAIN r /\ r[k - 1] = q[k] /\ 1 < k)
      /\ \A k, l \in DOMAIN r : k + 1 < l + 1 <=> k < l
      /\ \A k, l \in DOMAIN r : k + 1 <= l + 1 <=> k <= l
      /\ \A k, l \in DOMAIN q : k < l => l # 1
      /\ \A k, l \in DOMAIN q : k < l => k - 1 < l - 1
  <2>1. \A k \in 1..(n - 1) : k \in Nat /\ k + 1 \in 1..n /\ 1 < k + 1
    BY <1>1
  <2>2. \A k \in 1..n : k \in Nat /\ (k = 1 \/ (k - 1 \in 1..(n - 1) /\ (k - 1) + 1 = k /\ 1 < k))
    BY <1>1
  <2>3. 1 \in 1..n
    BY <1>1
  <2>4. \A k, l \in 1..n : k < l => l # 1 /\ k - 1 < l - 1
    BY <1>1
  <2>5. \A k, l \in 1..(n - 1) : (k + 1 < l + 1 <=> k < l) /\ (k + 1 <= l + 1 <=> k <= l)
    BY <1>1
  <2> QED
    BY <1>1, <1>2, <1>3, <2>1, <2>2, <2>3, <2>4, <2>5
<1>5. \A f : Silent(q, f) <=> Silent(r, f) /\ x.id # f
  BY <1>4 DEF Silent
<1>4a. /\ \A k \in DOMAIN q : q[k] = x \/ \E l \in DOMAIN r : r[l] = q[k]
       /\ \A l \in DOMAIN r : \E k \in DOMAIN q : q[k] = r[l]
       /\ \E k \in DOMAIN q : q[k] = x
  BY <1>4
<1>6. \A f : Creating(q, f) <=> Creating(r, f) \/ Makes(x, f)
  BY <1>4a, Zenon DEF Creating
<1>7. \A f : Ending(q, f) <=> Ending(r, f) \/ Ends(x, f)
  BY <1>4a, Zenon DEF Ending
<1>8. \A f : Told(q, f) <=> Told(r, f) \/ Tells(x, f)
  BY <1>4a, Zenon DEF Told
<1>9. \A i : Reported(q, i) <=> Reported(r, i) \/ Says(x, i)
  BY <1>4a, Zenon DEF Reported
<1>10. ASSUME NEW f, NEW g
       PROVE  ToldBefore(q, f, g) <=> ToldBefore(r, f, g) \/ (Tells(x, f) /\ Told(r, g))
  <2>1. ASSUME ToldBefore(q, f, g) PROVE ToldBefore(r, f, g) \/ (Tells(x, f) /\ Told(r, g))
    <3>1. PICK k \in DOMAIN q, l \in DOMAIN q : k < l /\ Tells(q[k], f) /\ Tells(q[l], g)
      BY <2>1 DEF ToldBefore
    <3>2. l - 1 \in DOMAIN r /\ r[l - 1] = q[l] /\ k - 1 < l - 1
      BY <1>4, <3>1
    <3>3. CASE k = 1
      BY <1>4, <3>1, <3>2, <3>3 DEF Told
    <3>4. CASE k # 1
      <4>1. k - 1 \in DOMAIN r /\ r[k - 1] = q[k]
        BY <1>4, <3>4
      <4> QED
        BY <3>1, <3>2, <4>1 DEF ToldBefore
    <3> QED
      BY <3>3, <3>4
  <2>2. ASSUME ToldBefore(r, f, g) PROVE ToldBefore(q, f, g)
    <3>1. PICK k \in DOMAIN r, l \in DOMAIN r : k < l /\ Tells(r[k], f) /\ Tells(r[l], g)
      BY <2>2 DEF ToldBefore
    <3> QED
      BY <1>4, <3>1 DEF ToldBefore
  <2>3. ASSUME Tells(x, f), Told(r, g) PROVE ToldBefore(q, f, g)
    BY <1>4, <2>3 DEF ToldBefore, Told
  <2> QED
    BY <2>1, <2>2, <2>3
<1>11. ASSUME NEW i, NEW f
       PROVE  ReportedBefore(q, i, f) <=> ReportedBefore(r, i, f) \/ (Says(x, i) /\ Told(r, f))
  <2>1. ASSUME ReportedBefore(q, i, f) PROVE ReportedBefore(r, i, f) \/ (Says(x, i) /\ Told(r, f))
    <3>1. PICK k \in DOMAIN q, l \in DOMAIN q : k < l /\ Says(q[k], i) /\ Tells(q[l], f)
      BY <2>1 DEF ReportedBefore
    <3>2. l - 1 \in DOMAIN r /\ r[l - 1] = q[l] /\ k - 1 < l - 1
      BY <1>4, <3>1
    <3>3. CASE k = 1
      BY <1>4, <3>1, <3>2, <3>3 DEF Told
    <3>4. CASE k # 1
      <4>1. k - 1 \in DOMAIN r /\ r[k - 1] = q[k]
        BY <1>4, <3>4
      <4> QED
        BY <3>1, <3>2, <4>1 DEF ReportedBefore
    <3> QED
      BY <3>3, <3>4
  <2>2. ASSUME ReportedBefore(r, i, f) PROVE ReportedBefore(q, i, f)
    <3>1. PICK k \in DOMAIN r, l \in DOMAIN r : k < l /\ Says(r[k], i) /\ Tells(r[l], f)
      BY <2>2 DEF ReportedBefore
    <3> QED
      BY <1>4, <3>1 DEF ReportedBefore
  <2>3. ASSUME Says(x, i), Told(r, f) PROVE ReportedBefore(q, i, f)
    BY <1>4, <2>3 DEF ReportedBefore, Told
  <2> QED
    BY <2>1, <2>2, <2>3
<1>12. ASSUME NEW f, First(q, f) PROVE First(r, f)
  <2> SUFFICES ASSUME NEW k \in DOMAIN r, NEW l \in DOMAIN r, Makes(r[k], f), r[l].id = f
               PROVE  k <= l
    BY DEF First
  <2>1. k + 1 <= l + 1
    BY <1>4, <1>12 DEF First
  <2> QED
    BY <1>4, <2>1
<1>13. ASSUME NEW f, First(q, f), x.id = f, Creating(r, f) PROVE FALSE
  <2>1. PICK k \in DOMAIN r : Makes(r[k], f)
    BY <1>13 DEF Creating
  <2>2. k + 1 <= 1
    BY <1>4, <1>13, <2>1 DEF First
  <2> QED
    BY <1>4, <2>2
<1> QED
  BY <1>2, <1>5, <1>6, <1>7, <1>8, <1>9, <1>10, <1>11, <1>12, <1>13

-----------------------------------------------------------------------------
(* The invariant: what the list still owes to the signals in the queue.    *)

FinalCall == {"ended", "gone"}

\* What the daemon always keeps of its conferences, and of the order of its signals.
Orderly(d) ==
  \A f \in ConfId :
    /\ d.parts[f] # {} => d.confs[f] = "live"
    /\ \A i \in d.parts[f] : d.calls[i] = "current"
    /\ \A g \in ConfId \ {f} : d.parts[f] \cap d.parts[g] = {}
    /\ d.confs[f] = "free" => Silent(d.queue, f)
    /\ First(d.queue, f)
    /\ Ending(d.queue, f) => d.confs[f] = "removed"

Doomed(d, f) == d.confs[f] # "live" \/ d.parts[f] = {}

\* Call i is a child of conference f, and of no other.
Under(m, i, f) ==
  /\ m.known[i] # 0 /\ m.known[i] \in Kids(m, m.known[f])
  /\ m.call[m.known[i]].parent = m.known[f]

\* That the list has call i below conference f is right, or about to be corrected.
Excused(d, f, i) ==
  /\ i \notin d.parts[f] =>
       \/ Told(d.queue, f) \/ d.confs[f] = "removed"
       \/ d.parts[f] = {} /\ d.calls[i] \in FinalCall
  /\ \A g \in ConfId \ {f} :
       i \in d.parts[g] =>
         \/ ToldBefore(d.queue, f, g)
         \/ d.confs[f] = "removed" /\ ~Told(d.queue, f)

\* The list knows the conferences whose creation was handled.  One that it does not list
\* any more is over, or not worth a row; so is one that a timer is about to take away.
Recorded(m, d, f) ==
  /\ d.confs[f] = "free" => m.known[f] = 0
  /\ d.confs[f] # "free" => (m.known[f] = 0 <=> Creating(d.queue, f))
  /\ d.confs[f] = "removed" =>
       Ending(d.queue, f) \/ (m.known[f] \notin Rows(m) /\ ~Creating(d.queue, f))
  /\ m.known[f] \in Rows(m) /\ m.known[f] \in Timed(m) => Doomed(d, f)
  /\ m.known[f] # 0 /\ m.known[f] \notin Rows(m) =>
       m.call[m.known[f]].state = "OVER" \/ Doomed(d, f)
  /\ \A i \in d.parts[f] : m.known[i] = 0 => ReportedBefore(d.queue, i, f)

\* The rows below a conference are right, unless a signal about it is on its way.
Faithful(m, d, f) ==
  m.known[f] \in Rows(m) =>
    /\ \A i \in d.parts[f] : Told(d.queue, f) \/ Under(m, i, f)
    /\ \A c \in Kids(m, m.known[f]) : Excused(d, f, m.call[c].id)

Announced(m, d) ==
  m.started => \A i \in CallId :
                 d.calls[i] = "current" => m.known[i] # 0 \/ Reported(d.queue, i)

\* F are the conferences whose rows are being corrected.
Core(m, d, F) ==
  /\ Announced(m, d)
  /\ \A f \in ConfId : Recorded(m, d, f) /\ (f \notin F => Faithful(m, d, f))

\* A handler that is not about conferences, but for those that are doomed.
LEMMA CoreTame ==
  ASSUME NEW m \in Formed, NEW X, NEW n \in Tame(m, X), NEW d \in Rings, NEW F,
         Core(m, d, F), \A f \in ConfId : m.known[f] # 0 /\ m.known[f] \in X => Doomed(d, f)
  PROVE  Core(n, d, F)
<1>1. /\ m \in Typed /\ n \in Formed
      /\ Rows(m) \subseteq 1..Size(m) /\ Rows(n) \subseteq 1..Size(n)
  BY FormedFacts DEF Tame
<1>2. /\ n.started = m.started
      /\ \A f \in ConfId : n.known[f] = m.known[f]
      /\ \A i \in CallId : m.known[i] # 0 => n.known[i] = m.known[i]
  BY DEF Tame
<1>3. Announced(n, d)
  BY <1>2 DEF Core, Announced
<1>4. ASSUME NEW f \in ConfId, m.known[f] # 0
      PROVE  m.known[f] \in 1..Size(m) /\ IsConference(m, m.known[f])
  BY <1>1, <1>4, KnownObject DEF Ids, IsConference
<1>5. 0 \notin Rows(m) /\ 0 \notin Rows(n)
  <2>1. \A k : 0 \notin 1..k
    OBVIOUS
  <2> QED
    BY <1>1, <2>1
<1>6. ASSUME NEW f \in ConfId PROVE Recorded(n, d, f) /\ (f \notin F => Faithful(n, d, f))
  <2> DEFINE o == m.known[f]
  <2>1. n.known[f] = o
    BY <1>2
  <2>2. d.parts[f] \subseteq CallId
    BY DEF Rings
  <2>3. Recorded(m, d, f) /\ (f \notin F => Faithful(m, d, f))
    BY DEF Core
  <2>4. \A i \in d.parts[f] : n.known[i] = 0 => m.known[i] = 0
    BY <1>2, <2>2
  <2>5. CASE o = 0
    BY <1>5, <2>1, <2>3, <2>4, <2>5 DEF Recorded, Faithful
  <2>6. CASE o # 0
    <3>1. o \in 1..Size(m) /\ IsConference(m, o)
      BY <1>4, <2>6
    <3>2. Stays(m, n, X, o) /\ n.call[o].children = m.call[o].children
      BY <3>1 DEF Tame
    <3>3. o \in X => Doomed(d, f)
      BY <2>6
    <3> HIDE DEF o
    <3>4. o \in Rows(n) => o \in Rows(m)
      BY <3>2 DEF Stays
    <3>5. o \in Rows(n) /\ o \in Timed(n) => Doomed(d, f)
      <4>1. o \in Rows(m) /\ o \in Timed(m) => Doomed(d, f)
        BY <2>3 DEF Recorded, o
      <4> QED
        BY <3>2, <3>3, <3>4, <4>1 DEF Stays
    <3>6. o \notin Rows(n) => n.call[o].state = "OVER" \/ Doomed(d, f)
      <4>1. o \notin Rows(m) => m.call[o].state = "OVER" \/ Doomed(d, f)
        BY <2>3, <2>6 DEF Recorded, o
      <4> QED
        BY <3>2, <3>3, <4>1 DEF Stays
    <3>7. /\ d.confs[f] = "free" => o = 0
          /\ d.confs[f] # "free" => (o = 0 <=> Creating(d.queue, f))
          /\ d.confs[f] = "removed" =>
               Ending(d.queue, f) \/ (o \notin Rows(m) /\ ~Creating(d.queue, f))
          /\ \A i \in d.parts[f] : m.known[i] = 0 => ReportedBefore(d.queue, i, f)
      BY <2>3 DEF Recorded, o
    <3>8. Recorded(n, d, f)
      BY <2>1, <2>4, <2>6, <3>4, <3>5, <3>6, <3>7 DEF Recorded
    <3>9. ASSUME f \notin F, o \in Rows(n) PROVE Faithful(n, d, f)
      <4>1. /\ \A i \in d.parts[f] : Told(d.queue, f) \/ Under(m, i, f)
            /\ \A c \in Kids(m, o) : Excused(d, f, m.call[c].id)
        BY <2>3, <3>4, <3>9 DEF Faithful, o
      <4>2. ASSUME NEW i \in d.parts[f], Under(m, i, f) PROVE Under(n, i, f)
        <5>1. i \in CallId /\ i \in Ids
          BY <2>2 DEF Ids
        <5>2. m.known[i] # 0 /\ m.known[i] \in Kids(m, o) /\ m.call[m.known[i]].parent = o
          BY <4>2 DEF Under, o
        <5>3. m.known[i] \in 1..Size(m) /\ n.known[i] = m.known[i]
          BY <1>1, <1>2, <5>1, <5>2, KnownObject
        <5>4. n.call[m.known[i]].parent = m.call[m.known[i]].parent
          BY <5>3 DEF Tame
        <5> QED
          BY <2>1, <3>2, <5>2, <5>3, <5>4 DEF Under, Kids
      <4>3. ASSUME NEW c \in Kids(n, o) PROVE Excused(d, f, n.call[c].id)
        <5>1. c \in Kids(m, o)
          BY <3>2, <4>3 DEF Kids
        <5>2. c \in 1..Size(m) /\ m.call[c].id \in CallId
          BY <3>1, <5>1, FormedFacts
        <5>3. n.call[c].id = m.call[c].id
          BY <5>2, CallIdAssumption DEF Tame
        <5> QED
          BY <4>1, <5>1, <5>3
      <4> QED
        BY <2>1, <4>1, <4>2, <4>3 DEF Faithful
    <3> QED
      BY <2>1, <3>8, <3>9 DEF Faithful
  <2> QED
    BY <2>5, <2>6
<1> QED
  BY <1>3, <1>6 DEF Core

-----------------------------------------------------------------------------
(* The daemon: what it does to its conferences.                            *)

\* What the daemon does that adds no participant to a conference.
Shrunk(d) ==
  {e \in Rings :
     /\ Orderly(e)
     /\ \A f \in ConfId :
          /\ \/ e.confs[f] = d.confs[f]
             \/ d.confs[f] = "live" /\ e.confs[f] = "removed" /\ Ending(e.queue, f)
          /\ e.parts[f] \subseteq d.parts[f]
          /\ \A i \in d.parts[f] \ e.parts[f] :
               \/ Told(e.queue, f) \/ e.confs[f] = "removed"
               \/ e.parts[f] = {} /\ e.calls[i] \in FinalCall
          /\ Creating(e.queue, f) <=> Creating(d.queue, f)
          /\ Ending(d.queue, f) => Ending(e.queue, f)
          /\ Told(d.queue, f) => Told(e.queue, f)
          /\ Told(e.queue, f) => Told(d.queue, f) \/ e.confs[f] = "live"
          /\ \A g \in ConfId : ToldBefore(d.queue, f, g) => ToldBefore(e.queue, f, g)
     /\ \A i \in CallId :
          /\ d.calls[i] \in FinalCall => e.calls[i] \in FinalCall
          /\ e.calls[i] = "current" => d.calls[i] = "current" \/ Reported(e.queue, i)
          /\ Reported(d.queue, i) => Reported(e.queue, i)
          /\ \A f \in ConfId : ReportedBefore(d.queue, i, f) => ReportedBefore(e.queue, i, f)}

LEMMA CoreShrunk ==
  ASSUME NEW m \in Formed, NEW d \in Rings, NEW e \in Shrunk(d), Core(m, d, {})
  PROVE  Core(m, e, {})
<1>1. ASSUME NEW i \in CallId, m.started, e.calls[i] = "current"
      PROVE  m.known[i] # 0 \/ Reported(e.queue, i)
  BY <1>1 DEF Core, Announced, Shrunk
<1>2. \A k : 0 \notin 1..k
  OBVIOUS
<1>3. 0 \notin Rows(m)
  BY <1>2, FormedFacts
<1>4. ASSUME NEW f \in ConfId PROVE Recorded(m, e, f) /\ Faithful(m, e, f)
  <2>1. Recorded(m, d, f) /\ Faithful(m, d, f)
    BY DEF Core
  <2>2. d.parts[f] \subseteq CallId
    BY DEF Rings
  <2>3. /\ \/ e.confs[f] = d.confs[f]
           \/ d.confs[f] = "live" /\ e.confs[f] = "removed" /\ Ending(e.queue, f)
        /\ e.parts[f] \subseteq d.parts[f]
        /\ Creating(e.queue, f) <=> Creating(d.queue, f)
        /\ Ending(d.queue, f) => Ending(e.queue, f)
        /\ Told(d.queue, f) => Told(e.queue, f)
        /\ Told(e.queue, f) => Told(d.queue, f) \/ e.confs[f] = "live"
        /\ \A i \in d.parts[f] \ e.parts[f] :
             \/ Told(e.queue, f) \/ e.confs[f] = "removed"
             \/ e.parts[f] = {} /\ e.calls[i] \in FinalCall
    BY DEF Shrunk
  <2>4. \A g \in ConfId : ToldBefore(d.queue, f, g) => ToldBefore(e.queue, f, g)
    BY DEF Shrunk
  <2>5. Doomed(d, f) => Doomed(e, f)
    BY <2>3 DEF Doomed
  <2>6. \A i \in e.parts[f] : m.known[i] = 0 => ReportedBefore(e.queue, i, f)
    BY <2>1, <2>2, <2>3 DEF Recorded, Shrunk
  <2>7. Recorded(m, e, f)
    BY <2>1, <2>3, <2>5, <2>6 DEF Recorded
  <2>8. ASSUME NEW i \in CallId, Excused(d, f, i) PROVE Excused(e, f, i)
    <3>1. ASSUME i \notin e.parts[f]
          PROVE  \/ Told(e.queue, f) \/ e.confs[f] = "removed"
                 \/ e.parts[f] = {} /\ e.calls[i] \in FinalCall
      <4>1. CASE i \in d.parts[f]
        BY <2>3, <3>1, <4>1
      <4>2. CASE i \notin d.parts[f]
        <5>1. \/ Told(d.queue, f) \/ d.confs[f] = "removed"
              \/ d.parts[f] = {} /\ d.calls[i] \in FinalCall
          BY <2>8, <4>2 DEF Excused
        <5>2. d.calls[i] \in FinalCall => e.calls[i] \in FinalCall
          BY DEF Shrunk
        <5> QED
          BY <2>3, <5>1, <5>2
      <4> QED
        BY <4>1, <4>2
    <3>2. ASSUME NEW g \in ConfId \ {f}, i \in e.parts[g]
          PROVE  ToldBefore(e.queue, f, g) \/ (e.confs[f] = "removed" /\ ~Told(e.queue, f))
      <4>1. i \in d.parts[g]
        BY <3>2 DEF Shrunk
      <4>2. ToldBefore(d.queue, f, g) \/ (d.confs[f] = "removed" /\ ~Told(d.queue, f))
        BY <2>8, <4>1 DEF Excused
      <4> QED
        BY <2>3, <2>4, <4>2
    <3> QED
      BY <3>1, <3>2 DEF Excused
  <2>9. ASSUME m.known[f] \in Rows(m) PROVE Faithful(m, e, f)
    <3>1. m.known[f] \in 1..Size(m)
      BY <2>9, FormedFacts
    <3>2. \A c \in Kids(m, m.known[f]) : m.call[c].id \in CallId
      BY <3>1, FormedFacts
    <3>3. /\ \A i \in d.parts[f] : Told(d.queue, f) \/ Under(m, i, f)
          /\ \A c \in Kids(m, m.known[f]) : Excused(d, f, m.call[c].id)
      BY <2>1, <2>9 DEF Faithful
    <3>4. \A i \in e.parts[f] : Told(e.queue, f) \/ Under(m, i, f)
      BY <2>3, <3>3
    <3>5. \A c \in Kids(m, m.known[f]) : Excused(e, f, m.call[c].id)
      BY <2>8, <3>2, <3>3
    <3> QED
      BY <3>4, <3>5 DEF Faithful
  <2> QED
    BY <2>7, <2>9 DEF Faithful
<1> QED
  BY <1>1, <1>4 DEF Core, Announced

LEMMA ShrunkReflexive ==
  ASSUME NEW d \in Rings, Orderly(d)
  PROVE  d \in Shrunk(d)
BY DEF Shrunk

\* What r says when it is q and a signal that is not about a conference.
Calling(q, r) ==
  /\ r \in Seq(Signals)
  /\ \A f \in ConfId :
       /\ Silent(r, f) <=> Silent(q, f)
       /\ Creating(r, f) <=> Creating(q, f)
       /\ Ending(r, f) <=> Ending(q, f)
       /\ Told(r, f) <=> Told(q, f)
       /\ First(q, f) => First(r, f)
  /\ \A f, g \in ConfId : ToldBefore(r, f, g) <=> ToldBefore(q, f, g)
  /\ \A i : Reported(q, i) => Reported(r, i)
  /\ \A i : \A f \in ConfId : ReportedBefore(r, i, f) <=> ReportedBefore(q, i, f)

LEMMA CallSignal ==
  ASSUME NEW q \in Seq(Signals), NEW x \in Signals, x.id \in CallId, NEW r, r = Append(q, x)
  PROVE  /\ Calling(q, r)
         /\ x.signal = "callStateChanged" /\ x.state = "CURRENT" => Reported(r, x.id)
<1>1. \A f \in ConfId : x.id # f
  BY CallIdAssumption
<1>2. \A f \in ConfId : ~Makes(x, f) /\ ~Ends(x, f) /\ ~Tells(x, f)
  BY <1>1 DEF Makes, Ends, Tells
<1>4. x.signal = "callStateChanged" /\ x.state = "CURRENT" => Says(x, x.id)
  BY DEF Says
<1> QED
  BY <1>1, <1>2, <1>4, QueueGrows DEF Calling

\* A call that is in no conference changes, or is announced.
LEMMA MovedShrunk ==
  ASSUME NEW d \in Rings, Orderly(d), NEW i \in CallId, NEW to \in DaemonCall \ {"free"},
         NEW s \in DaemonReports,
         to = "current" => d.calls[i] = "current" \/ s = "CURRENT",
         d.calls[i] \in FinalCall => to \in FinalCall,
         to = "current" \/ ConferencesOf(d, i) = {}
  PROVE  Moved(d, i, to, s) \in Shrunk(d)
<1> DEFINE e == Moved(d, i, to, s)
           x == [signal |-> "callStateChanged", id |-> i, state |-> s]
           r == Append(d.queue, x)
           a == [d.calls EXCEPT ![i] = to]
<1>1. x \in Signals /\ x.id = i /\ x.signal = "callStateChanged" /\ x.state = s
  BY DEF Signals
<1>2. e = [d EXCEPT !.calls = a, !.queue = r]
  BY DEF Moved, Emit, Rings
<1>3. d.queue \in Seq(Signals)
  BY DEF Rings
<1> HIDE DEF x
<1>4. Calling(d.queue, r) /\ (s = "CURRENT" => Reported(r, i))
  BY <1>1, <1>3, CallSignal
<1>5. a \in [CallId -> DaemonCall] /\ a[i] = to /\ \A j \in CallId : j # i => a[j] = d.calls[j]
  BY DEF Rings
<1> HIDE DEF r, a, e
<1>6. /\ e \in Rings /\ e.queue = r /\ e.calls = a /\ e.confs = d.confs /\ e.parts = d.parts
  BY <1>2, <1>4, <1>5 DEF Rings, Calling
<1>7. ASSUME NEW f \in ConfId, NEW j \in d.parts[f] PROVE e.calls[j] = "current"
  <2>1. j \in CallId /\ d.calls[j] = "current"
    BY DEF Orderly, Rings
  <2>2. j = i => to = "current"
    BY DEF ConferencesOf
  <2> QED
    BY <1>5, <1>6, <2>1, <2>2
<1>8. Orderly(e)
  BY <1>4, <1>6, <1>7 DEF Orderly, Calling
<1>9. \A j \in CallId :
        /\ d.calls[j] \in FinalCall => e.calls[j] \in FinalCall
        /\ e.calls[j] = "current" => d.calls[j] = "current" \/ Reported(e.queue, j)
  BY <1>4, <1>5, <1>6
<1> QED
  BY <1>4, <1>6, <1>8, <1>9 DEF Shrunk, Calling, e

\* What r says when it is q and a signal that creates or changes conference f.
Telling(q, r, f, s) ==
  /\ r \in Seq(Signals) /\ Told(r, f)
  /\ \A g \in ConfId :
       /\ Silent(r, g) <=> Silent(q, g) /\ g # f
       /\ Creating(r, g) <=> Creating(q, g) \/ (g = f /\ s = "conferenceCreated")
       /\ Ending(r, g) <=> Ending(q, g)
       /\ Told(q, g) => Told(r, g)
       /\ g # f => (Told(r, g) <=> Told(q, g))
       /\ First(q, g) /\ (g = f /\ s = "conferenceCreated" => Silent(q, f)) => First(r, g)
  /\ \A g, h \in ConfId : ToldBefore(r, g, h) <=> ToldBefore(q, g, h) \/ (Told(q, g) /\ h = f)
  /\ \A i : Reported(r, i) <=> Reported(q, i)
  /\ \A i : \A g \in ConfId :
       ReportedBefore(r, i, g) <=> ReportedBefore(q, i, g) \/ (Reported(q, i) /\ g = f)

LEMMA TellingSignal ==
  ASSUME NEW q \in Seq(Signals), NEW f \in ConfId, NEW s \in {"conferenceCreated", "conferenceChanged"},
         NEW r, r = Append(q, [signal |-> s, id |-> f, state |-> ""])
  PROVE  Telling(q, r, f, s)
<1> DEFINE x == [signal |-> s, id |-> f, state |-> ""]
<1>1. x \in Signals /\ x.id = f /\ x.signal = s
  BY DEF Signals
<1>2. r = Append(q, x)
  OBVIOUS
<1> HIDE DEF x
<1>3. /\ \A g : Makes(x, g) <=> g = f /\ s = "conferenceCreated"
      /\ \A g : ~Ends(x, g)
      /\ \A g : Tells(x, g) <=> g = f
      /\ \A i : ~Says(x, i)
  BY <1>1 DEF Makes, Ends, Tells, Says
<1>5. /\ r \in Seq(Signals)
      /\ \A g : Silent(r, g) <=> Silent(q, g) /\ x.id # g
      /\ \A g : Creating(r, g) <=> Creating(q, g) \/ Makes(x, g)
      /\ \A g : Ending(r, g) <=> Ending(q, g) \/ Ends(x, g)
      /\ \A g : Told(r, g) <=> Told(q, g) \/ Tells(x, g)
      /\ \A i : Reported(r, i) <=> Reported(q, i) \/ Says(x, i)
      /\ \A g, h : ToldBefore(r, g, h) <=> ToldBefore(q, g, h) \/ (Told(q, g) /\ Tells(x, h))
      /\ \A i, g : ReportedBefore(r, i, g)
                     <=> ReportedBefore(q, i, g) \/ (Reported(q, i) /\ Tells(x, g))
      /\ \A g : First(q, g) /\ (Makes(x, g) => Silent(q, g)) => First(r, g)
  BY <1>1, <1>2, QueueGrows
<1> QED
  BY <1>1, <1>3, <1>5 DEF Telling

\* A call leaves its conference.
LEMMA LeavesShrunk ==
  ASSUME NEW d \in Rings, Orderly(d), NEW i \in CallId
  PROVE  /\ Leaves(d, i) \in Shrunk(d) /\ ConferencesOf(Leaves(d, i), i) = {}
         /\ Leaves(d, i).calls = d.calls
<1>1. CASE ConferencesOf(d, i) = {}
  BY <1>1, ShrunkReflexive DEF Leaves
<1>2. CASE ConferencesOf(d, i) # {}
  <2> DEFINE f == CHOOSE f \in ConferencesOf(d, i) : TRUE
             s == "conferenceChanged"
             r == Append(d.queue, [signal |-> s, id |-> f, state |-> ""])
             p == [d.parts EXCEPT ![f] = @ \ {i}]
             e == Leaves(d, i)
  <2>1. f \in ConfId /\ i \in d.parts[f]
    BY <1>2 DEF ConferencesOf
  <2>2. e = [d EXCEPT !.parts = p, !.queue = r]
    BY <1>2 DEF Leaves, Emit, Rings
  <2> HIDE DEF f, e
  <2>3. d.queue \in Seq(Signals)
    BY DEF Rings
  <2>4. /\ p \in [ConfId -> SUBSET CallId] /\ p[f] = d.parts[f] \ {i}
        /\ \A g \in ConfId : g # f => p[g] = d.parts[g]
    BY <2>1 DEF Rings
  <2>5. Telling(d.queue, r, f, s)
    BY <2>1, <2>3, TellingSignal
  <2> HIDE DEF r, p
  <2>6. e \in Rings /\ e.queue = r /\ e.parts = p /\ e.confs = d.confs /\ e.calls = d.calls
    BY <2>2, <2>4, <2>5 DEF Rings, Telling
  <2>7. d.confs[f] = "live"
    BY <2>1 DEF Orderly
  <2>8. \A g \in ConfId : p[g] \subseteq d.parts[g]
    BY <2>4
  <2>9. Orderly(e)
    BY <2>5, <2>6, <2>7, <2>8 DEF Orderly, Telling
  <2>10. \A g \in ConfId : \A j \in d.parts[g] \ p[g] : g = f
    BY <2>4
  <2>11. e \in Shrunk(d)
    BY <2>5, <2>6, <2>7, <2>8, <2>9, <2>10 DEF Shrunk, Telling
  <2>12. \A g \in ConfId : i \notin p[g]
    <3> SUFFICES ASSUME NEW g \in ConfId, i \in p[g] PROVE FALSE
      OBVIOUS
    <3>1. g # f /\ i \in d.parts[g]
      BY <2>4
    <3> QED
      BY <2>1, <3>1 DEF Orderly
  <2> QED
    BY <2>6, <2>11, <2>12 DEF ConferencesOf, e
<1> QED
  BY <1>1, <1>2

\* The list and the daemon fit.
Fits(m, d) == Orderly(d) /\ Core(m, d, {})

LEMMA ShrunkFits ==
  ASSUME NEW m \in Formed, NEW d \in Rings, Fits(m, d), NEW e \in Shrunk(d)
  PROVE  e \in Rings /\ Fits(m, e)
BY CoreShrunk DEF Fits, Shrunk

LEMMA EndedFits ==
  ASSUME NEW m \in Formed, NEW d \in Rings, Fits(m, d), NEW i \in CallId, NEW s \in DaemonReports
  PROVE  Fits(m, Ended(d, i, s))
<1> DEFINE e == Leaves(d, i)
<1>1. e \in Shrunk(d) /\ ConferencesOf(e, i) = {}
  BY LeavesShrunk DEF Fits
<1> HIDE DEF e
<1>2. e \in Rings /\ Fits(m, e)
  BY <1>1, ShrunkFits
<1>3. "ended" \in DaemonCall \ {"free"} /\ "ended" \in FinalCall
  BY DEF DaemonCall, FinalCall
<1>4. Moved(e, i, "ended", s) \in Shrunk(e)
  BY <1>1, <1>2, <1>3, MovedShrunk DEF Fits
<1> QED
  BY <1>2, <1>4, ShrunkFits DEF Ended, e

LEMMA RequestsFit ==
  ASSUME NEW m \in Formed, NEW d \in Rings, Fits(m, d), NEW i
  PROVE  Fits(m, Accepted(d, i)) /\ Fits(m, HungUp(d, i))
<1>1. "current" \in DaemonCall \ {"free"} /\ {"CURRENT", "HUNGUP"} \subseteq DaemonReports
  BY DEF DaemonCall, Alive, DaemonReports
<1>2. Known(d, i) => i \in CallId
  BY DEF Known
<1>3. ASSUME Known(d, i), d.calls[i] = "incoming" PROVE Fits(m, Moved(d, i, "current", "CURRENT"))
  <2>1. Moved(d, i, "current", "CURRENT") \in Shrunk(d)
    BY <1>1, <1>2, <1>3, MovedShrunk DEF Fits, FinalCall
  <2> QED
    BY <2>1, ShrunkFits
<1>4. ASSUME Known(d, i) PROVE Fits(m, Ended(d, i, "HUNGUP"))
  BY <1>1, <1>2, <1>4, EndedFits
<1> QED
  BY <1>3, <1>4 DEF Accepted, HungUp

\* Every participant of a conference that is hung up has ended.
LEMMA HungUpConferenceEnds ==
  ASSUME NEW d \in Rings, NEW f \in ConfId, NEW U \in SUBSET Rings, [d EXCEPT !.parts[f] = {}] \in U,
         \A x \in U, i \in d.parts[f] : Moved(x, i, "ended", "HUNGUP") \in U
  PROVE  /\ HungUpConference(d, f) \in U
         /\ \A i \in d.parts[f] : HungUpConference(d, f).calls[i] = "ended"
<1> DEFINE op(done, i) == Moved(done, i, "ended", "HUNGUP")
           m == [d EXCEPT !.parts[f] = {}]
           s == SetToSeq(d.parts[f])
           n == Len(s)
           G == [k \in 0..n |-> {x \in U : \A l \in 1..k : x.calls[s[l]] = "ended"}]
           F == [p \in U \X (1..n) |-> op(p[1], s[p[2]])]
           IsFold(h) == h = [D \in SUBSET DOMAIN s |->
                               IF D = {} THEN m
                               ELSE op(h[D \ {Max(D)}], s[Max(D)])]
           it == CHOOSE h : IsFold(h)
<1>1. /\ n \in Nat /\ DOMAIN s = 1..n /\ \A k \in 1..n : s[k] \in d.parts[f]
      /\ \A i \in d.parts[f] : \E k \in 1..n : s[k] = i
      /\ d.parts[f] \subseteq CallId
  <2>1. IsFiniteSet(d.parts[f]) /\ d.parts[f] \subseteq CallId
    <3>1. d.parts[f] \subseteq CallId
      BY DEF Rings
    <3> QED
      BY <3>1, CallIdAssumption, FS_Subset
  <2>2. s \in Seq(d.parts[f]) /\ \A i \in d.parts[f] : \E k \in 1..n : s[k] = i
    BY <2>1, SequenceOfSet
  <2> HIDE DEF s
  <2> QED
    BY <2>1, <2>2
<1>1a. HungUpConference(d, f) = FoldLeft(LAMBDA done, i : Moved(done, i, "ended", "HUNGUP"), m, s)
  BY DEF HungUpConference
<1> HIDE DEF s, m
<1>2. \A k \in 0..n : \A x : x \in G[k] <=> x \in U /\ \A l \in 1..k : x.calls[s[l]] = "ended"
  OBVIOUS
<1>2a. m \in G[0]
  <2>1. 1..0 = {} /\ 0 \in 0..n
    BY <1>1
  <2> HIDE DEF G
  <2> QED
    BY <1>2, <2>1 DEF m
<1>2b. ASSUME NEW x \in U, NEW k \in 1..n, x \in G[k - 1] PROVE op(x, s[k]) \in G[k]
  <2>1. /\ k - 1 \in 0..n /\ k \in 0..n /\ \A l \in 1..k : l = k \/ l \in 1..(k - 1)
    BY <1>1
  <2>2. s[k] \in CallId /\ x \in Rings
    BY <1>1
  <2>3. /\ op(x, s[k]).calls[s[k]] = "ended"
        /\ \A i \in CallId : i # s[k] => op(x, s[k]).calls[i] = x.calls[i]
    BY <2>2 DEF Moved, Emit, Rings
  <2>4. op(x, s[k]) \in U
    BY <1>1
  <2> HIDE DEF op, G
  <2>5. \A l \in 1..(k - 1) : x.calls[s[l]] = "ended"
    BY <1>2, <1>2b, <2>1
  <2>6. \A l \in 1..k : op(x, s[k]).calls[s[l]] = "ended"
    <3> SUFFICES ASSUME NEW l \in 1..k PROVE op(x, s[k]).calls[s[l]] = "ended"
      OBVIOUS
    <3>1. s[l] \in CallId
      BY <1>1
    <3> QED
      BY <2>1, <2>3, <2>5, <3>1
  <2> QED
    BY <1>2, <2>1, <2>4, <2>6
<1>3a. \A x \in U, k \in 1..n : F[<<x, k>>] = op(x, s[k]) /\ op(x, s[k]) \in U
  <2> SUFFICES ASSUME NEW x \in U, NEW k \in 1..n PROVE op(x, s[k]) \in U
    OBVIOUS
  <2> QED
    BY <1>1
<1>3b. n \in 0..n /\ m \in U
  BY <1>1 DEF m
<1> HIDE DEF F, G, op
<1>3. Stepped(n, U, G, m, F)
  BY <1>1, <1>2a, <1>2b, <1>3a, <1>3b DEF Stepped
<1>4. PICK h \in [SUBSET (1..n) -> U] : SequenceFoldsBy(h, n, U, m, F)
  BY <1>3, SequenceFoldExists
<1>5. IsFold(h)
  BY <1>1, <1>3a, <1>4 DEF SequenceFoldsBy
<1>6. HungUpConference(d, f) = it[1..n]
  BY <1>1, <1>1a, SMTT(60) DEF FoldLeft, MapThenFoldSet, IsFold, op
<1>7. SequenceFoldsBy(it, n, U, m, F)
  <2> HIDE DEF IsFold
  <2>1. IsFold(it)
    BY <1>5
  <2>2. \A D \in SUBSET (1..n) : D # {} => Max(D) \in D
    BY <1>4 DEF SequenceFoldsBy
  <2>3. /\ it[{}] = m
        /\ \A D \in SUBSET (1..n) : D # {} => it[D] = op(it[D \ {Max(D)}], s[Max(D)])
    BY <1>1, <2>1 DEF IsFold
  <2> QED
    BY <1>3a, <2>2, <2>3 DEF SequenceFoldsBy
<1> HIDE DEF IsFold, it
<1>8. it[1..n] \in G[n] /\ it[1..n] \in U
  BY <1>3, <1>7, SequenceFoldReaches
<1>9. \A l \in 1..n : HungUpConference(d, f).calls[s[l]] = "ended"
  BY <1>2, <1>3b, <1>6, <1>8
<1> QED
  BY <1>1, <1>6, <1>8, <1>9

LEMMA CallingThen ==
  ASSUME NEW q, NEW r, NEW t, Calling(q, r), Calling(r, t)
  PROVE  Calling(q, t)
BY DEF Calling

\* A call is moved, whatever it takes part in.
LEMMA MovedCalling ==
  ASSUME NEW d \in Rings, NEW i \in CallId, NEW to \in DaemonCall, NEW s \in DaemonReports
  PROVE  LET e == Moved(d, i, to, s)
         IN  /\ e \in Rings /\ e.confs = d.confs /\ e.parts = d.parts
             /\ e.calls[i] = to /\ \A j \in CallId : j # i => e.calls[j] = d.calls[j]
             /\ Calling(d.queue, e.queue)
<1> DEFINE x == [signal |-> "callStateChanged", id |-> i, state |-> s]
           r == Append(d.queue, x)
           e == [d EXCEPT !.calls[i] = to, !.queue = r]
<1>1. x \in Signals /\ x.id = i
  BY DEF Signals
<1>2. Moved(d, i, to, s) = e
  BY DEF Moved, Emit, Rings
<1>3. d.queue \in Seq(Signals)
  BY DEF Rings
<1> HIDE DEF x
<1>4. Calling(d.queue, r)
  BY <1>1, <1>3, CallSignal
<1> HIDE DEF r
<1>5. /\ e \in Rings /\ e.confs = d.confs /\ e.parts = d.parts /\ e.queue = r
      /\ e.calls[i] = to /\ \A j \in CallId : j # i => e.calls[j] = d.calls[j]
  BY <1>4 DEF Rings, Calling
<1> QED
  BY <1>2, <1>4, <1>5

LEMMA HungUpConferenceShrunk ==
  ASSUME NEW d \in Rings, Orderly(d), NEW f \in ConfId
  PROVE  HungUpConference(d, f) \in Shrunk(d) /\ HungUpConference(d, f).parts[f] = {}
<1> DEFINE P == d.parts[f]
           p == [d.parts EXCEPT ![f] = {}]
           U == {e \in Rings :
                   /\ e.confs = d.confs /\ e.parts = p
                   /\ \A i \in P : e.calls[i] \in {d.calls[i], "ended"}
                   /\ \A i \in CallId \ P : e.calls[i] = d.calls[i]
                   /\ Calling(d.queue, e.queue)}
           e == HungUpConference(d, f)
<1>1. P \subseteq CallId
  BY DEF Rings
<1>2. /\ p \in [ConfId -> SUBSET CallId] /\ p[f] = {}
      /\ \A g \in ConfId : g # f => p[g] = d.parts[g]
  BY DEF Rings
<1>3. [d EXCEPT !.parts[f] = {}] \in U
  <2> DEFINE n == [d EXCEPT !.parts = p]
  <2>1. [d EXCEPT !.parts[f] = {}] = n
    BY DEF Rings
  <2> HIDE DEF p, P
  <2>2. n \in Rings /\ n.confs = d.confs /\ n.parts = p /\ n.calls = d.calls /\ n.queue = d.queue
    BY <1>2 DEF Rings
  <2>3. Calling(d.queue, d.queue)
    BY DEF Calling, Rings
  <2> QED
    BY <2>1, <2>2, <2>3
<1> HIDE DEF p
<1>4. ASSUME NEW x \in U, NEW i \in P PROVE Moved(x, i, "ended", "HUNGUP") \in U
  <2> DEFINE n == Moved(x, i, "ended", "HUNGUP")
  <2>1. "ended" \in DaemonCall /\ "HUNGUP" \in DaemonReports
    BY DEF DaemonCall, DaemonReports
  <2>2. i \in CallId
    BY <1>1
  <2>3. /\ n \in Rings /\ n.confs = x.confs /\ n.parts = x.parts
        /\ n.calls[i] = "ended" /\ \A j \in CallId : j # i => n.calls[j] = x.calls[j]
        /\ Calling(x.queue, n.queue)
    BY <2>1, <2>2, MovedCalling
  <2> HIDE DEF n
  <2>4. Calling(d.queue, n.queue)
    BY <2>3, CallingThen
  <2>5. \A j \in P : n.calls[j] \in {d.calls[j], "ended"}
    BY <1>1, <2>3
  <2>6. \A j \in CallId \ P : n.calls[j] = d.calls[j]
    BY <2>3
  <2>7. n \in U
    BY <2>3, <2>4, <2>5, <2>6
  <2> QED
    BY <2>7 DEF n
<1>5. U \in SUBSET Rings
  OBVIOUS
<1>6. e \in U /\ \A i \in P : e.calls[i] = "ended"
  <2> HIDE DEF U
  <2> QED
    BY <1>3, <1>4, <1>5, HungUpConferenceEnds
<1> HIDE DEF e
<1>7. /\ e \in Rings /\ e.confs = d.confs /\ e.parts = p /\ Calling(d.queue, e.queue)
      /\ \A i \in CallId \ P : e.calls[i] = d.calls[i]
  BY <1>6
<1> HIDE DEF U
<1>8. \A g \in ConfId : p[g] \subseteq d.parts[g]
  BY <1>2
<1>9. ASSUME NEW g \in ConfId, NEW i \in p[g] PROVE e.calls[i] = "current"
  <2>1. g # f /\ i \in d.parts[g] /\ i \in CallId
    BY <1>2, <1>9 DEF Rings
  <2>2. i \notin P /\ d.calls[i] = "current"
    BY <2>1 DEF Orderly
  <2> QED
    BY <1>7, <2>1, <2>2
<1>10. Orderly(e)
  <2>1. \A g \in ConfId : \A h \in ConfId \ {g} : p[g] \cap p[h] = {}
    BY <1>8 DEF Orderly
  <2>2. \A g \in ConfId : p[g] # {} => d.confs[g] = "live"
    BY <1>8 DEF Orderly
  <2> QED
    BY <1>7, <1>9, <2>1, <2>2 DEF Orderly, Calling
<1>11. \A i \in CallId :
         /\ d.calls[i] \in FinalCall => e.calls[i] \in FinalCall
         /\ e.calls[i] = "current" => d.calls[i] = "current"
  BY <1>6, <1>7 DEF FinalCall
<1>12. \A g \in ConfId : \A i \in d.parts[g] \ p[g] : g = f /\ e.calls[i] \in FinalCall /\ p[g] = {}
  BY <1>2, <1>6 DEF FinalCall
<1> HIDE DEF P
<1>13. e \in Shrunk(d)
  BY <1>7, <1>8, <1>10, <1>11, <1>12 DEF Shrunk, Calling
<1> QED
  BY <1>2, <1>7, <1>13 DEF e

\* What r says when it is q and the signal that ends conference f.
Finishing(q, r, f) ==
  /\ r \in Seq(Signals)
  /\ \A g \in ConfId :
       /\ Silent(r, g) <=> Silent(q, g) /\ g # f
       /\ Creating(r, g) <=> Creating(q, g)
       /\ Ending(r, g) <=> Ending(q, g) \/ g = f
       /\ Told(r, g) <=> Told(q, g)
       /\ First(q, g) => First(r, g)
  /\ \A g, h \in ConfId : ToldBefore(r, g, h) <=> ToldBefore(q, g, h)
  /\ \A i : Reported(r, i) <=> Reported(q, i)
  /\ \A i : \A g \in ConfId : ReportedBefore(r, i, g) <=> ReportedBefore(q, i, g)

LEMMA FinishingSignal ==
  ASSUME NEW q \in Seq(Signals), NEW f \in ConfId,
         NEW r, r = Append(q, [signal |-> "conferenceRemoved", id |-> f, state |-> ""])
  PROVE  Finishing(q, r, f)
<1> DEFINE x == [signal |-> "conferenceRemoved", id |-> f, state |-> ""]
<1>1. x \in Signals /\ x.id = f /\ x.signal = "conferenceRemoved"
  BY DEF Signals
<1>2. r = Append(q, x)
  OBVIOUS
<1> HIDE DEF x
<1>3. /\ \A g : ~Makes(x, g)
      /\ \A g : Ends(x, g) <=> g = f
      /\ \A g : ~Tells(x, g)
      /\ \A i : ~Says(x, i)
  BY <1>1 DEF Makes, Ends, Tells, Says
<1>4. /\ r \in Seq(Signals)
      /\ \A g : Silent(r, g) <=> Silent(q, g) /\ x.id # g
      /\ \A g : Creating(r, g) <=> Creating(q, g) \/ Makes(x, g)
      /\ \A g : Ending(r, g) <=> Ending(q, g) \/ Ends(x, g)
      /\ \A g : Told(r, g) <=> Told(q, g) \/ Tells(x, g)
      /\ \A i : Reported(r, i) <=> Reported(q, i) \/ Says(x, i)
      /\ \A g, h : ToldBefore(r, g, h) <=> ToldBefore(q, g, h) \/ (Told(q, g) /\ Tells(x, h))
      /\ \A i, g : ReportedBefore(r, i, g)
                     <=> ReportedBefore(q, i, g) \/ (Reported(q, i) /\ Tells(x, g))
      /\ \A g : First(q, g) /\ (Makes(x, g) => Silent(q, g)) => First(r, g)
  BY <1>1, <1>2, QueueGrows
<1> QED
  BY <1>1, <1>3, <1>4 DEF Finishing

\* A conference that the daemon dissolves.
LEMMA DissolvedShrunk ==
  ASSUME NEW d \in Rings, Orderly(d), NEW f \in ConfId, d.confs[f] = "live"
  PROVE  Emit([d EXCEPT !.confs[f] = "removed", !.parts[f] = {}], "conferenceRemoved", f, "")
           \in Shrunk(d)
<1> DEFINE x == [signal |-> "conferenceRemoved", id |-> f, state |-> ""]
           r == Append(d.queue, x)
           p == [d.parts EXCEPT ![f] = {}]
           c == [d.confs EXCEPT ![f] = "removed"]
           e == [d EXCEPT !.confs = c, !.parts = p, !.queue = r]
<1>1. Emit([d EXCEPT !.confs[f] = "removed", !.parts[f] = {}], "conferenceRemoved", f, "") = e
  BY DEF Emit, Rings
<1>2. Finishing(d.queue, r, f)
  BY FinishingSignal DEF Rings
<1>3. /\ p \in [ConfId -> SUBSET CallId] /\ p[f] = {}
      /\ \A g \in ConfId : g # f => p[g] = d.parts[g]
      /\ c \in [ConfId -> {"free", "live", "removed"}] /\ c[f] = "removed"
      /\ \A g \in ConfId : g # f => c[g] = d.confs[g]
  BY DEF Rings
<1> HIDE DEF r, p, c
<1>4. e \in Rings /\ e.confs = c /\ e.parts = p /\ e.queue = r /\ e.calls = d.calls
  BY <1>2, <1>3 DEF Rings, Finishing
<1> HIDE DEF e
<1>5. \A g \in ConfId : p[g] \subseteq d.parts[g]
  BY <1>3
<1>6. Orderly(e)
  <2>1. \A g \in ConfId : p[g] # {} => c[g] = "live"
    BY <1>3 DEF Orderly
  <2>2. \A g \in ConfId : c[g] = "free" => Silent(r, g)
    BY <1>2, <1>3 DEF Orderly, Finishing
  <2>3. \A g \in ConfId : Ending(r, g) => c[g] = "removed"
    BY <1>2, <1>3 DEF Orderly, Finishing
  <2>4. \A g \in ConfId : First(r, g)
    BY <1>2 DEF Orderly, Finishing
  <2> QED
    BY <1>4, <1>5, <2>1, <2>2, <2>3, <2>4 DEF Orderly
<1>7. \A g \in ConfId : \A i \in d.parts[g] \ p[g] : c[g] = "removed"
  BY <1>3
<1>8. \A g \in ConfId : c[g] = d.confs[g] \/ (d.confs[g] = "live" /\ c[g] = "removed" /\ Ending(r, g))
  BY <1>2, <1>3 DEF Finishing
<1>9. e \in Shrunk(d)
  BY <1>2, <1>4, <1>5, <1>6, <1>7, <1>8 DEF Shrunk, Finishing
<1> QED
  BY <1>1, <1>9

\* Calls that are in no conference join one that is new, or that has a participant.
LEMMA GainedFits ==
  ASSUME NEW m \in Formed, m.started, NEW d \in Rings, Fits(m, d), NEW e \in Rings,
         NEW f \in ConfId, NEW I \in SUBSET CallId, NEW s,
         \A i \in I : d.calls[i] = "current" /\ ConferencesOf(d, i) = {},
         \/ s = "conferenceCreated" /\ d.confs[f] = "free"
         \/ s = "conferenceChanged" /\ d.confs[f] = "live" /\ d.parts[f] # {},
         e.calls = d.calls, e.confs = [d.confs EXCEPT ![f] = "live"],
         e.parts = [d.parts EXCEPT ![f] = @ \cup I], Telling(d.queue, e.queue, f, s)
  PROVE  Fits(m, e)
<1>1. /\ e.confs[f] = "live" /\ \A g \in ConfId : g # f => e.confs[g] = d.confs[g]
      /\ e.parts[f] = d.parts[f] \cup I /\ \A g \in ConfId : g # f => e.parts[g] = d.parts[g]
  BY DEF Rings
<1>2. \A i \in I : \A g \in ConfId : i \notin d.parts[g]
  BY DEF ConferencesOf
<1>3. Orderly(d) /\ Core(m, d, {})
  BY DEF Fits
<1>4. \A g \in ConfId : d.parts[g] \subseteq CallId /\ e.parts[g] \subseteq CallId
  BY DEF Rings
<1>5. Orderly(e)
  <2>1. \A g \in ConfId : e.parts[g] # {} => e.confs[g] = "live"
    BY <1>1, <1>3 DEF Orderly
  <2>2. \A g \in ConfId : \A i \in e.parts[g] : e.calls[i] = "current"
    BY <1>1, <1>3 DEF Orderly
  <2>3. \A g \in ConfId : \A h \in ConfId \ {g} : e.parts[g] \cap e.parts[h] = {}
    BY <1>1, <1>2, <1>3 DEF Orderly
  <2>4. \A g \in ConfId : e.confs[g] = "free" => Silent(e.queue, g)
    BY <1>1, <1>3 DEF Orderly, Telling
  <2>5. s = "conferenceCreated" => Silent(d.queue, f)
    BY <1>3 DEF Orderly
  <2>6. \A g \in ConfId : First(e.queue, g)
    BY <1>3, <2>5 DEF Orderly, Telling
  <2>7. \A g \in ConfId : Ending(e.queue, g) => e.confs[g] = "removed"
    <3> SUFFICES ASSUME NEW g \in ConfId, Ending(e.queue, g) PROVE e.confs[g] = "removed"
      OBVIOUS
    <3>1. Ending(d.queue, g)
      BY DEF Telling
    <3>2. d.confs[g] = "removed"
      BY <1>3, <3>1 DEF Orderly
    <3> QED
      BY <1>1, <3>2
  <2> QED
    BY <2>1, <2>2, <2>3, <2>4, <2>6, <2>7 DEF Orderly
<1>6. Announced(m, e)
  BY <1>3 DEF Core, Announced, Telling
<1>7. \A k : 0 \notin 1..k
  OBVIOUS
<1>8. 0 \notin Rows(m)
  BY <1>7, FormedFacts
<1>9. s = "conferenceCreated" => m.known[f] = 0 /\ d.parts[f] = {}
  BY <1>3 DEF Core, Recorded, Orderly
<1>10. ASSUME NEW g \in ConfId PROVE Recorded(m, e, g)
  <2>1. Recorded(m, d, g)
    BY <1>3 DEF Core
  <2>2. ASSUME NEW i \in e.parts[g], m.known[i] = 0 PROVE ReportedBefore(e.queue, i, g)
    <3>1. CASE i \in d.parts[g]
      BY <2>1, <2>2, <3>1 DEF Recorded, Telling
    <3>2. CASE i \notin d.parts[g]
      <4>1. g = f /\ i \in I
        BY <1>1, <3>2
      <4>2. Reported(d.queue, i)
        BY <1>3, <2>2, <4>1 DEF Core, Announced
      <4> QED
        BY <4>1, <4>2 DEF Telling
    <3> QED
      BY <3>1, <3>2
  <2>3. CASE g = f /\ s = "conferenceCreated"
    <3>1. Creating(e.queue, f)
      BY <2>3 DEF Telling
    <3> QED
      BY <1>1, <1>8, <1>9, <2>2, <2>3, <3>1 DEF Recorded
  <2>4. CASE g = f /\ s = "conferenceChanged"
    <3>1. Creating(e.queue, f) <=> Creating(d.queue, f)
      BY <2>4 DEF Telling
    <3>2. d.confs[f] = "live" /\ d.parts[f] # {}
      BY <2>4
    <3> QED
      BY <1>1, <2>1, <2>2, <2>4, <3>1, <3>2 DEF Recorded, Doomed
  <2>5. CASE g # f
    <3>1. (Creating(e.queue, g) <=> Creating(d.queue, g)) /\ (Ending(e.queue, g) <=> Ending(d.queue, g))
      BY <2>5 DEF Telling
    <3>2. e.confs[g] = d.confs[g] /\ e.parts[g] = d.parts[g]
      BY <1>1, <2>5
    <3> QED
      BY <2>1, <2>2, <3>1, <3>2 DEF Recorded, Doomed
  <2> QED
    BY <2>3, <2>4, <2>5
<1>11. ASSUME NEW g \in ConfId, NEW i \in CallId, Excused(d, g, i) PROVE Excused(e, g, i)
  <2>1. ASSUME i \notin e.parts[g]
        PROVE  \/ Told(e.queue, g) \/ e.confs[g] = "removed"
               \/ e.parts[g] = {} /\ e.calls[i] \in FinalCall
    <3>1. CASE g = f
      BY <3>1 DEF Telling
    <3>2. CASE g # f
      BY <1>1, <1>11, <2>1, <3>2 DEF Excused, Telling
    <3> QED
      BY <3>1, <3>2
  <2>2. ASSUME NEW h \in ConfId \ {g}, i \in e.parts[h]
        PROVE  ToldBefore(e.queue, g, h) \/ (e.confs[g] = "removed" /\ ~Told(e.queue, g))
    <3>1. CASE i \in d.parts[h]
      <4>1. ToldBefore(d.queue, g, h) \/ (d.confs[g] = "removed" /\ ~Told(d.queue, g))
        BY <1>11, <3>1 DEF Excused
      <4>2. d.confs[g] = "removed" => g # f
        OBVIOUS
      <4> QED
        BY <1>1, <4>1, <4>2 DEF Telling
    <3>2. CASE i \notin d.parts[h]
      <4>1. h = f /\ i \in I /\ g # f
        BY <1>1, <2>2, <3>2
      <4>2. i \notin d.parts[g] /\ d.calls[i] = "current"
        BY <1>2, <4>1
      <4>3. Told(d.queue, g) \/ d.confs[g] = "removed"
        BY <1>11, <4>2 DEF Excused, FinalCall
      <4>4. CASE Told(d.queue, g)
        BY <4>1, <4>4 DEF Telling
      <4>5. CASE ~Told(d.queue, g)
        <5>1. ~Told(e.queue, g)
          BY <4>1, <4>5 DEF Telling
        <5> QED
          BY <1>1, <4>1, <4>3, <4>5, <5>1
      <4> QED
        BY <4>4, <4>5
    <3> QED
      BY <3>1, <3>2
  <2> QED
    BY <2>1, <2>2 DEF Excused
<1>12. ASSUME NEW g \in ConfId, m.known[g] \in Rows(m) PROVE Faithful(m, e, g)
  <2>1. /\ \A i \in d.parts[g] : Told(d.queue, g) \/ Under(m, i, g)
        /\ \A c \in Kids(m, m.known[g]) : Excused(d, g, m.call[c].id)
    BY <1>3, <1>12 DEF Core, Faithful
  <2>2. m.known[g] \in 1..Size(m)
    BY <1>12, FormedFacts
  <2>3. \A c \in Kids(m, m.known[g]) : m.call[c].id \in CallId
    BY <2>2, FormedFacts
  <2>4. \A i \in e.parts[g] : Told(e.queue, g) \/ Under(m, i, g)
    BY <1>1, <2>1 DEF Telling
  <2>5. \A c \in Kids(m, m.known[g]) : Excused(e, g, m.call[c].id)
    BY <1>11, <2>1, <2>3
  <2> QED
    BY <2>4, <2>5 DEF Faithful
<1>13. Core(m, e, {})
  BY <1>6, <1>10, <1>12 DEF Core, Faithful
<1> QED
  BY <1>5, <1>13 DEF Fits

\* Two conferences are merged.
LEMMA MergedFits ==
  ASSUME NEW m \in Formed, NEW d \in Rings, Fits(m, d), NEW f \in ConfId, NEW g \in ConfId, f # g
  PROVE  Fits(m, Merged(d, f, g))
<1>1. CASE ~\A h \in {f, g} : d.confs[h] = "live" /\ d.parts[h] # {}
  BY <1>1 DEF Merged
<1>2. CASE \A h \in {f, g} : d.confs[h] = "live" /\ d.parts[h] # {}
  <2> DEFINE P == d.parts[f]
             q == Append(d.queue, [signal |-> "conferenceChanged", id |-> g, state |-> ""])
             r == Append(q, [signal |-> "conferenceRemoved", id |-> f, state |-> ""])
             p == [d.parts EXCEPT ![f] = {}, ![g] = @ \cup P]
             c == [d.confs EXCEPT ![f] = "removed"]
             e == [d EXCEPT !.confs = c, !.parts = p, !.queue = r]
  <2>1. Merged(d, f, g) = e
    BY <1>2 DEF Merged, Emit, Rings
  <2>2. Telling(d.queue, q, g, "conferenceChanged")
    BY TellingSignal DEF Rings
  <2> HIDE DEF q
  <2>3. q \in Seq(Signals)
    BY <2>2 DEF Telling
  <2>4. Finishing(q, r, f)
    BY <2>3, FinishingSignal
  <2>5. /\ p \in [ConfId -> SUBSET CallId] /\ p[f] = {} /\ p[g] = d.parts[g] \cup P
        /\ \A h \in ConfId : h # f /\ h # g => p[h] = d.parts[h]
        /\ c \in [ConfId -> {"free", "live", "removed"}] /\ c[f] = "removed"
        /\ \A h \in ConfId : h # f => c[h] = d.confs[h]
    BY DEF Rings
  <2> HIDE DEF r, p, c
  <2>6. e \in Rings /\ e.confs = c /\ e.parts = p /\ e.queue = r /\ e.calls = d.calls
    BY <2>4, <2>5 DEF Rings, Finishing
  <2> HIDE DEF e
  <2>7. /\ \A h \in ConfId :
             /\ Silent(r, h) <=> Silent(d.queue, h) /\ h # f /\ h # g
             /\ Creating(r, h) <=> Creating(d.queue, h)
             /\ Ending(r, h) <=> Ending(d.queue, h) \/ h = f
             /\ Told(d.queue, h) => Told(r, h)
             /\ h # g => (Told(r, h) <=> Told(d.queue, h))
             /\ First(d.queue, h) => First(r, h)
        /\ Told(r, g)
        /\ \A h, k \in ConfId : ToldBefore(r, h, k) <=> ToldBefore(d.queue, h, k) \/ (Told(d.queue, h) /\ k = g)
        /\ \A i : Reported(r, i) <=> Reported(d.queue, i)
        /\ \A i : \A h \in ConfId :
             ReportedBefore(r, i, h) <=> ReportedBefore(d.queue, i, h) \/ (Reported(d.queue, i) /\ h = g)
    BY <2>2, <2>4 DEF Telling, Finishing
  <2>8. Orderly(d) /\ Core(m, d, {})
    BY DEF Fits
  <2>9. /\ \A i \in d.parts[f] : i \notin d.parts[g]
        /\ \A h \in ConfId : h # f /\ h # g => d.parts[h] \cap d.parts[f] = {} /\ d.parts[h] \cap d.parts[g] = {}
    BY <2>8 DEF Orderly
  <2>10. d.confs[f] = "live" /\ d.confs[g] = "live" /\ d.parts[g] # {} /\ P = d.parts[f]
    BY <1>2
  <2> HIDE DEF P
  <2>11. Orderly(e)
    <3>1. \A h \in ConfId : p[h] # {} => c[h] = "live"
      BY <2>5, <2>8, <2>10 DEF Orderly
    <3>2. \A h \in ConfId : \A i \in p[h] : d.calls[i] = "current"
      BY <2>5, <2>8, <2>10 DEF Orderly
    <3>3. ASSUME NEW h \in ConfId, NEW k \in ConfId \ {h} PROVE p[h] \cap p[k] = {}
      <4>1. d.parts[h] \cap d.parts[k] = {}
        BY <2>8 DEF Orderly
      <4>2. CASE h = f \/ k = f
        BY <2>5, <4>2
      <4>3. CASE h # f /\ k # f /\ h = g
        BY <2>5, <2>9, <2>10, <4>1, <4>3
      <4>4. CASE h # f /\ k # f /\ k = g
        BY <2>5, <2>9, <2>10, <4>1, <4>4
      <4>5. CASE h # f /\ k # f /\ h # g /\ k # g
        BY <2>5, <4>1, <4>5
      <4> QED
        BY <4>2, <4>3, <4>4, <4>5
    <3>4. \A h \in ConfId : c[h] = "free" => Silent(r, h)
      BY <2>5, <2>7, <2>8, <2>10 DEF Orderly
    <3>5. \A h \in ConfId : First(r, h)
      BY <2>7, <2>8 DEF Orderly
    <3>6. ASSUME NEW h \in ConfId, Ending(r, h) PROVE c[h] = "removed"
      <4>1. h # f => d.confs[h] = "removed"
        BY <2>7, <2>8, <3>6 DEF Orderly
      <4> QED
        BY <2>5, <4>1
    <3> QED
      BY <2>6, <3>1, <3>2, <3>3, <3>4, <3>5, <3>6 DEF Orderly
  <2>12. Announced(m, e)
    BY <2>6, <2>7, <2>8 DEF Core, Announced
  <2>13. ASSUME NEW h \in ConfId PROVE Recorded(m, e, h)
    <3>1. Recorded(m, d, h) /\ Recorded(m, d, f)
      BY <2>8 DEF Core
    <3>2. ASSUME NEW i \in p[h], m.known[i] = 0 PROVE ReportedBefore(r, i, h)
      <4>1. CASE i \in d.parts[h]
        BY <2>7, <3>1, <3>2, <4>1 DEF Recorded
      <4>2. CASE i \notin d.parts[h]
        <5>1. h = g /\ i \in d.parts[f]
          BY <2>5, <2>10, <3>2, <4>2
        <5>2. ReportedBefore(d.queue, i, f)
          BY <3>1, <3>2, <5>1 DEF Recorded
        <5>3. Reported(d.queue, i)
          BY <5>2 DEF ReportedBefore, Reported
        <5> QED
          BY <2>7, <5>1, <5>3
      <4> QED
        BY <4>1, <4>2
    <3>3. Creating(r, h) <=> Creating(d.queue, h)
      BY <2>7
    <3>4. CASE h = f
      <4>1. Ending(r, h)
        BY <2>7, <3>4
      <4> QED
        BY <2>5, <2>6, <2>10, <3>1, <3>2, <3>3, <3>4, <4>1 DEF Recorded, Doomed
    <3>5. CASE h = g
      BY <2>5, <2>6, <2>10, <3>1, <3>2, <3>3, <3>5 DEF Recorded, Doomed
    <3>6. CASE h # f /\ h # g
      <4>1. Ending(r, h) <=> Ending(d.queue, h)
        BY <2>7, <3>6
      <4>2. c[h] = d.confs[h] /\ p[h] = d.parts[h]
        BY <2>5, <3>6
      <4> QED
        BY <2>6, <3>1, <3>2, <3>3, <4>1, <4>2 DEF Recorded, Doomed
    <3> QED
      BY <3>4, <3>5, <3>6
  <2>14. ASSUME NEW h \in ConfId, NEW i \in CallId, Excused(d, h, i) PROVE Excused(e, h, i)
    <3>1. ASSUME i \notin p[h]
          PROVE  Told(r, h) \/ c[h] = "removed" \/ (p[h] = {} /\ d.calls[i] \in FinalCall)
      <4>1. CASE h = f
        BY <2>5, <4>1
      <4>2. CASE h = g
        BY <2>7, <4>2
      <4>3. CASE h # f /\ h # g
        BY <2>5, <2>7, <2>14, <3>1, <4>3 DEF Excused
      <4> QED
        BY <4>1, <4>2, <4>3
    <3>2. ASSUME NEW k \in ConfId \ {h}, i \in p[k]
          PROVE  ToldBefore(r, h, k) \/ (c[h] = "removed" /\ ~Told(r, h))
      <4>1. ASSUME NEW l \in ConfId \ {h}, i \in d.parts[l]
            PROVE  ToldBefore(d.queue, h, l) \/ (d.confs[h] = "removed" /\ ~Told(d.queue, h))
        BY <2>14, <4>1 DEF Excused
      <4>2. d.confs[h] = "removed" /\ ~Told(d.queue, h) => c[h] = "removed" /\ ~Told(r, h)
        BY <2>5, <2>7, <2>10
      <4>3. CASE i \in d.parts[k]
        BY <2>7, <4>1, <4>2, <4>3
      <4>4. CASE i \notin d.parts[k]
        <5>1. k = g /\ i \in d.parts[f]
          BY <2>5, <2>10, <3>2, <4>4
        <5>2. CASE h = f
          <6>1. CASE Told(d.queue, f)
            BY <2>7, <5>1, <5>2, <6>1
          <6>2. CASE ~Told(d.queue, f)
            BY <2>5, <2>7, <5>2, <6>2
          <6> QED
            BY <6>1, <6>2
        <5>3. CASE h # f
          <6>1. ToldBefore(d.queue, h, f) \/ (d.confs[h] = "removed" /\ ~Told(d.queue, h))
            BY <4>1, <5>1, <5>3
          <6>2. ToldBefore(d.queue, h, f) => Told(d.queue, h)
            BY DEF ToldBefore, Told
          <6> QED
            BY <2>7, <4>2, <5>1, <6>1, <6>2
        <5> QED
          BY <5>2, <5>3
      <4> QED
        BY <4>3, <4>4
    <3> QED
      BY <2>6, <3>1, <3>2 DEF Excused
  <2>15. ASSUME NEW h \in ConfId, m.known[h] \in Rows(m) PROVE Faithful(m, e, h)
    <3>1. /\ \A i \in d.parts[h] : Told(d.queue, h) \/ Under(m, i, h)
          /\ \A k \in Kids(m, m.known[h]) : Excused(d, h, m.call[k].id)
      BY <2>8, <2>15 DEF Core, Faithful
    <3>2. m.known[h] \in 1..Size(m)
      BY <2>15, FormedFacts
    <3>3. \A k \in Kids(m, m.known[h]) : m.call[k].id \in CallId
      BY <3>2, FormedFacts
    <3>4. \A i \in p[h] : Told(r, h) \/ Under(m, i, h)
      BY <2>5, <2>7, <3>1
    <3>5. \A k \in Kids(m, m.known[h]) : Excused(e, h, m.call[k].id)
      BY <2>14, <3>1, <3>3
    <3> QED
      BY <2>6, <3>4, <3>5 DEF Faithful
  <2>16. Core(m, e, {})
    BY <2>12, <2>13, <2>15 DEF Core, Faithful
  <2> QED
    BY <2>1, <2>11, <2>16 DEF Fits
<1> QED
  BY <1>1, <1>2

\* Two calls are joined.
LEMMA JoinedFits ==
  ASSUME NEW m \in Formed, m.started, NEW d \in Rings, Fits(m, d), NEW i \in CallId, NEW j \in CallId
  PROVE  Fits(m, Joined(d, i, j))
<1>1. CASE ~(/\ \A k \in {i, j} : d.calls[k] = "current" /\ ConferencesOf(d, k) = {}
             /\ \E f \in ConfId : d.confs[f] = "free")
  BY <1>1 DEF Joined
<1>2. CASE /\ \A k \in {i, j} : d.calls[k] = "current" /\ ConferencesOf(d, k) = {}
           /\ \E f \in ConfId : d.confs[f] = "free"
  <2> DEFINE f == CHOOSE f \in ConfId : d.confs[f] = "free"
             I == {i, j}
             s == "conferenceCreated"
             r == Append(d.queue, [signal |-> s, id |-> f, state |-> ""])
             p == [d.parts EXCEPT ![f] = @ \cup I]
             c == [d.confs EXCEPT ![f] = "live"]
             e == [d EXCEPT !.confs = c, !.parts = p, !.queue = r]
  <2>1. f \in ConfId /\ d.confs[f] = "free"
    BY <1>2
  <2>2. d.parts[f] = {}
    BY <2>1 DEF Fits, Orderly
  <2>3. Joined(d, i, j) = Emit([d EXCEPT !.confs[f] = "live", !.parts[f] = I], s, f, "")
    BY <1>2 DEF Joined
  <2> HIDE DEF f
  <2>4. p = [d.parts EXCEPT ![f] = I]
    BY <2>2
  <2>5. Joined(d, i, j) = e
    BY <2>3, <2>4 DEF Emit, Rings
  <2>6. Telling(d.queue, r, f, s)
    BY <2>1, TellingSignal DEF Rings
  <2>7. I \in SUBSET CallId /\ \A k \in I : d.calls[k] = "current" /\ ConferencesOf(d, k) = {}
    BY <1>2
  <2>8. p \in [ConfId -> SUBSET CallId] /\ c \in [ConfId -> {"free", "live", "removed"}]
    BY <2>1, <2>7 DEF Rings
  <2> HIDE DEF r, I
  <2>9. e \in Rings /\ e.confs = c /\ e.parts = p /\ e.queue = r /\ e.calls = d.calls
    <3> HIDE DEF p, c
    <3> QED
      BY <2>6, <2>8 DEF Rings, Telling
  <2> HIDE DEF e
  <2>10. \/ s = "conferenceCreated" /\ d.confs[f] = "free"
         \/ s = "conferenceChanged" /\ d.confs[f] = "live" /\ d.parts[f] # {}
    BY <2>1
  <2> HIDE DEF s
  <2>11. Fits(m, e)
    BY <2>1, <2>6, <2>7, <2>9, <2>10, GainedFits
  <2> QED
    BY <2>5, <2>11
<1> QED
  BY <1>1, <1>2

\* A call is added to a conference.
LEMMA AddsFits ==
  ASSUME NEW m \in Formed, m.started, NEW d \in Rings, Fits(m, d), NEW i \in CallId, NEW f \in ConfId,
         d.calls[i] = "current", ConferencesOf(d, i) = {}, d.confs[f] = "live", d.parts[f] # {}
  PROVE  Fits(m, Emit([d EXCEPT !.parts[f] = @ \cup {i}], "conferenceChanged", f, ""))
<1> DEFINE I == {i}
           s == "conferenceChanged"
           r == Append(d.queue, [signal |-> s, id |-> f, state |-> ""])
           p == [d.parts EXCEPT ![f] = @ \cup I]
           e == [d EXCEPT !.parts = p, !.queue = r]
<1>1. Emit([d EXCEPT !.parts[f] = @ \cup {i}], "conferenceChanged", f, "") = e
  BY DEF Emit, Rings
<1>2. Telling(d.queue, r, f, s)
  BY TellingSignal DEF Rings
<1>3. I \in SUBSET CallId /\ \A k \in I : d.calls[k] = "current" /\ ConferencesOf(d, k) = {}
  OBVIOUS
<1>4. p \in [ConfId -> SUBSET CallId]
  BY <1>3 DEF Rings
<1> HIDE DEF r, I
<1>5. e \in Rings /\ e.confs = d.confs /\ e.parts = p /\ e.queue = r /\ e.calls = d.calls
  <2> HIDE DEF p
  <2> QED
    BY <1>2, <1>4 DEF Rings, Telling
<1>6. d.confs = [d.confs EXCEPT ![f] = "live"]
  BY DEF Rings
<1> HIDE DEF e
<1>7. Fits(m, e)
  BY <1>2, <1>3, <1>5, <1>6, GainedFits
<1> QED
  BY <1>1, <1>7

\* A call that is in no conference is announced.
LEMMA AnnouncedShrunk ==
  ASSUME NEW d \in Rings, Orderly(d), NEW e \in Rings, e.confs = d.confs, e.parts = d.parts,
         Calling(d.queue, e.queue),
         \A i \in CallId : \/ e.calls[i] = d.calls[i]
                           \/ d.calls[i] = "free" /\ e.calls[i] \notin {"current"} \cup FinalCall
  PROVE  e \in Shrunk(d)
<1>1. \A f \in ConfId : \A i \in d.parts[f] : i \in CallId /\ d.calls[i] = "current"
  BY DEF Orderly, Rings
<1>2. Orderly(e)
  BY <1>1 DEF Orderly, Calling
<1>3. \A i \in CallId : /\ d.calls[i] \in FinalCall => e.calls[i] \in FinalCall
                        /\ e.calls[i] = "current" => d.calls[i] = "current"
  BY DEF FinalCall
<1> QED
  BY <1>2, <1>3 DEF Shrunk, Calling

LEMMA CallingReflexive ==
  ASSUME NEW d \in Rings
  PROVE  Calling(d.queue, d.queue)
BY DEF Calling, Rings

\* What the daemon does by itself.
LEMMA RingFits ==
  ASSUME model \in Formed, ring \in Rings, ~EarlySignals, Fits(model, ring), Ring
  PROVE  Fits(model, ring')
<1>2. model' = model /\ RoomInQueue /\ model.started
  BY StartedWhenRoom DEF Ring, RingReceives, RingAnnouncesLate, RingDials, RingMoves, RingForgets,
         RingDissolves, RingAdds
<1>3. Orderly(ring)
  BY DEF Fits
<1>4. /\ {"incoming", "connecting", "ringing", "current", "gone"} \subseteq DaemonCall \ {"free"}
      /\ {"INCOMING", "CONNECTING", "RINGING", "CURRENT", "OVER"} \subseteq DaemonReports
      /\ Endings \subseteq DaemonReports
  BY EndingsAssumption DEF DaemonCall, Alive, DaemonReports
<1>5. \A i \in CallId : ring.calls[i] # "current" => ConferencesOf(ring, i) = {}
  BY <1>3 DEF Orderly, ConferencesOf
<1>6. SUFFICES ring' \in Shrunk(ring) \/ Fits(model, ring')
  BY ShrunkFits
<1>7. CASE RingReceives
  <2>1. PICK i \in CallId :
          /\ ring.calls[i] = "free"
          /\ LET announced == Emit([ring EXCEPT !.calls[i] = "incoming"], "incomingCall", i, "")
             IN  ring' \in {Moved(announced, i, "incoming", "INCOMING"),
                            [Moved(ring, i, "incoming", "INCOMING") EXCEPT !.late = @ \cup {i}]}
    BY <1>7 DEF RingReceives
  <2> DEFINE x == [signal |-> "incomingCall", id |-> i, state |-> ""]
             r == Append(ring.queue, x)
             a == [ring.calls EXCEPT ![i] = "incoming"]
             announced == [ring EXCEPT !.calls = a, !.queue = r]
             first == Moved(announced, i, "incoming", "INCOMING")
             moved == Moved(ring, i, "incoming", "INCOMING")
             other == [moved EXCEPT !.late = @ \cup {i}]
  <2>2. Emit([ring EXCEPT !.calls[i] = "incoming"], "incomingCall", i, "") = announced
    BY DEF Emit, Rings
  <2>3. ring' \in {first, other}
    BY <2>1, <2>2
  <2>4. x \in Signals /\ x.id \in CallId
    BY DEF Signals
  <2>5. ring.queue \in Seq(Signals)
    BY DEF Rings
  <2> HIDE DEF x
  <2>6. Calling(ring.queue, r)
    BY <2>4, <2>5, CallSignal
  <2>7. a \in [CallId -> DaemonCall] /\ a[i] = "incoming" /\ \A j \in CallId : j # i => a[j] = ring.calls[j]
    BY <1>4 DEF Rings
  <2> HIDE DEF r, a
  <2>8. /\ announced \in Rings /\ announced.confs = ring.confs /\ announced.parts = ring.parts
        /\ announced.queue = r /\ announced.calls = a
    BY <2>6, <2>7 DEF Rings, Calling
  <2> HIDE DEF announced
  <2>9. /\ first \in Rings /\ first.confs = announced.confs /\ first.parts = announced.parts
        /\ first.calls[i] = "incoming"
        /\ \A j \in CallId : j # i => first.calls[j] = announced.calls[j]
        /\ Calling(announced.queue, first.queue)
    <3>1. announced \in Rings /\ "incoming" \in DaemonCall /\ "INCOMING" \in DaemonReports
      BY <1>4, <2>8
    <3> QED
      BY <3>1, MovedCalling
  <2>10. /\ moved \in Rings /\ moved.confs = ring.confs /\ moved.parts = ring.parts
         /\ moved.calls[i] = "incoming"
         /\ \A j \in CallId : j # i => moved.calls[j] = ring.calls[j]
         /\ Calling(ring.queue, moved.queue)
    BY <1>4, MovedCalling
  <2> HIDE DEF first, moved
  <2>11. Calling(ring.queue, first.queue)
    BY <2>6, <2>8, <2>9, CallingThen
  <2>12. /\ other \in Rings /\ other.confs = ring.confs /\ other.parts = ring.parts
         /\ other.calls = moved.calls /\ other.queue = moved.queue
    BY <2>10 DEF Rings
  <2> HIDE DEF other
  <2>13. "incoming" \notin {"current"} \cup FinalCall
    BY DEF FinalCall
  <2>14. \A j \in CallId : \/ first.calls[j] = ring.calls[j]
                           \/ ring.calls[j] = "free" /\ first.calls[j] \notin {"current"} \cup FinalCall
    BY <2>1, <2>7, <2>8, <2>9, <2>13
  <2>15. \A j \in CallId : \/ other.calls[j] = ring.calls[j]
                           \/ ring.calls[j] = "free" /\ other.calls[j] \notin {"current"} \cup FinalCall
    BY <2>1, <2>10, <2>12, <2>13
  <2>16. first \in Shrunk(ring)
    BY <1>3, <2>8, <2>9, <2>11, <2>14, AnnouncedShrunk
  <2>17. other \in Shrunk(ring)
    BY <1>3, <2>10, <2>12, <2>15, AnnouncedShrunk
  <2> QED
    BY <2>3, <2>16, <2>17
<1>8. CASE RingAnnouncesLate
  <2>1. PICK i \in ring.late :
          ring' = Emit([ring EXCEPT !.late = @ \ {i}], "incomingCall", i, "")
    BY <1>8 DEF RingAnnouncesLate
  <2> DEFINE x == [signal |-> "incomingCall", id |-> i, state |-> ""]
             r == Append(ring.queue, x)
             l == ring.late \ {i}
             e == [ring EXCEPT !.late = l, !.queue = r]
  <2>2. ring' = e
    BY <2>1 DEF Emit, Rings
  <2>3. i \in CallId /\ l \in SUBSET CallId /\ ring.queue \in Seq(Signals)
    BY DEF Rings
  <2>4. x \in Signals /\ x.id \in CallId
    BY <2>3 DEF Signals
  <2> HIDE DEF x, l
  <2>5. Calling(ring.queue, r)
    BY <2>3, <2>4, CallSignal
  <2> HIDE DEF r
  <2>6. /\ e \in Rings /\ e.confs = ring.confs /\ e.parts = ring.parts /\ e.queue = r
        /\ e.calls = ring.calls
    BY <2>3, <2>5 DEF Rings, Calling
  <2> HIDE DEF e
  <2>7. e \in Shrunk(ring)
    BY <1>3, <2>5, <2>6, AnnouncedShrunk
  <2> QED
    BY <2>2, <2>7
<1>9. CASE RingDials
  <2>1. PICK i \in CallId : ring.calls[i] = "free" /\ ring' = Moved(ring, i, "connecting", "CONNECTING")
    BY <1>9 DEF RingDials
  <2> QED
    BY <1>3, <1>4, <1>5, <2>1, MovedShrunk DEF FinalCall
<1>10. CASE RingMoves
  <2>1. PICK i \in CallId :
          \/ ring.calls[i] = "connecting" /\ ring' = Moved(ring, i, "ringing", "RINGING")
          \/ ring.calls[i] = "ringing" /\ ring' = Moved(ring, i, "current", "CURRENT")
          \/ \E s \in Endings : ring' = Ended(ring, i, s)
    BY <1>10 DEF RingMoves
  <2>2. ASSUME ring.calls[i] = "connecting", ring' = Moved(ring, i, "ringing", "RINGING")
        PROVE  ring' \in Shrunk(ring)
    BY <1>3, <1>4, <1>5, <2>2, MovedShrunk DEF FinalCall
  <2>3. ASSUME ring.calls[i] = "ringing", ring' = Moved(ring, i, "current", "CURRENT")
        PROVE  ring' \in Shrunk(ring)
    BY <1>3, <1>4, <1>5, <2>3, MovedShrunk DEF FinalCall
  <2>4. ASSUME NEW s \in Endings, ring' = Ended(ring, i, s) PROVE Fits(model, ring')
    BY <1>4, <2>4, EndedFits
  <2> QED
    BY <2>1, <2>2, <2>3, <2>4
<1>11. CASE RingForgets
  <2>1. PICK i \in CallId : ring.calls[i] = "ended" /\ ring' = Moved(ring, i, "gone", "OVER")
    BY <1>11 DEF RingForgets
  <2>2. "gone" \in FinalCall
    BY DEF FinalCall
  <2> QED
    BY <1>3, <1>4, <1>5, <2>1, <2>2, MovedShrunk
<1>12. CASE RingDissolves
  BY <1>3, <1>12, DissolvedShrunk DEF RingDissolves
<1>13. CASE RingAdds
  <2>1. PICK i \in CallId, f \in ConfId :
          /\ ring.calls[i] = "current" /\ ConferencesOf(ring, i) = {}
          /\ ring.confs[f] = "live" /\ ring.parts[f] # {}
          /\ ring' = Emit([ring EXCEPT !.parts[f] = @ \cup {i}], "conferenceChanged", f, "")
    BY <1>13 DEF RingAdds
  <2> QED
    BY <1>2, <2>1, AddsFits
<1> QED
  BY <1>7, <1>8, <1>9, <1>10, <1>11, <1>12, <1>13 DEF Ring

-----------------------------------------------------------------------------
(* The signals of calls.                                                   *)

\* The signal that is delivered is gone.
LEMMA TakenFields ==
  ASSUME NEW d \in Rings, d.queue # <<>>
  PROVE  LET t == Taken(d)
         IN  /\ t \in Rings /\ t.calls = d.calls /\ t.confs = d.confs /\ t.parts = d.parts
             /\ t.queue = Tail(d.queue) /\ t.queue \in Seq(Signals) /\ Head(d.queue) \in Signals
<1> DEFINE q == Tail(d.queue)
           t == [d EXCEPT !.queue = q]
<1>1. d.queue \in Seq(Signals)
  BY DEF Rings
<1>2. q \in Seq(Signals) /\ Head(d.queue) \in Signals
  BY <1>1, HeadTailProperties
<1> HIDE DEF q
<1>3. t \in Rings /\ t.calls = d.calls /\ t.confs = d.confs /\ t.parts = d.parts /\ t.queue = q
  BY <1>2 DEF Rings
<1> QED
  BY <1>2, <1>3 DEF Taken, q

\* One that is about a call, and does not say that it is established.
LEMMA OtherTakenFits ==
  ASSUME NEW m \in Formed, NEW d \in Rings, d.queue # <<>>, Fits(m, d),
         Head(d.queue).id \in CallId, ~Says(Head(d.queue), Head(d.queue).id)
  PROVE  Fits(m, Taken(d))
<1> DEFINE t == Taken(d)
           x == Head(d.queue)
           q == d.queue
           r == t.queue
<1>1. /\ t \in Rings /\ t.calls = d.calls /\ t.confs = d.confs /\ t.parts = d.parts
      /\ r = Tail(q) /\ r \in Seq(Signals) /\ q \in Seq(Signals)
  BY TakenFields DEF Rings
<1>2. \A f \in ConfId : x.id # f
  BY CallIdAssumption
<1>3. /\ \A f \in ConfId : ~Makes(x, f) /\ ~Ends(x, f) /\ ~Tells(x, f)
      /\ \A i : ~Says(x, i)
  BY <1>2 DEF Makes, Ends, Tells, Says
<1> HIDE DEF t, x, q, r
<1>4. x = Head(q) /\ q # <<>>
  BY DEF x, q
<1>5. /\ \A f : Silent(q, f) <=> Silent(r, f) /\ x.id # f
      /\ \A f : Creating(q, f) <=> Creating(r, f) \/ Makes(x, f)
      /\ \A f : Ending(q, f) <=> Ending(r, f) \/ Ends(x, f)
      /\ \A f : Told(q, f) <=> Told(r, f) \/ Tells(x, f)
      /\ \A i : Reported(q, i) <=> Reported(r, i) \/ Says(x, i)
      /\ \A f, g : ToldBefore(q, f, g) <=> ToldBefore(r, f, g) \/ (Tells(x, f) /\ Told(r, g))
      /\ \A i, f : ReportedBefore(q, i, f)
                     <=> ReportedBefore(r, i, f) \/ (Says(x, i) /\ Told(r, f))
      /\ \A f : First(q, f) => First(r, f)
  BY <1>1, <1>4, QueueTaken
<1>6. Calling(q, r)
  BY <1>1, <1>2, <1>3, <1>5 DEF Calling
<1>7. t \in Shrunk(d)
  BY <1>1, <1>6, AnnouncedShrunk DEF Fits, q, r
<1> QED
  BY <1>7, ShrunkFits DEF t

\* One that says that a call is established, once the list knows it.
LEMMA CurrentTakenFits ==
  ASSUME NEW n \in Formed, NEW d \in Rings, d.queue # <<>>, Fits(n, d),
         NEW i \in CallId, Head(d.queue).id = i, n.known[i] # 0 \/ d.calls[i] # "current"
  PROVE  Fits(n, Taken(d))
<1> DEFINE t == Taken(d)
           x == Head(d.queue)
           q == d.queue
           r == t.queue
<1>1. /\ t \in Rings /\ t.calls = d.calls /\ t.confs = d.confs /\ t.parts = d.parts
      /\ r = Tail(q) /\ r \in Seq(Signals) /\ q \in Seq(Signals)
  BY TakenFields DEF Rings
<1>2. \A f \in ConfId : x.id # f
  BY CallIdAssumption
<1>3. /\ \A f \in ConfId : ~Makes(x, f) /\ ~Ends(x, f) /\ ~Tells(x, f)
      /\ \A j : Says(x, j) => j = i
  BY <1>2 DEF Makes, Ends, Tells, Says
<1> HIDE DEF t, x, q, r
<1>4. x = Head(q) /\ q # <<>>
  BY DEF x, q
<1>5. /\ \A f : Silent(q, f) <=> Silent(r, f) /\ x.id # f
      /\ \A f : Creating(q, f) <=> Creating(r, f) \/ Makes(x, f)
      /\ \A f : Ending(q, f) <=> Ending(r, f) \/ Ends(x, f)
      /\ \A f : Told(q, f) <=> Told(r, f) \/ Tells(x, f)
      /\ \A j : Reported(q, j) <=> Reported(r, j) \/ Says(x, j)
      /\ \A f, g : ToldBefore(q, f, g) <=> ToldBefore(r, f, g) \/ (Tells(x, f) /\ Told(r, g))
      /\ \A j, f : ReportedBefore(q, j, f)
                     <=> ReportedBefore(r, j, f) \/ (Says(x, j) /\ Told(r, f))
      /\ \A f : First(q, f) => First(r, f)
  BY <1>1, <1>4, QueueTaken
<1>6. Orderly(d) /\ Core(n, d, {}) /\ d.queue = q /\ t.queue = r
  BY DEF Fits, q, r
<1>7. Orderly(t)
  BY <1>1, <1>2, <1>3, <1>5, <1>6 DEF Orderly
<1>8. Announced(n, t)
  BY <1>1, <1>3, <1>5, <1>6 DEF Core, Announced
<1>9. ASSUME NEW f \in ConfId PROVE Recorded(n, t, f)
  <2>1. Recorded(n, d, f) /\ \A j \in d.parts[f] : d.calls[j] = "current"
    BY <1>6 DEF Core, Orderly
  <2>2. \A j \in d.parts[f] : n.known[j] = 0 => ReportedBefore(r, j, f)
    BY <1>3, <1>5, <1>6, <2>1 DEF Recorded
  <2>3. (Creating(q, f) <=> Creating(r, f)) /\ (Ending(q, f) <=> Ending(r, f))
    BY <1>3, <1>5
  <2> QED
    BY <1>1, <1>6, <2>1, <2>2, <2>3 DEF Recorded, Doomed
<1>10. ASSUME NEW f \in ConfId PROVE Faithful(n, t, f)
  <2>1. Faithful(n, d, f)
    BY <1>6 DEF Core
  <2>2. Told(q, f) <=> Told(r, f)
    BY <1>3, <1>5
  <2>3. \A g \in ConfId : ToldBefore(q, f, g) <=> ToldBefore(r, f, g)
    BY <1>3, <1>5
  <2>4. \A j : Excused(d, f, j) => Excused(t, f, j)
    BY <1>1, <1>6, <2>2, <2>3 DEF Excused
  <2> QED
    BY <1>1, <1>6, <2>1, <2>2, <2>4 DEF Faithful
<1> QED
  BY <1>7, <1>8, <1>9, <1>10 DEF Fits, Core, t

LEMMA TameFits ==
  ASSUME NEW m \in Formed, NEW n \in Tame(m, {}), NEW d \in Rings, Fits(m, d)
  PROVE  n \in Formed /\ Fits(n, d)
<1> DEFINE X == {}
<1>1. \A f \in ConfId : m.known[f] # 0 /\ m.known[f] \in X => Doomed(d, f)
  OBVIOUS
<1>2. Core(n, d, {})
  <2>1. n \in Tame(m, X) /\ Core(m, d, {})
    BY DEF Fits
  <2> HIDE DEF X
  <2> QED
    BY <1>1, <2>1, CoreTame
<1> QED
  BY <1>2 DEF Fits, Tame

\* The user, or the account, accepts or refuses a call.
LEMMA PerformedFits ==
  ASSUME NEW m \in Formed, NEW d \in Rings, Fits(m, d), NEW o \in 1..Size(m), ~IsConference(m, o),
         NEW a \in {"ACCEPT", "REFUSE"}
  PROVE  LET done == Performed(m, d, o, a)
         IN  done.model \in Tame(m, {}) /\ Fits(done.model, done.ring)
<1> DEFINE n == Performed(m, d, o, a).model
           e == Performed(m, d, o, a).ring
           i == m.call[o].id
<1>1. n \in Tame(m, {})
  BY PerformedTame
<1>2. e \in {d, Accepted(d, i), HungUp(d, i)}
  BY DEF Performed
<1> HIDE DEF n, e, i
<1>3. n \in Formed /\ Fits(n, d)
  BY <1>1, TameFits
<1>4. Fits(n, Accepted(d, i)) /\ Fits(n, HungUp(d, i))
  BY <1>3, RequestsFit
<1>5. Fits(n, e)
  BY <1>2, <1>3, <1>4
<1> QED
  BY <1>1, <1>5 DEF n, e

LEMMA AddIncomingFits ==
  ASSUME NEW m \in Formed, NEW d \in Rings, Fits(m, d), NEW i \in CallId
  PROVE  LET done == addIncomingCall(m, d, i)
         IN  done.model \in Formed /\ Fits(done.model, done.ring)
<1> DEFINE done == addIncomingCall(m, d, i)
           c == NewCall("CALL", i, "INCOMING")
           built == IF m.known[i] = 0 THEN addCall(m, c) ELSE m
           action == IF m.answer = "AUTO_ANSWER" THEN "ACCEPT" ELSE "REFUSE"
           o == built.known[i]
           perf == Performed(built, d, o, action)
<1>0. m \in Typed /\ Size(m) \in Nat /\ i \in Ids
  BY TypedFacts DEF Formed, Ids
<1>1. done \in {[model |-> m, ring |-> d], [model |-> built, ring |-> d], perf}
  BY DEF addIncomingCall
<1>2. "INCOMING" \in Reached /\ "INCOMING" # "DIALING"
  BY DEF Reached, State
<1>3. Sane(c, Size(m)) /\ c.id = i /\ c.type = "CALL"
  BY <1>0, <1>2, NewCallOfId
<1> HIDE DEF c, done
<1>4. built \in Tame(m, {}) /\ o # 0
  <2>1. CASE m.known[i] # 0
    BY <2>1, TameReflexive
  <2>2. CASE m.known[i] = 0
    <3>1. addCall(m, c) \in Tame(m, {})
      BY <1>3, <2>2, AddCallTame
    <3>2. addCall(m, c).known[i] = Size(m) + 1
      BY <1>0, <1>3, AddCallFields
    <3>3. Size(m) + 1 # 0
      BY <1>0
    <3> QED
      BY <2>2, <3>1, <3>2, <3>3
  <2> QED
    BY <2>1, <2>2
<1> HIDE DEF built
<1>5. built \in Formed /\ Fits(built, d) /\ built \in Typed
  BY <1>4, TameFits DEF Formed
<1>6. o \in 1..Size(built) /\ ~IsConference(built, o)
  BY <1>0, <1>4, <1>5, KnownObject DEF IsConference
<1>7. action \in {"ACCEPT", "REFUSE"}
  OBVIOUS
<1> HIDE DEF o, action
<1>8. perf.model \in Tame(built, {}) /\ Fits(perf.model, perf.ring)
  BY <1>5, <1>6, <1>7, PerformedFits
<1> HIDE DEF perf
<1>9. perf.model \in Formed
  BY <1>8 DEF Tame
<1>10. done.model \in Formed /\ Fits(done.model, done.ring)
  BY <1>1, <1>5, <1>8, <1>9
<1> QED
  BY <1>10 DEF done

\* A signal that is about a call is delivered.
LEMMA CallDelivered ==
  ASSUME NEW m \in Formed, NEW d \in Rings, d.queue # <<>>, Fits(m, d), Head(d.queue).id \in CallId
  PROVE  LET done == Delivered(m, Taken(d), Head(d.queue))
         IN  done.model \in Formed /\ Fits(done.model, done.ring)
<1> DEFINE e == Head(d.queue)
           i == e.id
           t == Taken(d)
           done == Delivered(m, t, e)
<1>1. t \in Rings /\ e \in Signals /\ t.calls = d.calls /\ i \in CallId /\ i \in Ids
  BY TakenFields DEF Ids
<1>2. i \notin ConfId /\ m \in Typed
  BY CallIdAssumption DEF Formed
<1> HIDE DEF t
<1>3. CASE e.signal = "incomingCall"
  <2>1. ~Says(e, i)
    BY <1>3 DEF Says
  <2>2. Fits(m, t)
    BY <2>1, OtherTakenFits DEF t
  <2>3. done = addIncomingCall(m, t, i)
    BY <1>3 DEF Delivered
  <2> HIDE DEF e, i, done
  <2>4. addIncomingCall(m, t, i).model \in Formed
        /\ Fits(addIncomingCall(m, t, i).model, addIncomingCall(m, t, i).ring)
    BY <1>1, <2>2, AddIncomingFits
  <2> QED
    BY <2>3, <2>4 DEF done, t, e
<1>4. CASE e.signal = "callStateChanged"
  <2> DEFINE s == e.state
  <2>1. s \in DaemonReports
    BY <1>1, <1>4 DEF Signals
  <2>2. done = slotCallStateChanged(m, t, i, s)
    BY <1>4 DEF Delivered
  <2>3. s # "CURRENT" => Fits(m, t)
    <3>1. s # "CURRENT" => ~Says(e, i)
      BY DEF Says
    <3> QED
      BY <3>1, OtherTakenFits DEF t
  <2>4. ASSUME NEW n \in Tame(m, {}), s = "CURRENT", n.known[i] # 0 \/ d.calls[i] # "current"
        PROVE  n \in Formed /\ Fits(n, t)
    <3>1. n \in Formed /\ Fits(n, d)
      BY <2>4, TameFits
    <3> QED
      BY <1>1, <2>4, <3>1, CurrentTakenFits DEF t
  <2>5. ASSUME NEW n \in Tame(m, {}), s # "CURRENT" PROVE n \in Formed /\ Fits(n, t)
    BY <1>1, <2>3, <2>5, TameFits
  <2> HIDE DEF e, i, s, done
  <2>6. CASE m.known[i] # 0
    <3> DEFINE n == CallStateChanged(m, m.known[i], s)
    <3>1. m.known[i] \in 1..Size(m) /\ ~IsConference(m, m.known[i])
      BY <1>1, <1>2, <2>6, KnownObject DEF IsConference
    <3>2. n \in Tame(m, {})
      BY <2>1, <3>1, CallStateChangedTame
    <3>3. done = [model |-> n, ring |-> t]
      BY <2>2, <2>6 DEF slotCallStateChanged
    <3> HIDE DEF n
    <3>4. n.known[i] # 0
      BY <1>1, <2>6, <3>2 DEF Tame
    <3>5. n \in Formed /\ Fits(n, t)
      BY <2>4, <2>5, <3>2, <3>4
    <3> QED
      BY <3>3, <3>5 DEF done, t, e
  <2>7. CASE m.known[i] = 0 /\ s = "CONNECTING"
    <3>1. done = [model |-> m, ring |-> t]
      BY <2>2, <2>7 DEF slotCallStateChanged
    <3> QED
      BY <2>3, <2>7, <3>1 DEF done, t, e
  <2>8. CASE m.known[i] = 0 /\ s \in {"INCOMING", "RINGING"}
    <3>1. done = addIncomingCall(m, t, i)
      BY <2>2, <2>8 DEF slotCallStateChanged
    <3>2. Fits(m, t)
      BY <2>3, <2>8
    <3>3. addIncomingCall(m, t, i).model \in Formed
          /\ Fits(addIncomingCall(m, t, i).model, addIncomingCall(m, t, i).ring)
      BY <1>1, <3>2, AddIncomingFits
    <3> QED
      BY <3>1, <3>3 DEF done, t, e
  <2>9. CASE m.known[i] = 0 /\ s \notin {"CONNECTING", "INCOMING", "RINGING"}
    <3> DEFINE n == addExistingCall(m, t, i)
    <3>1. n \in Tame(m, {}) /\ (Known(t, i) => n.known[i] # 0)
      BY <1>1, <2>9, AddExistingTame
    <3>2. done = [model |-> n, ring |-> t]
      BY <2>2, <2>9 DEF slotCallStateChanged
    <3> HIDE DEF n
    <3>3. n.known[i] # 0 \/ d.calls[i] # "current"
      BY <1>1, <3>1 DEF Known, Alive
    <3>4. n \in Formed /\ Fits(n, t)
      BY <2>4, <2>5, <3>1, <3>3
    <3> QED
      BY <3>2, <3>4 DEF done, t, e
  <2> QED
    BY <2>6, <2>7, <2>8, <2>9
<1>5. e.signal \in {"incomingCall", "callStateChanged"}
  BY <1>1, <1>2 DEF Signals
<1> QED
  BY <1>3, <1>4, <1>5

-----------------------------------------------------------------------------
(* The signals of conferences: the rows of one are corrected.              *)

\* What a step of the correction of the rows of conference f does: the other conferences
\* lose only calls that a signal moves, and gain only participants.
Mild(m, d, f) ==
  {n \in From(m) :
     /\ n \in Formed
     /\ n.checks = m.checks /\ n.removals = m.removals
     /\ \A p \in 1..Size(m) : IsConference(m, p) =>
          /\ p \in Rows(n) <=> p \in Rows(m)
          /\ n.call[p].state = m.call[p].state \/ (p = m.known[f] /\ p \in Rows(m))
     /\ \A g \in ConfId \ {f} : m.known[g] # 0 =>
          /\ \A c \in Kids(n, m.known[g]) :
               c \in Kids(m, m.known[g]) \/ m.call[c].id \in d.parts[g]
          /\ \A i \in d.parts[g] : Told(d.queue, g) \/ (Under(m, i, g) => Under(n, i, g))}

LEMMA MildFacts ==
  ASSUME NEW m \in Formed, NEW d \in Rings, NEW f \in ConfId, NEW n \in Mild(m, d, f)
  PROVE  /\ n \in Formed /\ n \in Typed /\ m \in Typed /\ n \in From(m)
         /\ Size(n) = Size(m) /\ n.known = m.known
         /\ n.started = m.started /\ n.crashed = m.crashed
         /\ \A o \in 1..Size(m) : n.call[o].id = m.call[o].id /\ n.call[o].type = m.call[o].type
         /\ \A o \in 1..Size(m) : IsConference(n, o) <=> IsConference(m, o)
         /\ \A g \in ConfId : m.known[g] # 0 => m.known[g] \in 1..Size(m) /\ IsConference(m, m.known[g])
         /\ \A i \in CallId : m.known[i] # 0 =>
              m.known[i] \in 1..Size(m) /\ ~IsConference(m, m.known[i]) /\ m.call[m.known[i]].id = i
<1>1. n \in Formed /\ n \in Typed /\ m \in Typed /\ n \in From(m)
  BY DEF Mild, Formed
<1>2. /\ Size(n) = Size(m) /\ n.known = m.known
      /\ n.started = m.started /\ n.crashed = m.crashed
      /\ \A o \in 1..Size(m) : n.call[o].id = m.call[o].id /\ n.call[o].type = m.call[o].type
  BY <1>1 DEF From, Kept
<1>3. \A g \in ConfId : m.known[g] # 0 => m.known[g] \in 1..Size(m) /\ IsConference(m, m.known[g])
  BY <1>1, KnownObject DEF Ids, IsConference
<1>4. \A i \in CallId : m.known[i] # 0 =>
        m.known[i] \in 1..Size(m) /\ ~IsConference(m, m.known[i]) /\ m.call[m.known[i]].id = i
  BY <1>1, KnownObject, TypedFacts DEF Ids, IsConference
<1> QED
  BY <1>1, <1>2, <1>3, <1>4 DEF IsConference

LEMMA MildReflexive ==
  ASSUME NEW m \in Formed, NEW d, NEW f
  PROVE  m \in Mild(m, d, f)
<1>1. m \in From(m)
  BY KeptReflexive DEF Formed
<1> QED
  BY <1>1 DEF Mild

LEMMA MildThen ==
  ASSUME NEW m \in Formed, NEW d \in Rings, NEW f \in ConfId,
         NEW n \in Mild(m, d, f), NEW p \in Mild(n, d, f)
  PROVE  p \in Mild(m, d, f)
<1>1. /\ n \in Formed /\ n \in Typed /\ m \in Typed /\ n \in From(m)
      /\ Size(n) = Size(m) /\ n.known = m.known
      /\ \A o \in 1..Size(m) : n.call[o].id = m.call[o].id
      /\ \A o \in 1..Size(m) : IsConference(n, o) <=> IsConference(m, o)
      /\ \A g \in ConfId : m.known[g] # 0 => m.known[g] \in 1..Size(m) /\ IsConference(m, m.known[g])
  BY MildFacts
<1>2. p \in Formed /\ p \in From(n)
  BY <1>1, MildFacts
<1>3. p \in From(m)
  BY <1>1, <1>2, KeptTransitive
<1>4. p.checks = m.checks /\ p.removals = m.removals
  BY DEF Mild
<1>5. ASSUME NEW o \in 1..Size(m), IsConference(m, o)
      PROVE  /\ o \in Rows(p) <=> o \in Rows(m)
             /\ p.call[o].state = m.call[o].state \/ (o = m.known[f] /\ o \in Rows(m))
  BY <1>1, <1>5 DEF Mild
<1>6. ASSUME NEW g \in ConfId \ {f}, m.known[g] # 0
      PROVE  /\ \A c \in Kids(p, m.known[g]) :
                  c \in Kids(m, m.known[g]) \/ m.call[c].id \in d.parts[g]
             /\ \A i \in d.parts[g] : Told(d.queue, g) \/ (Under(m, i, g) => Under(p, i, g))
  <2>1. n.known[g] = m.known[g] /\ m.known[g] \in 1..Size(m)
    BY <1>1, <1>6
  <2>2. /\ \A c \in Kids(n, m.known[g]) :
             c \in Kids(m, m.known[g]) \/ m.call[c].id \in d.parts[g]
        /\ \A i \in d.parts[g] : Told(d.queue, g) \/ (Under(m, i, g) => Under(n, i, g))
    BY <1>6 DEF Mild
  <2>3. /\ \A c \in Kids(p, m.known[g]) :
             c \in Kids(n, m.known[g]) \/ n.call[c].id \in d.parts[g]
        /\ \A i \in d.parts[g] : Told(d.queue, g) \/ (Under(n, i, g) => Under(p, i, g))
    BY <1>6, <2>1 DEF Mild
  <2>4. \A c \in Kids(p, m.known[g]) : c \in 1..Size(m)
    <3>1. Size(p) = Size(n)
      BY <1>1, MildFacts
    <3> QED
      BY <1>1, <1>2, <2>1, <3>1, FormedFacts
  <2>5. \A c \in Kids(p, m.known[g]) : n.call[c].id = m.call[c].id
    BY <1>1, <2>4
  <2> QED
    BY <2>2, <2>3, <2>5
<1> QED
  BY <1>2, <1>3, <1>4, <1>5, <1>6 DEF Mild

\* The rest of the list stays right.
LEMMA CoreMild ==
  ASSUME NEW m \in Formed, NEW d \in Rings, NEW f \in ConfId, Orderly(d), Core(m, d, {f}),
         NEW n \in Mild(m, d, f)
  PROVE  Core(n, d, {f})
<1>1. /\ n \in Formed /\ n \in Typed /\ m \in Typed
      /\ Size(n) = Size(m) /\ n.known = m.known /\ n.started = m.started
      /\ \A o \in 1..Size(m) : n.call[o].id = m.call[o].id
      /\ \A g \in ConfId : m.known[g] # 0 => m.known[g] \in 1..Size(m) /\ IsConference(m, m.known[g])
  BY MildFacts
<1>2. Announced(n, d)
  BY <1>1 DEF Core, Announced
<1>3. 0 \notin Rows(m) /\ 0 \notin Rows(n)
  <2>1. \A k : 0 \notin 1..k
    OBVIOUS
  <2> QED
    BY <1>1, <2>1, FormedFacts
<1>4. Timed(n) = Timed(m)
  BY DEF Mild, Timed
<1>5. ASSUME NEW g \in ConfId PROVE Recorded(n, d, g)
  <2> DEFINE o == m.known[g]
  <2>1. Recorded(m, d, g) /\ n.known[g] = o
    BY <1>1 DEF Core
  <2>2. \A i \in d.parts[g] : n.known[i] = m.known[i]
    BY <1>1
  <2>3. o \in Rows(n) <=> o \in Rows(m)
    <3>1. CASE o = 0
      BY <1>3, <3>1
    <3>2. CASE o # 0
      BY <1>1, <3>2 DEF Mild
    <3> QED
      BY <3>1, <3>2
  <2>4. o # 0 /\ o \notin Rows(m) => n.call[o].state = m.call[o].state
    BY <1>1 DEF Mild
  <2> QED
    BY <1>4, <2>1, <2>2, <2>3, <2>4 DEF Recorded
<1>6. ASSUME NEW g \in ConfId \ {f} PROVE Faithful(n, d, g)
  <2> SUFFICES ASSUME n.known[g] \in Rows(n) PROVE Faithful(n, d, g)
    BY DEF Faithful
  <2>1. m.known[g] # 0 /\ n.known[g] = m.known[g] /\ m.known[g] \in 1..Size(m)
        /\ IsConference(m, m.known[g])
    BY <1>1, <1>3
  <2>2. m.known[g] \in Rows(m)
    BY <2>1 DEF Mild
  <2>3. /\ \A i \in d.parts[g] : Told(d.queue, g) \/ Under(m, i, g)
        /\ \A c \in Kids(m, m.known[g]) : Excused(d, g, m.call[c].id)
    BY <2>2 DEF Core, Faithful
  <2>4. /\ \A c \in Kids(n, m.known[g]) :
             c \in Kids(m, m.known[g]) \/ m.call[c].id \in d.parts[g]
        /\ \A i \in d.parts[g] : Told(d.queue, g) \/ (Under(m, i, g) => Under(n, i, g))
    BY <2>1 DEF Mild
  <2>5. \A i \in d.parts[g] : Excused(d, g, i)
    BY DEF Orderly, Excused
  <2>6. ASSUME NEW c \in Kids(n, n.known[g]) PROVE Excused(d, g, n.call[c].id)
    <3>1. c \in 1..Size(m)
      BY <1>1, <2>1, <2>6, FormedFacts
    <3>2. n.call[c].id = m.call[c].id
      BY <1>1, <3>1
    <3> QED
      BY <2>1, <2>3, <2>4, <2>5, <2>6, <3>2
  <2> QED
    BY <2>1, <2>3, <2>4, <2>6 DEF Faithful
<1> QED
  BY <1>2, <1>5, <1>6 DEF Core

\* How a step is shown to be one of those.
LEMMA MildBy ==
  ASSUME NEW m \in Formed, NEW d \in Rings, NEW f \in ConfId, NEW n \in From(m),
         n.checks = m.checks, n.removals = m.removals,
         \A p \in 1..Size(m) : IsConference(m, p) =>
           /\ Once(n.rows, p) /\ n.call[p].state \in {"CONFERENCE", "CURRENT", "OVER"}
           /\ p \in Rows(n) <=> p \in Rows(m)
           /\ n.call[p].state = m.call[p].state \/ (p = m.known[f] /\ p \in Rows(m))
           /\ \A c \in Kids(n, p) :
                \/ c \in Kids(m, p)
                \/ /\ m.call[c].id \in CallId
                   /\ \A g \in ConfId \ {f} : m.known[g] = p => m.call[c].id \in d.parts[g],
         \A i \in CallId : \A g \in ConfId \ {f} :
           i \in d.parts[g] /\ ~Told(d.queue, g) /\ m.known[g] # 0 /\ Under(m, i, g) => Under(n, i, g)
  PROVE  n \in Mild(m, d, f)
<1>1. /\ m \in Typed /\ n \in Typed /\ Size(n) = Size(m)
      /\ \A o \in 1..Size(m) : n.call[o].id = m.call[o].id /\ n.call[o].type = m.call[o].type
      /\ \A g \in ConfId : m.known[g] # 0 => m.known[g] \in 1..Size(m) /\ IsConference(m, m.known[g])
  BY KnownObject DEF Formed, From, Kept, Ids, IsConference
<1>2. n \in Formed
  <2> SUFFICES ASSUME NEW o \in 1..Size(m), IsConference(m, o), NEW c \in Kids(n, o)
               PROVE  n.call[c].id \in CallId
    BY <1>1 DEF Formed, WellFormed, IsConference
  <2>1. n.call[o].children \in Seq(1..Size(m))
    BY <1>1, ChildrenOf
  <2>2. c \in 1..Size(m)
    BY <2>1, ElementsOf DEF Kids
  <2>3. m.call[c].id \in CallId
    BY FormedFacts
  <2> QED
    BY <1>1, <2>2, <2>3
<1>3. \A g \in ConfId : d.parts[g] \subseteq CallId
  BY DEF Rings
<1>4. ASSUME NEW g \in ConfId \ {f}, m.known[g] # 0
      PROVE  /\ \A c \in Kids(n, m.known[g]) :
                  c \in Kids(m, m.known[g]) \/ m.call[c].id \in d.parts[g]
             /\ \A i \in d.parts[g] : Told(d.queue, g) \/ (Under(m, i, g) => Under(n, i, g))
  <2>1. m.known[g] \in 1..Size(m) /\ IsConference(m, m.known[g])
    BY <1>1, <1>4
  <2>2. \A c \in Kids(n, m.known[g]) :
          c \in Kids(m, m.known[g]) \/ m.call[c].id \in d.parts[g]
    BY <2>1
  <2>3. \A i \in d.parts[g] : Told(d.queue, g) \/ (Under(m, i, g) => Under(n, i, g))
    BY <1>3, <1>4
  <2> QED
    BY <2>2, <2>3
<1> QED
  BY <1>2, <1>4 DEF Mild

\* A call is taken out of the rows.
LEMMA MildOut ==
  ASSUME NEW m \in Formed, NEW d \in Rings, NEW f \in ConfId, NEW c \in 1..Size(m),
         ~IsConference(m, c)
  PROVE  removeInternal(m, c) \in Mild(m, d, f) /\ removeInternal(m, c).call = m.call
<1> DEFINE n == removeInternal(m, c)
           S == 1..Size(m)
<1>0. m \in Typed
  BY DEF Formed
<1>1. n \in From(m)
  BY <1>0, RestoredFrom
<1>2. /\ n.rows = RemoveFirst(m.rows, c) /\ n.call = m.call /\ n.known = m.known
      /\ n.checks = m.checks /\ n.removals = m.removals
  BY <1>0, TypedFacts DEF Models, removeInternal
<1>3. \A q \in S : /\ q # c => (q \in ToSet(RemoveFirst(m.rows, c)) <=> q \in ToSet(m.rows))
                   /\ Once(m.rows, q) => Once(RemoveFirst(m.rows, c), q)
  <2>1. m.rows \in Seq(S)
    BY <1>0, TypedFacts
  <2> HIDE DEF S
  <2> QED
    BY <2>1, RemovedFirst, RemovedOnce
<1> HIDE DEF n
<1>4. \A p \in 1..Size(m) : IsConference(m, p) => p # c /\ WellFormed(m, p)
  BY FormedFacts
<1>5. \A p \in 1..Size(m) : IsConference(m, p) =>
        Once(n.rows, p) /\ (p \in Rows(n) <=> p \in Rows(m))
  BY <1>2, <1>3, <1>4 DEF Rows, WellFormed
<1>6. \A p : Kids(n, p) = Kids(m, p)
  BY <1>2 DEF Kids
<1>7. \A i, g : Under(n, i, g) <=> Under(m, i, g)
  BY <1>2, <1>6 DEF Under
<1>8. n \in Mild(m, d, f)
  BY <1>1, <1>2, <1>4, <1>5, <1>6, <1>7, MildBy DEF WellFormed
<1> QED
  BY <1>2, <1>8 DEF n

\* Calls are put back into the rows.
LEMMA MildBack ==
  ASSUME NEW m \in Formed, NEW d \in Rings, NEW f \in ConfId, NEW s \in Seq(1..Size(m)),
         \A c \in ToSet(s) : ~IsConference(m, c), NEW n, n = [m EXCEPT !.rows = @ \o s]
  PROVE  n \in Mild(m, d, f) /\ n.call = m.call
<1> DEFINE S == 1..Size(m)
           r == m.rows \o s
<1>0. m \in Typed
  BY DEF Formed
<1>1. m.rows \in Seq(S) /\ s \in Seq(S)
  BY <1>0, TypedFacts
<1>2. r \in Seq(S) /\ ToSet(r) = ToSet(m.rows) \cup ToSet(s)
      /\ \A x : Once(m.rows, x) /\ x \notin ToSet(s) => Once(r, x)
  <2> HIDE DEF S
  <2>1. r \in Seq(S) /\ ToSet(r) = ToSet(m.rows) \cup ToSet(s)
    BY <1>1, ConcatSet, ConcatProperties
  <2>2. \A x : Once(m.rows, x) /\ x \notin ToSet(s) => Once(m.rows \o s, x)
    BY <1>1, ConcatOnce
  <2> QED
    BY <2>1, <2>2
<1>3. n = [m EXCEPT !.rows = r]
  OBVIOUS
<1> HIDE DEF r
<1>4. n \in From(m)
  BY <1>0, <1>2, <1>3, ListsFields
<1>5. /\ n.rows = r /\ n.call = m.call /\ n.known = m.known
      /\ n.checks = m.checks /\ n.removals = m.removals
  <2>1. m \in Models
    BY <1>0, TypedFacts
  <2> QED
    BY <1>3, <2>1 DEF Models
<1>6. \A p \in 1..Size(m) : IsConference(m, p) => p \notin ToSet(s) /\ WellFormed(m, p)
  BY FormedFacts
<1>7. \A p \in 1..Size(m) : IsConference(m, p) =>
        Once(n.rows, p) /\ (p \in Rows(n) <=> p \in Rows(m))
  BY <1>2, <1>5, <1>6 DEF Rows, WellFormed
<1>8. \A p : Kids(n, p) = Kids(m, p)
  BY <1>5 DEF Kids
<1>9. \A i, g : Under(n, i, g) <=> Under(m, i, g)
  BY <1>5, <1>8 DEF Under
<1>10. n \in Mild(m, d, f)
  BY <1>4, <1>5, <1>6, <1>7, <1>8, <1>9, MildBy DEF WellFormed
<1> QED
  BY <1>5, <1>10

Parented(m, c, p) == [m EXCEPT !.call[c].parent = p]
Peopled(m, o, s) == [m EXCEPT !.call[o].children = s]

\* The parent of a call is set.
LEMMA MildParent ==
  ASSUME NEW m \in Formed, NEW d \in Rings, NEW f \in ConfId, NEW c \in 1..Size(m),
         ~IsConference(m, c), NEW p \in 0..Size(m),
         \A g \in ConfId \ {f} : m.call[c].id \in d.parts[g] => Told(d.queue, g),
         NEW n, n = Parented(m, c, p)
  PROVE  /\ n \in Mild(m, d, f) /\ n.call[c].parent = p
         /\ \A q \in 1..Size(m) : /\ Kids(n, q) = Kids(m, q)
                                  /\ n.call[q].children = m.call[q].children
                                  /\ q # c => n.call[q].parent = m.call[q].parent
<1> DEFINE r == [m.call[c] EXCEPT !.parent = p]
<1>0. m \in Typed
  BY DEF Formed
<1>1. n \in From(m)
  BY <1>0, ParentFrom DEF IsConference, Parented
<1>2. m \in Models /\ DOMAIN m.call = 1..Size(m) /\ m.call[c] \in Record(Size(m))
  BY <1>0, TypedFacts
<1>3. r.children = m.call[c].children /\ r.state = m.call[c].state /\ r.parent = p
  BY <1>2 DEF Record
<1>4. /\ n.rows = m.rows /\ n.checks = m.checks /\ n.removals = m.removals
      /\ n.known = m.known /\ n.call = [m.call EXCEPT ![c] = r]
  BY <1>2 DEF Models, Parented
<1> HIDE DEF r
<1>5. n.call[c] = r /\ \A q \in 1..Size(m) : q # c => n.call[q] = m.call[q]
  BY <1>2, <1>4
<1>6. \A q \in 1..Size(m) : n.call[q].state = m.call[q].state /\ n.call[q].children = m.call[q].children
  BY <1>3, <1>5
<1>7. \A q \in 1..Size(m) : Kids(n, q) = Kids(m, q)
  BY <1>6 DEF Kids
<1>8. ASSUME NEW i \in CallId, NEW g \in ConfId \ {f}, i \in d.parts[g], ~Told(d.queue, g),
             m.known[g] # 0, Under(m, i, g)
      PROVE  Under(n, i, g)
  <2>1. m.known[i] # 0 /\ m.known[i] \in Kids(m, m.known[g]) /\ m.call[m.known[i]].parent = m.known[g]
    BY <1>8 DEF Under
  <2>2. m.known[i] \in 1..Size(m) /\ m.call[m.known[i]].id = i
    BY <1>0, <2>1, KnownObject, TypedFacts DEF Ids
  <2>3. m.known[i] # c
    BY <1>8, <2>2
  <2>4. m.known[g] \in 1..Size(m)
    BY <1>0, <1>8, KnownObject DEF Ids
  <2> QED
    BY <1>4, <1>5, <1>7, <2>1, <2>2, <2>3, <2>4 DEF Under
<1>9. \A q \in 1..Size(m) : IsConference(m, q) => WellFormed(m, q)
  BY FormedFacts
<1>10. n \in Mild(m, d, f)
  BY <1>1, <1>4, <1>6, <1>7, <1>8, <1>9, MildBy DEF WellFormed, Rows
<1> QED
  BY <1>3, <1>5, <1>6, <1>7, <1>10

\* The children of a conference are set.
LEMMA MildChildren ==
  ASSUME NEW m \in Formed, NEW d \in Rings, NEW f \in ConfId, NEW o \in 1..Size(m),
         NEW s \in Seq(1..Size(m)), IsConference(m, o) \/ s = <<>>,
         \A c \in ToSet(s) :
           \/ c \in Kids(m, o)
           \/ /\ m.call[c].id \in CallId
              /\ \A g \in ConfId \ {f} : m.known[g] = o => m.call[c].id \in d.parts[g],
         \A i \in CallId : \A g \in ConfId \ {f} :
           i \in d.parts[g] /\ ~Told(d.queue, g) /\ m.known[g] = o /\ m.known[i] # 0
             /\ m.known[i] \in Kids(m, o) => m.known[i] \in ToSet(s),
         NEW n, n = Peopled(m, o, s)
  PROVE  /\ n \in Mild(m, d, f) /\ n.call[o].children = s
         /\ \A q \in 1..Size(m) : /\ n.call[q].parent = m.call[q].parent
                                  /\ q # o => n.call[q].children = m.call[q].children
<1> DEFINE r == [m.call[o] EXCEPT !.children = s]
<1>0. m \in Typed
  BY DEF Formed
<1>1. n \in From(m)
  BY <1>0, ChildrenFrom DEF IsConference, Peopled
<1>2. m \in Models /\ DOMAIN m.call = 1..Size(m) /\ m.call[o] \in Record(Size(m))
  BY <1>0, TypedFacts
<1>3. r.children = s /\ r.state = m.call[o].state /\ r.parent = m.call[o].parent
  BY <1>2 DEF Record
<1>4. /\ n.rows = m.rows /\ n.checks = m.checks /\ n.removals = m.removals
      /\ n.known = m.known /\ n.call = [m.call EXCEPT ![o] = r]
  BY <1>2 DEF Models, Peopled
<1> HIDE DEF r
<1>5. n.call[o] = r /\ \A q \in 1..Size(m) : q # o => n.call[q] = m.call[q]
  BY <1>2, <1>4
<1>6. /\ \A q \in 1..Size(m) : n.call[q].state = m.call[q].state /\ n.call[q].parent = m.call[q].parent
      /\ Kids(n, o) = ToSet(s) /\ \A q \in 1..Size(m) : q # o => Kids(n, q) = Kids(m, q)
  BY <1>3, <1>5 DEF Kids
<1>7. ASSUME NEW i \in CallId, NEW g \in ConfId \ {f}, i \in d.parts[g], ~Told(d.queue, g),
             m.known[g] # 0, Under(m, i, g)
      PROVE  Under(n, i, g)
  <2>1. m.known[i] # 0 /\ m.known[i] \in Kids(m, m.known[g]) /\ m.call[m.known[i]].parent = m.known[g]
    BY <1>7 DEF Under
  <2>2. m.known[i] \in 1..Size(m) /\ m.known[g] \in 1..Size(m)
    BY <1>0, <1>7, <2>1, KnownObject DEF Ids
  <2>3. m.known[i] \in Kids(n, m.known[g])
    BY <1>6, <1>7, <2>1, <2>2
  <2> QED
    BY <1>4, <1>6, <2>1, <2>2, <2>3 DEF Under
<1>8. \A q \in 1..Size(m) : IsConference(m, q) => WellFormed(m, q)
  BY FormedFacts
<1>9. ASSUME NEW p \in 1..Size(m), IsConference(m, p), NEW c \in Kids(n, p)
      PROVE  \/ c \in Kids(m, p)
             \/ /\ m.call[c].id \in CallId
                /\ \A g \in ConfId \ {f} : m.known[g] = p => m.call[c].id \in d.parts[g]
  BY <1>6, <1>9
<1>10. \A p \in 1..Size(m) : IsConference(m, p) =>
         /\ Once(n.rows, p) /\ n.call[p].state \in {"CONFERENCE", "CURRENT", "OVER"}
         /\ p \in Rows(n) <=> p \in Rows(m)
         /\ n.call[p].state = m.call[p].state
  BY <1>4, <1>6, <1>8 DEF WellFormed, Rows
<1>11. n \in Mild(m, d, f)
  BY <1>1, <1>4, <1>7, <1>9, <1>10, MildBy
<1> QED
  BY <1>3, <1>5, <1>6, <1>11

\* The conference whose rows are corrected goes on.
LEMMA MildState ==
  ASSUME NEW m \in Formed, NEW d \in Rings, NEW f \in ConfId, m.known[f] \in Rows(m)
  PROVE  LET n == [m EXCEPT !.call[m.known[f]].state = "CONFERENCE"]
         IN  n \in Mild(m, d, f) /\ Kids(n, m.known[f]) = Kids(m, m.known[f])
<1> DEFINE o == m.known[f]
           n == [m EXCEPT !.call[o].state = "CONFERENCE"]
<1>0. m \in Typed /\ o \in 1..Size(m)
  BY FormedFacts
<1>1. "CONFERENCE" \in Reached \ {"DIALING"}
  BY DEF Reached, State
<1> HIDE DEF o
<1>2. /\ n \in From(m) /\ n.call[o] = Restated(m.call[o], "CONFERENCE")
      /\ n.rows = m.rows /\ n.checks = m.checks /\ n.removals = m.removals
      /\ \A p \in 1..Size(m) : p # o => n.call[p] = m.call[p]
  BY <1>0, <1>1, StateFrom
<1>3. m.call[o] \in Record(Size(m)) /\ n.known = m.known
  BY <1>0, <1>2, TypedFacts DEF From, Kept
<1> HIDE DEF n
<1>4. /\ n.call[o].state = "CONFERENCE" /\ n.call[o].parent = m.call[o].parent
      /\ n.call[o].children = m.call[o].children
  BY <1>2, <1>3 DEF Record, Restated
<1>5. \A p \in 1..Size(m) :
        /\ n.call[p].parent = m.call[p].parent
        /\ n.call[p].children = m.call[p].children
        /\ n.call[p].state = IF p = o THEN "CONFERENCE" ELSE m.call[p].state
  BY <1>2, <1>4
<1>6. \A p \in 1..Size(m) : Kids(n, p) = Kids(m, p)
  BY <1>5 DEF Kids
<1>7. ASSUME NEW i \in CallId, NEW g \in ConfId \ {f}, m.known[g] # 0, Under(m, i, g)
      PROVE  Under(n, i, g)
  <2>1. m.known[i] # 0
    BY <1>7 DEF Under
  <2>2. m.known[i] \in 1..Size(m) /\ m.known[g] \in 1..Size(m)
    BY <1>0, <1>7, <2>1, KnownObject DEF Ids
  <2> QED
    BY <1>3, <1>5, <1>6, <1>7, <2>2 DEF Under
<1>8. \A q \in 1..Size(m) : IsConference(m, q) => WellFormed(m, q)
  BY FormedFacts
<1>9. \A p \in 1..Size(m) : IsConference(m, p) =>
        /\ Once(n.rows, p) /\ n.call[p].state \in {"CONFERENCE", "CURRENT", "OVER"}
        /\ p \in Rows(n) <=> p \in Rows(m)
        /\ n.call[p].state = m.call[p].state \/ (p = m.known[f] /\ p \in Rows(m))
  BY <1>2, <1>5, <1>8 DEF WellFormed, Rows, o
<1>10. n \in Mild(m, d, f)
  BY <1>2, <1>6, <1>7, <1>9, MildBy
<1> QED
  BY <1>0, <1>6, <1>10 DEF n, o

\* A participant becomes a child of the conference.
LEMMA AdoptMild ==
  ASSUME NEW m \in Formed, NEW d \in Rings, NEW f \in ConfId, Orderly(d), NEW i \in d.parts[f],
         m.known[i] # 0, m.known[f] # 0
  PROVE  LET c == m.known[i]
             o == m.known[f]
             n == Adopt(m, o, c)
         IN  /\ n \in Mild(m, d, f) /\ n.call[c].parent = o
             /\ \A q \in 1..Size(m) : q # c => n.call[q].parent = m.call[q].parent
             /\ Kids(n, o) = Kids(m, o) \cup {c}
<1> DEFINE c    == m.known[i]
           o    == m.known[f]
           k    == Size(m)
           p    == m.call[c].parent
           fewer == Among(m.call[p].children, DOMAIN m.call \ {c})
           left == IF p \in {0, o} THEN m ELSE Peopled(m, p, fewer)
           kids == WithChild(left.call[o].children, c)
           out  == removeInternal(left, c)
           told == Parented(out, c, o)
           done == Peopled(told, o, kids)
<1>0. m \in Typed /\ i \in CallId /\ i \in Ids /\ f \in Ids
  BY DEF Formed, Rings, Ids
<1>1. /\ c \in 1..k /\ ~IsConference(m, c) /\ m.call[c].id = i
      /\ o \in 1..k /\ IsConference(m, o)
  BY <1>0, KnownObject, TypedFacts DEF IsConference
<1>2. \A g \in ConfId \ {f} : i \notin d.parts[g] /\ (m.known[g] # 0 => m.known[g] # o)
  <2>1. \A g \in ConfId \ {f} : i \notin d.parts[g]
    BY DEF Orderly
  <2>2. \A g \in ConfId : m.known[g] # 0 => m.call[m.known[g]].id = g
    BY <1>0, TypedFacts DEF Ids
  <2> QED
    BY <2>1, <2>2
<1>3. Adopt(m, o, c) = done
  <2>1. Adopt(m, o, c) = [out EXCEPT !.call[c].parent = o, !.call[o].children = kids]
    BY DEF Adopt, left, out, kids, WithChild, Peopled
  <2> QED
    BY <2>1 DEF Parented, Peopled
<1>4. /\ left \in Mild(m, d, f) /\ Kids(left, o) = Kids(m, o)
      /\ \A q \in 1..k : left.call[q].parent = m.call[q].parent
  <2>1. CASE p \in {0, o}
    BY <2>1, MildReflexive
  <2>2. CASE p \notin {0, o}
    <3>1. p \in 1..k
      <4>1. p \in 0..k /\ k \in Nat
        BY <1>0, <1>1, ChildrenOf, TypedFacts
      <4> HIDE DEF p, k
      <4> QED
        BY <2>2, <4>1, Ranges
    <3>1a. p # o
      BY <2>2
    <3>1b. left = Peopled(m, p, fewer)
      BY <2>2
    <3> HIDE DEF p, left
    <3>2. fewer \in Seq(1..k) /\ (IsConference(m, p) \/ fewer = <<>>)
      BY <1>0, <3>1, AmongChildren DEF IsConference
    <3>3. /\ \A q \in ToSet(fewer) : q \in Kids(m, p)
          /\ \A q \in Kids(m, p) : q # c => q \in ToSet(fewer)
      <4> DEFINE s == m.call[p].children
                 T == DOMAIN m.call \ {c}
                 R == ToSet(s)
      <4>1. s \in Seq(1..k) /\ DOMAIN m.call = 1..k
        BY <1>0, <3>1, ChildrenOf, TypedFacts
      <4>2. \A q \in ToSet(s) : q \in 1..k
        BY <4>1, ElementsOf
      <4>3. \A q \in ToSet(s) : q # c => q \in T
        BY <4>1, <4>2
      <4>3a. s \in Seq(R)
        <5>1. Len(s) \in Nat /\ DOMAIN s = 1..Len(s)
          BY <4>1
        <5>2. \A j \in 1..Len(s) : s[j] \in R
          BY <5>1 DEF ToSet
        <5> HIDE DEF R
        <5> QED
          BY <4>1, <5>1, <5>2
      <4> HIDE DEF s, T, k, R
      <4>4. \A q \in ToSet(s) \cap T : q \in ToSet(Among(s, T))
        BY <4>1, AmongIsPart
      <4>5. Among(s, T) \in Seq(R \cap T)
        BY <4>3a, AmongIsPart
      <4>6. ToSet(Among(s, T)) \subseteq R \cap T
        BY <4>5, ElementsOf
      <4> QED
        BY <4>3, <4>4, <4>6 DEF s, T, R, Kids
    <3>4. \A j \in CallId : \A g \in ConfId \ {f} :
            j \in d.parts[g] /\ ~Told(d.queue, g) /\ m.known[g] = p /\ m.known[j] # 0
              /\ m.known[j] \in Kids(m, p) => m.known[j] \in ToSet(fewer)
      <4> SUFFICES ASSUME NEW j \in CallId, NEW g \in ConfId \ {f}, j \in d.parts[g],
                          m.known[j] # 0, m.known[j] \in Kids(m, p)
                   PROVE  m.known[j] \in ToSet(fewer)
        OBVIOUS
      <4>1. m.call[m.known[j]].id = j /\ j # i
        BY <1>0, <1>2, TypedFacts DEF Ids
      <4>2. m.known[j] # c
        BY <1>1, <4>1
      <4> QED
        BY <3>3, <4>2
    <3> HIDE DEF fewer, o, c
    <3>5. /\ left \in Mild(m, d, f)
          /\ \A q \in 1..k : /\ left.call[q].parent = m.call[q].parent
                             /\ q # p => left.call[q].children = m.call[q].children
      BY <3>1, <3>1b, <3>2, <3>3, <3>4, MildChildren
    <3> QED
      BY <1>1, <3>1a, <3>5 DEF Kids
  <2> QED
    BY <2>1, <2>2
<1> HIDE DEF left, p
<1>5. /\ left \in Formed /\ left \in Typed /\ Size(left) = k /\ left.known = m.known
      /\ \A q \in 1..k : left.call[q].id = m.call[q].id /\ (IsConference(left, q) <=> IsConference(m, q))
  BY <1>4, MildFacts
<1>6. kids \in Seq(1..k) /\ ToSet(kids) = Kids(m, o) \cup {c}
  <2> DEFINE s == left.call[o].children
  <2>1. s \in Seq(1..k) /\ c \in 1..k /\ ToSet(s) = Kids(m, o)
    BY <1>1, <1>4, <1>5, ChildrenOf DEF Kids
  <2> HIDE DEF s, k
  <2>2. WithChild(s, c) \in Seq(1..k) /\ c \in ToSet(WithChild(s, c)) /\ ToSet(s) \subseteq ToSet(WithChild(s, c))
    BY <2>1, WithChildSet
  <2>3. ToSet(Append(s, c)) = ToSet(s) \cup {c}
    BY <2>1, AppendedSet
  <2>4. ToSet(WithChild(s, c)) \subseteq ToSet(s) \cup {c}
    BY <2>3 DEF WithChild
  <2> QED
    BY <2>1, <2>2, <2>4 DEF s
<1> HIDE DEF kids
<1>7. out \in Mild(left, d, f) /\ out.call = left.call
  BY <1>1, <1>5, MildOut
<1> HIDE DEF out
<1>8. /\ out \in Formed /\ out \in Typed /\ Size(out) = k /\ out.known = m.known
      /\ \A q \in 1..k : out.call[q].id = m.call[q].id /\ (IsConference(out, q) <=> IsConference(m, q))
      /\ \A x \in Mild(out, d, f) : x \in Mild(left, d, f)
  BY <1>5, <1>7, MildFacts, MildThen
<1>9. \A g \in ConfId \ {f} : out.call[c].id \in d.parts[g] => Told(d.queue, g)
  BY <1>1, <1>2, <1>8
<1>9a. o \in 0..Size(out) /\ c \in 1..Size(out) /\ ~IsConference(out, c)
  BY <1>1, <1>8
<1>9b. told = Parented(out, c, o)
  OBVIOUS
<1> HIDE DEF told, o, c, k
<1>10. /\ told \in Mild(out, d, f) /\ told.call[c].parent = o
       /\ \A q \in 1..Size(out) : /\ Kids(told, q) = Kids(out, q)
                                  /\ q # c => told.call[q].parent = out.call[q].parent
  <2>1. out \in Formed
    BY <1>8
  <2> QED
    BY <1>9, <1>9a, <1>9b, <2>1, MildParent
<1>11. /\ told \in Formed /\ told \in Typed /\ Size(told) = k /\ told.known = m.known
       /\ \A q \in 1..k : told.call[q].id = m.call[q].id /\ (IsConference(told, q) <=> IsConference(m, q))
       /\ \A x \in Mild(told, d, f) : x \in Mild(out, d, f)
  BY <1>8, <1>10, MildFacts, MildThen
<1>12. o \in 1..Size(told) /\ IsConference(told, o) /\ kids \in Seq(1..Size(told)) /\ Kids(told, o) = Kids(m, o)
  <2>1. Kids(out, o) = Kids(left, o)
    BY <1>7 DEF Kids
  <2> QED
    BY <1>1, <1>4, <1>6, <1>8, <1>10, <1>11, <2>1
<1>13. \A q \in ToSet(kids) :
         \/ q \in Kids(told, o)
         \/ /\ told.call[q].id \in CallId
            /\ \A g \in ConfId \ {f} : told.known[g] = o => told.call[q].id \in d.parts[g]
  <2>1. told.call[c].id = i /\ o # 0
    BY <1>1, <1>11 DEF o
  <2> QED
    BY <1>0, <1>2, <1>6, <1>11, <1>12, <2>1
<1>14. \A q \in Kids(told, o) : q \in ToSet(kids)
  BY <1>6, <1>12
<1>15. /\ done \in Mild(told, d, f) /\ done.call[o].children = kids
       /\ \A q \in 1..Size(told) : done.call[q].parent = told.call[q].parent
  <2>1. told \in Formed /\ done = Peopled(told, o, kids)
    BY <1>11
  <2>2. \A j \in CallId : \A g \in ConfId \ {f} :
          j \in d.parts[g] /\ ~Told(d.queue, g) /\ told.known[g] = o /\ told.known[j] # 0
            /\ told.known[j] \in Kids(told, o) => told.known[j] \in ToSet(kids)
    BY <1>14
  <2> HIDE DEF done
  <2> QED
    BY <1>12, <1>13, <2>1, <2>2, MildChildren
<1> HIDE DEF done
<1>16. done \in Mild(m, d, f)
  BY <1>4, <1>5, <1>8, <1>11, <1>15, MildThen
<1>17. done.call[c].parent = o /\ \A q \in 1..k : q # c => done.call[q].parent = m.call[q].parent
  BY <1>1, <1>4, <1>7, <1>8, <1>10, <1>11, <1>15
<1>18. Kids(done, o) = Kids(m, o) \cup {c}
  BY <1>6, <1>15 DEF Kids
<1> QED
  BY <1>3, <1>16, <1>17, <1>18 DEF o, c, k

\* The rows of conference f are its participants.
Filled(m, d, f) ==
  /\ \A i \in d.parts[f] : m.known[i] # 0 => Under(m, i, f)
  /\ \A c \in Kids(m, m.known[f]) : m.call[c].id \in d.parts[f]

LEMMA FilledFits ==
  ASSUME NEW m \in Formed, NEW d \in Rings, NEW f \in ConfId, Orderly(d), Core(m, d, {f}),
         Filled(m, d, f)
  PROVE  Fits(m, d)
<1>1. \A i \in d.parts[f] : m.known[i] = 0 => Told(d.queue, f)
  <2> SUFFICES ASSUME NEW i \in d.parts[f], m.known[i] = 0 PROVE Told(d.queue, f)
    OBVIOUS
  <2>1. ReportedBefore(d.queue, i, f)
    BY DEF Core, Recorded
  <2> QED
    BY <2>1 DEF ReportedBefore, Told
<1>2. \A i \in d.parts[f] : Excused(d, f, i)
  BY DEF Orderly, Excused
<1>3. Faithful(m, d, f)
  BY <1>1, <1>2 DEF Filled, Faithful
<1> QED
  BY <1>3 DEF Core, Fits

\* The participants of a conference that has no row left become its rows.
LEMMA AdoptAllMild ==
  ASSUME NEW m \in Formed, NEW d \in Rings, NEW f \in ConfId, Orderly(d),
         m.known[f] # 0, Kids(m, m.known[f]) = {}
  PROVE  LET n == AdoptAll(m, m.known[f], Participants(d, f))
         IN  n \in Mild(m, d, f) /\ Filled(n, d, f)
<1> DEFINE o == m.known[f]
           s == Participants(d, f)
           k == Len(s)
           U == {x \in Mild(m, d, f) : \A c \in Kids(x, o) : x.call[c].id \in d.parts[f]}
           G == [j \in 0..k |-> {x \in U : \A l \in 1..j : x.known[s[l]] # 0 => Under(x, s[l], f)}]
<1>1. /\ s \in Seq(CallId) /\ k \in Nat /\ \A j \in 1..k : s[j] \in d.parts[f] /\ s[j] \in CallId
      /\ \A i \in d.parts[f] : \E j \in 1..k : s[j] = i
  <2> DEFINE S == d.parts[f]
  <2>1. IsFiniteSet(S)
    BY CallIdAssumption, FS_Subset DEF Rings
  <2>1a. S \subseteq CallId
    BY DEF Rings
  <2> HIDE DEF S
  <2>2. /\ SetToSeq(S) \in Seq(S)
        /\ \A x \in S : \E j \in 1..Len(SetToSeq(S)) : SetToSeq(S)[j] = x
    BY <2>1, SequenceOfSet
  <2>3. s = SetToSeq(S)
    BY DEF Participants, S
  <2>4. s \in Seq(CallId)
    BY ParticipantsAreCalls
  <2> HIDE DEF s
  <2> QED
    BY <2>1a, <2>2, <2>3, <2>4 DEF S
<1>2. m \in U /\ m \in G[0]
  <2>1. m \in U
    BY MildReflexive
  <2> QED
    BY <1>1, <2>1
<1> HIDE DEF s, k, o
<1>3. ASSUME NEW x \in U, NEW j \in 1..k
      PROVE  /\ AdoptKnown(x, o, s[j]) \in U
             /\ x \in G[j - 1] => AdoptKnown(x, o, s[j]) \in G[j]
  <2> DEFINE i == s[j]
             c == x.known[i]
             y == AdoptKnown(x, o, i)
  <2>0. x \in Mild(m, d, f)
    OBVIOUS
  <2>1. /\ x \in Formed /\ x.known = m.known /\ Size(x) = Size(m) /\ x.known[f] = o
        /\ \A p \in Mild(x, d, f) : p \in Mild(m, d, f)
        /\ o # 0 /\ o \in 1..Size(m)
    <3>1. x \in Formed /\ x.known = m.known /\ Size(x) = Size(m)
          /\ (m.known[f] # 0 => m.known[f] \in 1..Size(m))
      BY <2>0, MildFacts
    <3>2. \A p \in Mild(x, d, f) : p \in Mild(m, d, f)
      BY <2>0, MildThen
    <3> QED
      BY <3>1, <3>2 DEF o
  <2>2. i \in d.parts[f] /\ i \in CallId /\ j - 1 \in 0..k /\ j \in 0..k
    BY <1>1, SMTT(20)
  <2>3. \A l \in 1..j : l = j \/ l \in 1..(j - 1)
    BY <1>1
  <2>4. /\ G[j - 1] = {z \in U : \A l \in 1..(j - 1) : z.known[s[l]] # 0 => Under(z, s[l], f)}
        /\ G[j] = {z \in U : \A l \in 1..j : z.known[s[l]] # 0 => Under(z, s[l], f)}
    BY <2>2
  <2> HIDE DEF G
  <2>5. CASE c = 0
    <3>1. y = x
      BY <2>5 DEF AdoptKnown
    <3> QED
      BY <2>3, <2>4, <2>5, <3>1
  <2>6. CASE c # 0
    <3>1. y = Adopt(x, o, c)
      BY <2>6 DEF AdoptKnown
    <3> HIDE DEF y, i
    <3>2. /\ y \in Mild(x, d, f) /\ y.call[c].parent = o
          /\ \A q \in 1..Size(x) : q # c => y.call[q].parent = x.call[q].parent
          /\ Kids(y, o) = Kids(x, o) \cup {c}
      BY <2>1, <2>2, <2>6, <3>1, AdoptMild
    <3>3. /\ y.known = m.known /\ \A q \in 1..Size(x) : y.call[q].id = x.call[q].id
          /\ \A e \in CallId : x.known[e] # 0 => x.known[e] \in 1..Size(x) /\ x.call[x.known[e]].id = e
          /\ y \in Formed
      BY <2>1, <3>2, MildFacts
    <3>3a. \A q \in Kids(x, o) : q \in 1..Size(x)
      BY <2>1, FormedFacts
    <3>4. \A q \in Kids(y, o) : y.call[q].id \in d.parts[f]
      BY <2>2, <2>6, <3>2, <3>3, <3>3a
    <3>5. y \in U
      BY <2>1, <3>2, <3>4
    <3>6. ASSUME NEW l \in 1..j, y.known[s[l]] # 0, l # j => Under(x, s[l], f)
          PROVE  Under(y, s[l], f)
      <4> DEFINE e == y.known[s[l]]
      <4>0. l \in 1..k
        BY <1>1
      <4>1. s[l] \in CallId
        BY <1>1, <4>0
      <4>2. e # 0 /\ x.known[s[l]] = e /\ e \in 1..Size(x)
        BY <2>1, <3>3, <3>6, <4>1
      <4>3. CASE e = c
        BY <2>1, <3>2, <3>3, <4>2, <4>3 DEF Under
      <4>4. CASE e # c
        <5>1. l # j
          BY <2>1, <3>3, <4>2, <4>4 DEF i
        <5>2. e \in Kids(x, o) /\ x.call[e].parent = o
          BY <2>1, <3>6, <4>2, <5>1 DEF Under
        <5> QED
          BY <2>1, <3>2, <3>3, <4>2, <4>4, <5>2 DEF Under
      <4> QED
        BY <4>3, <4>4
    <3>7. x \in G[j - 1] => y \in G[j]
      <4> SUFFICES ASSUME x \in G[j - 1], NEW l \in 1..j, y.known[s[l]] # 0
                   PROVE  Under(y, s[l], f)
        BY <2>4, <3>5
      <4>1. x.known[s[l]] # 0
        BY <2>1, <3>3
      <4>2. l # j => Under(x, s[l], f)
        BY <2>3, <2>4, <4>1
      <4> QED
        BY <3>6, <4>2
    <3> QED
      BY <3>5, <3>7 DEF y, i
  <2> QED
    BY <2>5, <2>6
<1>4. G[k] = {x \in U : \A l \in 1..k : x.known[s[l]] # 0 => Under(x, s[l], f)}
  BY <1>1
<1>4a. \A x \in U : x \in Mild(m, d, f) /\ \A c \in Kids(x, o) : x.call[c].id \in d.parts[f]
  OBVIOUS
<1> HIDE DEF U, G
<1>5. AdoptAll(m, o, s) \in G[k] /\ AdoptAll(m, o, s) \in U
  BY <1>1, <1>2, <1>3, AdoptAllReaches DEF k
<1> DEFINE n == AdoptAll(m, o, s)
<1>6. n \in Mild(m, d, f) /\ n \in U /\ n \in G[k]
  BY <1>4a, <1>5
<1> HIDE DEF n
<1>7. n.known[f] = o
  BY <1>6, MildFacts DEF o
<1>8. Filled(n, d, f)
  BY <1>1, <1>4, <1>4a, <1>6, <1>7 DEF Filled
<1> QED
  BY <1>6, <1>8 DEF n, o, s

\* The calls that are no more participants are put back.
LEMMA DropChildrenMild ==
  ASSUME NEW m \in Formed, NEW d \in Rings, NEW f \in ConfId, m.known[f] # 0,
         \A c \in Kids(m, m.known[f]) : \A g \in ConfId \ {f} :
           m.call[c].id \in d.parts[g] => Told(d.queue, g),
         NEW ids
  PROVE  LET n == DropChildren(m, m.known[f], ids)
         IN  n \in Mild(m, d, f) /\ Kids(n, m.known[f]) = {}
<1> DEFINE o == m.known[f]
           T == {c \in DOMAIN m.call : m.call[c].id \notin ToSet(ids)
                                         /\ LifeCycle(m, c) # "FINISHED"}
           s == m.call[o].children
           K == Kids(m, o)
           back == Among(s, T)
           freed == AllFreed(m, back)
           listed == [freed EXCEPT !.rows = @ \o back]
           done == Peopled(listed, o, <<>>)
           U == Mild(m, d, f)
<1>0. m \in Typed /\ o \in 1..Size(m) /\ IsConference(m, o)
  BY KnownObject DEF Formed, Ids, IsConference
<1>1. /\ back \in Seq(1..Size(m)) /\ back \in Seq(K) /\ ToSet(back) \subseteq K
      /\ \A c \in K : c \in 1..Size(m) /\ ~IsConference(m, c)
  <2>1. back \in Seq(1..Size(m)) /\ s \in Seq(1..Size(m))
    BY <1>0, AmongChildren, ChildrenOf
  <2>2. s \in Seq(K)
    <3>1. Len(s) \in Nat /\ DOMAIN s = 1..Len(s)
      BY <2>1
    <3>2. \A j \in 1..Len(s) : s[j] \in K
      BY <3>1 DEF ToSet, Kids
    <3> HIDE DEF K
    <3> QED
      BY <2>1, <3>1, <3>2
  <2>3. \A c \in K : c \in 1..Size(m) /\ ~IsConference(m, c)
    BY <1>0, FormedFacts
  <2> HIDE DEF s, T, K
  <2>4. Among(s, T) \in Seq(K \cap T)
    BY <2>2, AmongIsPart
  <2>5. K \cap T \subseteq K
    OBVIOUS
  <2>6. Among(s, T) \in Seq(K)
    BY <2>4, <2>5, SeqMonotonic
  <2> HIDE DEF back
  <2>7. back \in Seq(K)
    BY <2>6 DEF back
  <2> QED
    BY <2>1, <2>3, <2>7, ElementsOf
<1>2. DropChildren(m, o, ids) = [freed EXCEPT !.rows = @ \o back, !.call[o].children = <<>>]
  BY DEF DropChildren, AllFreed
<1>3. DropChildren(m, o, ids) = done
  BY <1>2 DEF Peopled
<1> HIDE DEF o, back
<1>4. ASSUME NEW x \in U, NEW c \in K PROVE Freed(x, c) \in U
  <2>1. /\ x \in Formed /\ Size(x) = Size(m) /\ c \in 1..Size(m) /\ ~IsConference(x, c)
        /\ x.call[c].id = m.call[c].id
    BY <1>1, MildFacts
  <2>2. 0 \in 0..Size(x)
    BY <2>1, TypedFacts, Ranges DEF Formed
  <2>3. \A g \in ConfId \ {f} : x.call[c].id \in d.parts[g] => Told(d.queue, g)
    BY <2>1 DEF o
  <2>4. Freed(x, c) = Parented(x, c, 0)
    BY DEF Freed, Parented
  <2>5. Freed(x, c) \in Mild(x, d, f)
    BY <2>1, <2>2, <2>3, <2>4, MildParent
  <2> QED
    BY <2>5, MildThen
<1>5. m \in U
  BY MildReflexive
<1> HIDE DEF U, K
<1>6. freed \in U
  BY <1>1, <1>4, <1>5, FreedReaches
<1> HIDE DEF freed
<1>7. /\ freed \in Formed /\ Size(freed) = Size(m)
      /\ \A c \in 1..Size(m) : IsConference(freed, c) <=> IsConference(m, c)
  BY <1>6, MildFacts DEF U
<1>8. back \in Seq(1..Size(freed)) /\ \A c \in ToSet(back) : ~IsConference(freed, c)
  BY <1>1, <1>7
<1>9. listed \in Mild(freed, d, f)
  BY <1>7, <1>8, MildBack
<1> HIDE DEF listed
<1>10. /\ listed \in Formed /\ Size(listed) = Size(m) /\ listed.known = m.known
       /\ \A c \in 1..Size(m) : IsConference(listed, c) <=> IsConference(m, c)
       /\ listed \in U
  <2>1. freed \in Mild(m, d, f)
    BY <1>6 DEF U
  <2>2. listed \in Mild(m, d, f)
    BY <1>9, <2>1, MildThen
  <2> QED
    BY <2>2, MildFacts DEF U
<1>11. \A g \in ConfId \ {f} : listed.known[g] # o
  <2>1. \A g \in ConfId : m.known[g] # 0 => m.call[m.known[g]].id = g
    BY <1>0, TypedFacts DEF Ids
  <2> QED
    BY <1>10, <2>1 DEF o
<1>12. <<>> \in Seq(1..Size(listed)) /\ ToSet(<<>>) = {}
  BY EmptySeq DEF ToSet
<1> DEFINE none == <<>>
<1>13. /\ none \in Seq(1..Size(listed)) /\ ToSet(none) = {}
       /\ o \in 1..Size(listed) /\ IsConference(listed, o)
       /\ done = Peopled(listed, o, none)
  BY <1>0, <1>10, <1>12
<1> HIDE DEF done, none
<1>14. done \in Mild(listed, d, f) /\ done.call[o].children = none
  <2>1. \A i \in CallId : \A g \in ConfId \ {f} :
           i \in d.parts[g] /\ ~Told(d.queue, g) /\ listed.known[g] = o /\ listed.known[i] # 0
             /\ listed.known[i] \in Kids(listed, o) => listed.known[i] \in ToSet(none)
    BY <1>11
  <2>2. listed \in Formed /\ \A c \in ToSet(none) : FALSE
    BY <1>10, <1>13
  <2> QED
    BY <1>13, <2>1, <2>2, MildChildren
<1>15. done \in Mild(m, d, f)
  BY <1>10, <1>14, MildThen DEF U
<1>16. Kids(done, o) = {}
  BY <1>13, <1>14 DEF Kids
<1> QED
  BY <1>3, <1>15, <1>16 DEF o

\* A call is compared with the daemon.
LEMMA ReconcileMild ==
  ASSUME NEW m \in Formed, NEW d \in Rings, NEW f \in ConfId, Orderly(d), m.known[f] # 0,
         Filled(m, d, f), NEW i \in CallId
  PROVE  Reconcile(m, d, i) \in Mild(m, d, f) /\ Filled(Reconcile(m, d, i), d, f)
<1> DEFINE c    == m.known[i]
           fs   == ConferencesOf(d, i)
           g    == CHOOSE h \in fs : TRUE
           conf == IF fs = {} THEN 0 ELSE m.known[g]
           kids == WithChild(m.call[conf].children, c)
           freed == Parented(m, c, 0)
           left == removeInternal(m, c)
           done == Peopled(left, conf, kids)
           n    == Reconcile(m, d, i)
           o    == m.known[f]
<1>0. m \in Typed /\ i \in Ids /\ f \in Ids
  BY DEF Formed, Ids
<1>1. m \in Mild(m, d, f)
  BY MildReflexive
<1>2. /\ o \in 1..Size(m) /\ IsConference(m, o)
      /\ c # 0 => c \in 1..Size(m) /\ ~IsConference(m, c) /\ m.call[c].id = i
  BY <1>0, KnownObject, TypedFacts DEF IsConference
<1>3. \/ n = m
      \/ c # 0 /\ fs = {} /\ n = freed
      \/ c # 0 /\ m.call[c].parent = 0 /\ conf # 0 /\ n = done
  BY DEF Reconcile, Parented, Peopled, WithChild
<1> HIDE DEF n
<1>4. CASE n = m
  BY <1>1, <1>4 DEF n
<1>5. CASE c # 0 /\ fs = {} /\ n = freed
  <2>1. \A h \in ConfId : i \notin d.parts[h]
    BY <1>5 DEF ConferencesOf
  <2>2. 0 \in 0..Size(m)
    BY <1>0, TypedFacts, Ranges
  <2>3. \A h \in ConfId \ {f} : m.call[c].id \in d.parts[h] => Told(d.queue, h)
    BY <1>2, <1>5, <2>1
  <2>4. n = Parented(m, c, 0) /\ c \in 1..Size(m) /\ ~IsConference(m, c)
    BY <1>2, <1>5
  <2> HIDE DEF c, fs, freed
  <2>5. /\ n \in Mild(m, d, f)
        /\ \A q \in 1..Size(m) : /\ Kids(n, q) = Kids(m, q)
                                 /\ q # c => n.call[q].parent = m.call[q].parent
    BY <2>2, <2>3, <2>4, MildParent
  <2>6. /\ n.known = m.known
        /\ \A q \in 1..Size(m) : n.call[q].id = m.call[q].id
        /\ \A j \in CallId : m.known[j] # 0 => m.known[j] \in 1..Size(m) /\ m.call[m.known[j]].id = j
    BY <2>5, MildFacts
  <2>7. ASSUME NEW j \in d.parts[f], n.known[j] # 0 PROVE Under(n, j, f)
    <3>1. j \in CallId /\ m.known[j] # 0 /\ Under(m, j, f)
      BY <2>6, <2>7 DEF Filled, Rings
    <3>2. m.known[j] # c
      BY <1>2, <2>1, <2>6, <3>1 DEF c
    <3>3. m.known[j] \in 1..Size(m)
      BY <2>6, <3>1
    <3> QED
      BY <1>2, <2>5, <2>6, <3>1, <3>2, <3>3 DEF Under, o
  <2>8. ASSUME NEW q \in Kids(n, n.known[f]) PROVE n.call[q].id \in d.parts[f]
    <3>1. q \in Kids(m, m.known[f])
      BY <1>2, <2>5, <2>6, <2>8 DEF o
    <3>2. q \in 1..Size(m)
      BY <1>2, <3>1, FormedFacts DEF o
    <3> QED
      BY <2>6, <3>1, <3>2 DEF Filled
  <2> QED
    BY <2>5, <2>7, <2>8 DEF Filled, n
<1>6. CASE c # 0 /\ m.call[c].parent = 0 /\ conf # 0 /\ n = done
  <2>1. fs # {} /\ conf = m.known[g]
    BY <1>6
  <2>2. g \in ConfId /\ i \in d.parts[g]
    BY <2>1 DEF ConferencesOf
  <2>3. c # 0 /\ m.call[c].parent = 0 /\ conf # 0 /\ n = done
    BY <1>6
  <2> HIDE DEF c, g, conf, left
  <2>4. g # f
    <3> SUFFICES ASSUME g = f PROVE FALSE
      OBVIOUS
    <3>1. Under(m, i, f)
      BY <2>2, <2>3 DEF Filled, c
    <3> QED
      BY <2>3, <3>1 DEF Under, c
  <2>5. /\ conf \in 1..Size(m) /\ IsConference(m, conf) /\ m.call[conf].id = g
        /\ c \in 1..Size(m) /\ ~IsConference(m, c) /\ m.call[c].id = i
    BY <1>0, <1>2, <2>1, <2>2, <2>3, KnownObject, TypedFacts DEF IsConference, Ids
  <2>6. conf # o
    BY <1>0, <2>4, <2>5, TypedFacts DEF o
  <2>7. left \in Mild(m, d, f) /\ left.call = m.call
    BY <2>5, MildOut DEF left
  <2>8. /\ left \in Formed /\ left \in Typed /\ Size(left) = Size(m) /\ left.known = m.known
        /\ IsConference(left, conf) /\ Kids(left, conf) = Kids(m, conf)
    BY <2>5, <2>7, MildFacts DEF Kids
  <2>9. kids \in Seq(1..Size(m)) /\ ToSet(kids) = Kids(m, conf) \cup {c}
    <3> DEFINE s == m.call[conf].children
               k == Size(m)
    <3>1. s \in Seq(1..k) /\ c \in 1..k /\ ToSet(s) = Kids(m, conf)
      BY <1>0, <2>5, ChildrenOf DEF Kids
    <3> HIDE DEF s, k
    <3>2. WithChild(s, c) \in Seq(1..k) /\ c \in ToSet(WithChild(s, c)) /\ ToSet(s) \subseteq ToSet(WithChild(s, c))
      BY <3>1, WithChildSet
    <3>3. ToSet(Append(s, c)) = ToSet(s) \cup {c}
      BY <3>1, AppendedSet
    <3>4. ToSet(WithChild(s, c)) \subseteq ToSet(s) \cup {c}
      BY <3>3 DEF WithChild
    <3> QED
      BY <3>1, <3>2, <3>4 DEF s, k
  <2>10. \A q \in ToSet(kids) :
           \/ q \in Kids(left, conf)
           \/ /\ left.call[q].id \in CallId
              /\ \A h \in ConfId \ {f} : left.known[h] = conf => left.call[q].id \in d.parts[h]
    <3>1. \A h \in ConfId : m.known[h] = conf => h = g
      BY <1>0, <2>3, <2>5, TypedFacts DEF Ids
    <3> QED
      BY <2>2, <2>5, <2>7, <2>8, <2>9, <3>1
  <2>11. \A j \in CallId : \A h \in ConfId \ {f} :
           j \in d.parts[h] /\ ~Told(d.queue, h) /\ left.known[h] = conf /\ left.known[j] # 0
             /\ left.known[j] \in Kids(left, conf) => left.known[j] \in ToSet(kids)
    BY <2>8, <2>9
  <2>12. /\ conf \in 1..Size(left) /\ kids \in Seq(1..Size(left)) /\ n = Peopled(left, conf, kids)
         /\ IsConference(left, conf)
    BY <2>3, <2>5, <2>8, <2>9
  <2> HIDE DEF kids, done
  <2>13. /\ n \in Mild(left, d, f)
         /\ \A q \in 1..Size(left) : /\ n.call[q].parent = left.call[q].parent
                                     /\ q # conf => n.call[q].children = left.call[q].children
    BY <2>8, <2>10, <2>11, <2>12, MildChildren
  <2>14. n \in Mild(m, d, f)
    BY <2>7, <2>13, MildThen
  <2>15. /\ n.known = m.known
         /\ \A q \in 1..Size(m) : n.call[q].id = m.call[q].id
         /\ \A j \in CallId : m.known[j] # 0 => m.known[j] \in 1..Size(m)
    BY <2>14, MildFacts
  <2>16. Kids(n, o) = Kids(m, o) /\ \A q \in 1..Size(m) : n.call[q].parent = m.call[q].parent
    BY <1>2, <2>6, <2>7, <2>8, <2>13 DEF Kids
  <2>17. ASSUME NEW j \in d.parts[f], n.known[j] # 0 PROVE Under(n, j, f)
    <3>1. j \in CallId /\ m.known[j] # 0 /\ Under(m, j, f)
      BY <2>15, <2>17 DEF Filled, Rings
    <3> QED
      BY <2>15, <2>16, <3>1 DEF Under, o
  <2>18. ASSUME NEW q \in Kids(n, n.known[f]) PROVE n.call[q].id \in d.parts[f]
    <3>1. q \in Kids(m, m.known[f])
      BY <2>15, <2>16, <2>18 DEF o
    <3>2. q \in 1..Size(m)
      BY <1>2, <3>1, FormedFacts DEF o
    <3> QED
      BY <2>15, <3>1, <3>2 DEF Filled
  <2> QED
    BY <2>14, <2>17, <2>18 DEF Filled, n
<1> QED
  BY <1>3, <1>4, <1>5, <1>6

\* The last step of slotChangingConference().
LEMMA ReconciledFits ==
  ASSUME NEW m \in Formed, NEW d \in Rings, NEW f \in ConfId, Orderly(d), m.known[f] # 0,
         Filled(m, d, f), Core(m, d, {f})
  PROVE  AllReconciled(m, d) \in Formed /\ Fits(AllReconciled(m, d), d)
<1> DEFINE U == {x \in Formed : x.known = m.known /\ Filled(x, d, f) /\ Core(x, d, {f})}
           n == AllReconciled(m, d)
<1>1. m \in U
  OBVIOUS
<1>2. ASSUME NEW x \in U, NEW i \in CallId PROVE Reconcile(x, d, i) \in U
  <2> DEFINE y == Reconcile(x, d, i)
  <2>1. x \in Formed /\ x.known = m.known /\ Filled(x, d, f) /\ Core(x, d, {f}) /\ x.known[f] # 0
    OBVIOUS
  <2>2. y \in Mild(x, d, f) /\ Filled(y, d, f)
    BY <2>1, ReconcileMild
  <2> HIDE DEF y
  <2>3. y \in Formed /\ y.known = m.known /\ Core(y, d, {f})
    BY <2>1, <2>2, MildFacts, CoreMild
  <2> QED
    BY <2>2, <2>3 DEF y
<1>3. \A x \in U : x \in Formed /\ Fits(x, d)
  BY FilledFits
<1> HIDE DEF U
<1>4. n \in U
  BY <1>1, <1>2, ReconciledReaches
<1> QED
  BY <1>3, <1>4

\* What is not about the conference leaves its rows.
LEMMA FilledTame ==
  ASSUME NEW m \in Formed, NEW d \in Rings, NEW f \in ConfId, m.known[f] # 0, Filled(m, d, f),
         NEW n \in Tame(m, {}), n \in From(m)
  PROVE  Filled(n, d, f)
<1>1. m \in Typed /\ n.known = m.known
      /\ \A q \in 1..Size(m) : n.call[q].id = m.call[q].id
  BY DEF Formed, From, Kept
<1>2. /\ m.known[f] \in 1..Size(m)
      /\ \A j \in CallId : m.known[j] # 0 => m.known[j] \in 1..Size(m)
  BY <1>1, KnownObject DEF Ids
<1>3. \A q \in 1..Size(m) : Kids(n, q) = Kids(m, q) /\ n.call[q].parent = m.call[q].parent
  BY DEF Tame, Kids
<1>4. \A q \in Kids(m, m.known[f]) : q \in 1..Size(m)
  BY <1>2, FormedFacts
<1>5. d.parts[f] \subseteq CallId
  BY DEF Rings
<1>6. ASSUME NEW j \in d.parts[f], n.known[j] # 0 PROVE Under(n, j, f)
  <2>1. j \in CallId /\ m.known[j] # 0 /\ Under(m, j, f)
    BY <1>1, <1>5, <1>6 DEF Filled
  <2> QED
    BY <1>1, <1>2, <1>3, <2>1 DEF Under
<1> QED
  BY <1>1, <1>2, <1>3, <1>4, <1>6 DEF Filled

\* slotChangingConference().
LEMMA ChangingConferenceFits ==
  ASSUME NEW m \in Formed, NEW d \in Rings, NEW f \in ConfId, Orderly(d), Core(m, d, {f}),
         m.known[f] # 0,
         m.known[f] \in Rows(m) =>
           \A c \in Kids(m, m.known[f]) : \A g \in ConfId \ {f} :
             m.call[c].id \in d.parts[g] => Told(d.queue, g)
  PROVE  LET n == slotChangingConference(m, d, f) IN n \in Formed /\ Fits(n, d)
<1> DEFINE o       == m.known[f]
           ids     == Participants(d, f)
           stated  == [m EXCEPT !.call[o].state = "CONFERENCE"]
           changed == DropChildren(stated, o, ids)
           adopted == AdoptAll(changed, o, ids)
           swept   == IF \E r \in ToSet(adopted.rows) :
                           IsConference(adopted, r) /\ adopted.call[r].children = <<>>
                      THEN Sweep(adopted) ELSE adopted
           done    == AllReconciled(swept, d)
<1>0. Contains(m.rows, o) <=> o \in Rows(m)
  <2>1. m.rows \in Seq(1..Size(m))
    BY TypedFacts DEF Formed
  <2>2. DOMAIN m.rows = 1..Len(m.rows)
    BY <2>1, LenProperties
  <2> QED
    BY <2>2, Zenon DEF Contains, Rows, ToSet
<1>1. CASE o \notin Rows(m)
  <2>1. slotChangingConference(m, d, f) = m
    BY <1>0, <1>1 DEF slotChangingConference
  <2>2. Faithful(m, d, f)
    BY <1>1 DEF Faithful
  <2>3. Fits(m, d)
    BY <2>2 DEF Core, Fits
  <2> QED
    BY <2>1, <2>3
<1>2. CASE o \in Rows(m)
  <2>1. slotChangingConference(m, d, f) = done
    BY <1>0, <1>2 DEF slotChangingConference, AllReconciled
  <2>2. stated \in Mild(m, d, f) /\ Kids(stated, o) = Kids(m, o)
    BY <1>2, MildState
  <2> HIDE DEF stated, done
  <2>3. /\ stated \in Formed /\ stated.known = m.known
        /\ \A c \in 1..Size(m) : stated.call[c].id = m.call[c].id
        /\ o \in 1..Size(m)
    BY <2>2, MildFacts
  <2>4. Core(stated, d, {f})
    BY <2>2, CoreMild
  <2>5. /\ stated.known[f] # 0
        /\ \A c \in Kids(stated, stated.known[f]) : \A g \in ConfId \ {f} :
             stated.call[c].id \in d.parts[g] => Told(d.queue, g)
    <3>1. \A c \in Kids(m, o) : c \in 1..Size(m)
      BY <2>3, FormedFacts
    <3> QED
      BY <1>2, <2>2, <2>3, <3>1
  <2>6. changed \in Mild(stated, d, f) /\ Kids(changed, o) = {}
    <3>1. stated.known[f] = o
      BY <2>3
    <3> HIDE DEF o, ids
    <3>2. /\ DropChildren(stated, stated.known[f], ids) \in Mild(stated, d, f)
          /\ Kids(DropChildren(stated, stated.known[f], ids), stated.known[f]) = {}
      BY <2>3, <2>5, DropChildrenMild
    <3> QED
      BY <3>1, <3>2
  <2> HIDE DEF changed
  <2>7. changed \in Formed /\ changed.known = m.known /\ Core(changed, d, {f})
    BY <2>3, <2>4, <2>6, MildFacts, CoreMild
  <2>8. adopted \in Mild(changed, d, f) /\ Filled(adopted, d, f)
    <3>1. changed.known[f] = o /\ o # 0 /\ changed \in Formed /\ Kids(changed, changed.known[f]) = {}
      BY <2>6, <2>7
    <3>2. LET n == AdoptAll(changed, changed.known[f], ids)
          IN  n \in Mild(changed, d, f) /\ Filled(n, d, f)
      BY <3>1, AdoptAllMild
    <3> QED
      BY <3>1, <3>2
  <2> HIDE DEF adopted
  <2>9. adopted \in Formed /\ adopted \in Typed /\ adopted.known = m.known /\ Core(adopted, d, {f})
    BY <2>7, <2>8, MildFacts, CoreMild
  <2>10. swept \in Tame(adopted, {}) /\ swept \in From(adopted)
    BY <2>9, SweepTame, SweepFrom, TameReflexive, KeptReflexive
  <2> HIDE DEF swept
  <2>11. Filled(swept, d, f) /\ swept \in Formed /\ swept.known = m.known
    <3>1. adopted.known[f] # 0
      BY <2>9
    <3>2. Filled(swept, d, f)
      BY <2>8, <2>9, <2>10, <3>1, FilledTame
    <3> QED
      BY <2>9, <2>10, <3>2 DEF Tame, From, Kept
  <2>12. Core(swept, d, {f})
    <3> DEFINE X == {}
    <3>1. \A g \in ConfId : adopted.known[g] # 0 /\ adopted.known[g] \in X => Doomed(d, g)
      OBVIOUS
    <3>2. swept \in Tame(adopted, X)
      BY <2>10
    <3> HIDE DEF X
    <3> DEFINE F == {f}
    <3>3. Core(adopted, d, F)
      BY <2>9
    <3> HIDE DEF F
    <3>4. Core(swept, d, F)
      BY <2>9, <3>1, <3>2, <3>3, CoreTame
    <3> QED
      BY <3>4 DEF F
  <2>13. done \in Formed /\ Fits(done, d)
    BY <2>11, <2>12, ReconciledFits DEF done
  <2> QED
    BY <2>1, <2>13
<1> QED
  BY <1>1, <1>2

LEMMA TakenOrderly ==
  ASSUME NEW d \in Rings, d.queue # <<>>, Orderly(d)
  PROVE  Orderly(Taken(d))
<1> DEFINE t == Taken(d)
           x == Head(d.queue)
           q == d.queue
           r == t.queue
<1>1. /\ t \in Rings /\ t.calls = d.calls /\ t.confs = d.confs /\ t.parts = d.parts
      /\ r = Tail(q) /\ r \in Seq(Signals) /\ q \in Seq(Signals)
  BY TakenFields DEF Rings
<1> HIDE DEF t, x, q, r
<1>2. x = Head(q) /\ q # <<>> /\ q = d.queue /\ r = t.queue
  BY DEF x, q, r
<1>3. /\ \A f : Silent(q, f) <=> Silent(r, f) /\ x.id # f
      /\ \A f : Ending(q, f) <=> Ending(r, f) \/ Ends(x, f)
      /\ \A f : First(q, f) => First(r, f)
  BY <1>1, <1>2, QueueTaken
<1>4. Orderly(t)
  <2>1. \A f \in ConfId :
          /\ t.parts[f] # {} => t.confs[f] = "live"
          /\ \A i \in t.parts[f] : t.calls[i] = "current"
          /\ \A g \in ConfId \ {f} : t.parts[f] \cap t.parts[g] = {}
    BY <1>1 DEF Orderly
  <2>2. \A f \in ConfId :
          /\ d.confs[f] = "free" => Silent(q, f)
          /\ First(q, f)
          /\ Ending(q, f) => d.confs[f] = "removed"
    BY <1>2 DEF Orderly
  <2>3. \A f \in ConfId :
          /\ t.confs[f] = "free" => Silent(r, f)
          /\ First(r, f)
          /\ Ending(r, f) => t.confs[f] = "removed"
    BY <1>1, <1>3, <2>2
  <2> QED
    BY <1>2, <2>1, <2>3 DEF Orderly
<1> QED
  BY <1>4 DEF t

\* A signal that creates or changes conference f is taken: only what the list has of f is
\* to be corrected.
LEMMA TellsTaken ==
  ASSUME NEW m \in Formed, NEW d \in Rings, d.queue # <<>>, Fits(m, d), NEW f \in ConfId,
         Tells(Head(d.queue), f)
  PROVE  LET t == Taken(d)
         IN  /\ Announced(m, t)
             /\ \A g \in ConfId \ {f} : Recorded(m, t, g) /\ Faithful(m, t, g)
             /\ d.confs[f] # "free"
             /\ d.confs[f] = "removed" =>
                  Ending(t.queue, f) \/ (m.known[f] \notin Rows(m) /\ ~Creating(d.queue, f))
             /\ \A i \in d.parts[f] : m.known[i] = 0 => ReportedBefore(t.queue, i, f)
             /\ ~Creating(t.queue, f) /\ (m.known[f] = 0 <=> Makes(Head(d.queue), f))
             /\ m.known[f] \in Rows(m) =>
                  \A c \in Kids(m, m.known[f]) : \A g \in ConfId \ {f} :
                    m.call[c].id \in d.parts[g] => Told(t.queue, g)
<1> DEFINE t == Taken(d)
           x == Head(d.queue)
           q == d.queue
           r == t.queue
<1>1. /\ t \in Rings /\ t.calls = d.calls /\ t.confs = d.confs /\ t.parts = d.parts
      /\ r = Tail(q) /\ r \in Seq(Signals) /\ q \in Seq(Signals)
  BY TakenFields DEF Rings
<1>2. x.id = f /\ Tells(x, f) /\ (\A g : g # f => ~Tells(x, g) /\ ~Makes(x, g) /\ ~Ends(x, g))
      /\ ~Ends(x, f) /\ (\A i : ~Says(x, i))
  BY DEF Tells, Makes, Ends, Says
<1> HIDE DEF t, x, q, r
<1>3. x = Head(q) /\ q # <<>> /\ q = d.queue /\ r = t.queue /\ Orderly(d) /\ Core(m, d, {})
  BY DEF x, q, r, Fits
<1>4. /\ \A g : Silent(q, g) <=> Silent(r, g) /\ x.id # g
      /\ \A g : Creating(q, g) <=> Creating(r, g) \/ Makes(x, g)
      /\ \A g : Ending(q, g) <=> Ending(r, g) \/ Ends(x, g)
      /\ \A g : Told(q, g) <=> Told(r, g) \/ Tells(x, g)
      /\ \A i : Reported(q, i) <=> Reported(r, i) \/ Says(x, i)
      /\ \A g, h : ToldBefore(q, g, h) <=> ToldBefore(r, g, h) \/ (Tells(x, g) /\ Told(r, h))
      /\ \A i, g : ReportedBefore(q, i, g)
                     <=> ReportedBefore(r, i, g) \/ (Says(x, i) /\ Told(r, g))
      /\ \A g : First(q, g) /\ x.id = g => ~Creating(r, g)
  BY <1>1, <1>3, QueueTaken
<1>5. \A g \in ConfId : Recorded(m, d, g) /\ Faithful(m, d, g)
  BY <1>3 DEF Core
<1>6. Announced(m, t)
  BY <1>1, <1>2, <1>3, <1>4 DEF Core, Announced
<1>7. ASSUME NEW g \in ConfId \ {f} PROVE Recorded(m, t, g) /\ Faithful(m, t, g)
  <2>1. /\ Creating(q, g) <=> Creating(r, g)
        /\ Ending(q, g) <=> Ending(r, g)
        /\ Told(q, g) <=> Told(r, g)
        /\ \A i : ReportedBefore(q, i, g) <=> ReportedBefore(r, i, g)
        /\ \A h : ToldBefore(q, g, h) <=> ToldBefore(r, g, h)
    BY <1>2, <1>4
  <2>2. Recorded(m, t, g)
    BY <1>1, <1>3, <1>5, <2>1 DEF Recorded, Doomed
  <2>3. \A i : Excused(d, g, i) => Excused(t, g, i)
    BY <1>1, <1>3, <2>1 DEF Excused
  <2>4. Faithful(m, t, g)
    BY <1>1, <1>3, <1>5, <2>1, <2>3 DEF Faithful
  <2> QED
    BY <2>2, <2>4
<1>8. d.confs[f] # "free"
  BY <1>2, <1>3, <1>4 DEF Orderly
<1>9. ~Creating(r, f)
  BY <1>2, <1>3, <1>4 DEF Orderly
<1>10. m.known[f] = 0 <=> Makes(x, f)
  BY <1>3, <1>4, <1>5, <1>8, <1>9 DEF Recorded
<1>11. d.confs[f] = "removed" =>
         Ending(r, f) \/ (m.known[f] \notin Rows(m) /\ ~Creating(q, f))
  BY <1>2, <1>3, <1>4, <1>5 DEF Recorded
<1>12. \A i \in d.parts[f] : m.known[i] = 0 => ReportedBefore(r, i, f)
  BY <1>2, <1>3, <1>4, <1>5 DEF Recorded
<1>13. ASSUME m.known[f] \in Rows(m), NEW c \in Kids(m, m.known[f]), NEW g \in ConfId \ {f},
              m.call[c].id \in d.parts[g]
       PROVE  Told(r, g)
  <2>1. Excused(d, f, m.call[c].id)
    BY <1>5, <1>13 DEF Faithful
  <2>2. ToldBefore(q, f, g)
    BY <1>2, <1>3, <1>4, <1>13, <2>1 DEF Excused
  <2>3. ToldBefore(r, f, g) => Told(r, g)
    BY DEF ToldBefore, Told
  <2> QED
    BY <1>4, <2>2, <2>3
<1> QED
  BY <1>3, <1>6, <1>7, <1>8, <1>9, <1>10, <1>11, <1>12, <1>13 DEF t, x

\* The delivery of conferenceChanged.
LEMMA ChangedDelivered ==
  ASSUME NEW m \in Formed, NEW d \in Rings, d.queue # <<>>, Fits(m, d), NEW f \in ConfId,
         Head(d.queue).id = f, Head(d.queue).signal = "conferenceChanged"
  PROVE  LET n == slotChangingConference(m, Taken(d), f)
         IN  n \in Formed /\ Fits(n, Taken(d))
<1> DEFINE t == Taken(d)
<1>0. Tells(Head(d.queue), f) /\ ~Makes(Head(d.queue), f)
  BY DEF Tells, Makes
<1>1. t \in Rings /\ t.confs = d.confs /\ t.parts = d.parts /\ Orderly(t)
  BY TakenFields, TakenOrderly DEF Fits
<1>2. /\ Announced(m, t)
      /\ \A g \in ConfId \ {f} : Recorded(m, t, g) /\ Faithful(m, t, g)
      /\ d.confs[f] # "free"
      /\ d.confs[f] = "removed" =>
           Ending(t.queue, f) \/ (m.known[f] \notin Rows(m) /\ ~Creating(d.queue, f))
      /\ \A i \in d.parts[f] : m.known[i] = 0 => ReportedBefore(t.queue, i, f)
      /\ ~Creating(t.queue, f) /\ (m.known[f] = 0 <=> Makes(Head(d.queue), f))
      /\ m.known[f] \in Rows(m) =>
           \A c \in Kids(m, m.known[f]) : \A g \in ConfId \ {f} :
             m.call[c].id \in d.parts[g] => Told(t.queue, g)
  BY <1>0, TellsTaken
<1> HIDE DEF t
<1>3. m.known[f] # 0
  BY <1>0, <1>2
<1>4. Recorded(m, t, f)
  <2>1. Recorded(m, d, f)
    BY DEF Fits, Core
  <2> QED
    BY <1>1, <1>2, <1>3, <2>1 DEF Recorded, Doomed
<1>5. Core(m, t, {f})
  BY <1>2, <1>4 DEF Core
<1>6. slotChangingConference(m, t, f) \in Formed /\ Fits(slotChangingConference(m, t, f), t)
  BY <1>1, <1>2, <1>3, <1>5, ChangingConferenceFits
<1> QED
  BY <1>6 DEF t

-----------------------------------------------------------------------------
(* A conference is created, or removed.                                    *)

\* What is appended to a sequence it was not in is in it once.
LEMMA AppendedNew ==
  ASSUME NEW S, NEW s \in Seq(S), NEW e, e \notin S, NEW t, t = Append(s, e)
  PROVE  Once(t, e)
<1> DEFINE n == Len(s)
<1>1. /\ n \in Nat /\ DOMAIN s = 1..n /\ DOMAIN t = 1..(n + 1)
      /\ \A j \in 1..n : t[j] = s[j]
  <2>1. s \in Seq(S \cup {e}) /\ e \in S \cup {e}
    OBVIOUS
  <2> QED
    BY <2>1, AppendProperties, LenProperties
<1>2. \A j \in 1..n : s[j] \in S
  BY <1>1
<1> HIDE DEF n
<1>3. \A j \in DOMAIN t : t[j] = e => j = n + 1
  BY <1>1, <1>2, OneMore
<1> QED
  BY <1>3 DEF Once

\* A conference that the daemon told of is added, without participants yet.
LEMMA AddedConferenceCore ==
  ASSUME NEW m \in Formed, NEW d \in Rings, NEW f \in ConfId,
         NEW c, Sane(c, Size(m)), c.type = "CONFERENCE", c.id = f, c.state = "CONFERENCE",
         c.children = <<>>, m.known[f] = 0, Announced(m, d),
         \A g \in ConfId \ {f} : Recorded(m, d, g) /\ Faithful(m, d, g),
         d.confs[f] # "free", ~Creating(d.queue, f),
         d.confs[f] = "removed" => Ending(d.queue, f),
         \A i \in d.parts[f] : m.known[i] = 0 => ReportedBefore(d.queue, i, f)
  PROVE  LET n == addCall(m, c)
         IN  /\ n \in Formed /\ Core(n, d, {f})
             /\ n.known[f] = Size(m) + 1 /\ Kids(n, Size(m) + 1) = {}
<1> DEFINE n == addCall(m, c)
           k == Size(m)
           o == Size(m) + 1
<1>1. m \in Typed
  BY DEF Formed
<1>2a. metaStateMap[c.state] # "FINISHED"
  BY DEF Ordinary, Reached, State, metaStateMap
<1>2. /\ n \in Typed /\ Size(n) = o
      /\ n.call[o] = c /\ \A p \in 1..k : n.call[p] = m.call[p]
      /\ \A i \in Ids : n.known[i] = IF i = c.id THEN o ELSE m.known[i]
      /\ n.rows = Append(m.rows, o)
      /\ n.checks = m.checks /\ n.removals = m.removals
      /\ n.started = m.started /\ n.crashed = m.crashed
  <2>1. LET x == addCall(m, c)
            y == Size(m) + 1
        IN  /\ x \in Typed /\ Size(x) = y
            /\ x.call[y] = c /\ \A p \in 1..Size(m) : x.call[p] = m.call[p]
            /\ \A i \in Ids : x.known[i] = IF i = c.id THEN y ELSE m.known[i]
            /\ x.rows = IF metaStateMap[c.state] = "FINISHED" THEN m.rows
                        ELSE Append(m.rows, y)
            /\ x.checks = m.checks /\ x.removals = m.removals
            /\ x.started = m.started /\ x.answer = m.answer /\ x.crashed = m.crashed
    BY <1>1, AddCallFields
  <2> QED
    BY <1>2a, <2>1
<1>3. k \in Nat /\ o = k + 1 /\ m.rows \in Seq(1..k) /\ 0 \notin 1..k
  BY <1>1, TypedFacts
<1>4. /\ \A p \in 1..k : p \in 1..o
      /\ o \notin 1..k /\ \A p \in 1..o : p = o \/ p \in 1..k
      /\ o # 0
  BY <1>3, OneMore
<1>5. Rows(n) = Rows(m) \cup {o} /\ Rows(m) \subseteq 1..k
  <2>1. ToSet(Append(m.rows, o)) = ToSet(m.rows) \cup {o}
    BY <1>3, AppendedSet
  <2> QED
    BY <1>2, <2>1, FormedFacts DEF Rows
<1>6. /\ Once(n.rows, o)
      /\ \A p \in 1..k : Once(m.rows, p) => Once(n.rows, p)
  <2> DEFINE S == 1..k
  <2>1. m.rows \in Seq(S) /\ o \notin S
    BY <1>3, <1>4
  <2> HIDE DEF S, n, o
  <2>2. Once(n.rows, o)
    BY <1>2, <2>1, AppendedNew
  <2>3. ASSUME NEW p, o # p, Once(m.rows, p) PROVE Once(n.rows, p)
    <3>1. m.rows \in Seq(S) /\ o # p /\ Once(m.rows, p) /\ n.rows = Append(m.rows, o)
      BY <1>2, <2>1, <2>3
    <3> QED
      BY <3>1, AppendedOnce
  <2> QED
    BY <1>4, <2>2, <2>3
<1>7. Timed(n) = Timed(m) /\ Timed(m) \subseteq 1..k
  <2>1. m.checks \in Seq(1..k) /\ m.removals \in Seq(1..k)
    BY <1>1, TypedFacts
  <2>2. ToSet(m.checks) \subseteq 1..k /\ ToSet(m.removals) \subseteq 1..k
    BY <2>1, ElementsOf
  <2> QED
    BY <1>2, <2>2 DEF Timed
<1>8. Kids(n, o) = {} /\ \A p \in 1..k : Kids(n, p) = Kids(m, p)
  BY <1>2 DEF Kids, ToSet
<1>9. \A p \in 1..k : Kids(m, p) \subseteq 1..k
  BY FormedFacts
<1>10. /\ n.known[f] = o
       /\ \A g \in ConfId \ {f} : n.known[g] = m.known[g] /\ m.known[g] \in 0..k
       /\ \A i \in CallId : n.known[i] = m.known[i] /\ m.known[i] \in 0..k
  <2>1. \A i \in Ids : m.known[i] \in 0..k
    BY <1>1, TypedFacts
  <2> QED
    BY <1>2, <2>1, CallIdAssumption DEF Ids
<1>11. \A x \in 0..k : x = 0 \/ x \in 1..k
  BY <1>3
<1>12. /\ \A p \in 1..k : IsConference(n, p) <=> IsConference(m, p)
       /\ IsConference(n, o)
  BY <1>2 DEF IsConference
<1> HIDE DEF n, k, o
<1>13. n \in Formed
  <2> SUFFICES ASSUME NEW p \in 1..o, IsConference(n, p) PROVE WellFormed(n, p)
    BY <1>2 DEF Formed
  <2>1. CASE p = o
    BY <1>2, <1>6, <1>8, <2>1 DEF WellFormed
  <2>2. CASE p \in 1..k
    <3>1. WellFormed(m, p) /\ n.call[p] = m.call[p]
      BY <1>2, <1>12, <2>2, FormedFacts DEF k
    <3>2. \A x \in Kids(n, p) : n.call[x].id \in CallId
      BY <1>2, <1>8, <1>9, <2>2, <3>1 DEF WellFormed
    <3> QED
      BY <1>6, <2>2, <3>1, <3>2 DEF WellFormed
  <2> QED
    BY <1>4, <2>1, <2>2
<1>14. Announced(n, d)
  BY <1>2, <1>10 DEF Announced
<1>15. ASSUME NEW g \in ConfId \ {f} PROVE Recorded(n, d, g) /\ Faithful(n, d, g)
  <2>1. /\ n.known[g] = m.known[g] /\ (m.known[g] = 0 \/ m.known[g] \in 1..k)
        /\ m.known[g] # o
    BY <1>4, <1>10, <1>11
  <2>2. m.known[g] \in Rows(n) <=> m.known[g] \in Rows(m)
    BY <1>5, <2>1
  <2>3. m.known[g] # 0 => n.call[m.known[g]] = m.call[m.known[g]]
    BY <1>2, <2>1
  <2>4. \A i \in d.parts[g] : i \in CallId
    BY DEF Rings
  <2>5. Recorded(n, d, g)
    BY <1>7, <1>10, <1>15, <2>1, <2>2, <2>3, <2>4 DEF Recorded
  <2>6. Faithful(n, d, g)
    <3> SUFFICES ASSUME m.known[g] \in Rows(m), m.known[g] # 0
                 PROVE  /\ \A i \in d.parts[g] : Told(d.queue, g) \/ Under(n, i, g)
                        /\ \A c2 \in Kids(n, m.known[g]) : Excused(d, g, n.call[c2].id)
      BY <1>3, <1>5, <2>1, <2>2 DEF Faithful
    <3>1. Kids(n, m.known[g]) = Kids(m, m.known[g]) /\ Kids(m, m.known[g]) \subseteq 1..k
      BY <1>8, <1>9, <2>1
    <3>2. \A i \in CallId : Under(m, i, g) => Under(n, i, g)
      <4> SUFFICES ASSUME NEW i \in CallId, Under(m, i, g) PROVE Under(n, i, g)
        OBVIOUS
      <4>1. n.known[i] = m.known[i] /\ m.known[i] \in 1..k
        BY <1>10, <1>11 DEF Under
      <4>2. n.call[m.known[i]] = m.call[m.known[i]]
        BY <1>2, <4>1
      <4> QED
        BY <2>1, <3>1, <4>1, <4>2 DEF Under
    <3>3. \A x \in Kids(m, m.known[g]) : n.call[x].id = m.call[x].id
      BY <1>2, <3>1
    <3>4. /\ \A i \in d.parts[g] : Told(d.queue, g) \/ Under(m, i, g)
          /\ \A x \in Kids(m, m.known[g]) : Excused(d, g, m.call[x].id)
      BY <1>15 DEF Faithful
    <3> QED
      BY <2>4, <3>1, <3>2, <3>3, <3>4
  <2> QED
    BY <2>5, <2>6
<1>16. Recorded(n, d, f)
  <2>1. \A i \in d.parts[f] : n.known[i] = m.known[i]
    BY <1>10 DEF Rings
  <2> QED
    BY <1>4, <1>5, <1>7, <1>10, <2>1 DEF Recorded
<1>17. Core(n, d, {f})
  BY <1>14, <1>15, <1>16 DEF Core
<1> QED
  BY <1>8, <1>10, <1>13, <1>17 DEF n, o

\* The delivery of conferenceCreated.
LEMMA CreatedDelivered ==
  ASSUME NEW m \in Formed, NEW d \in Rings, d.queue # <<>>, Fits(m, d), NEW f \in ConfId,
         Head(d.queue).id = f, Head(d.queue).signal = "conferenceCreated"
  PROVE  LET n == slotIncomingConference(m, Taken(d), f)
         IN  n.crashed \/ (n \in Formed /\ Fits(n, Taken(d)))
<1> DEFINE t == Taken(d)
           n == slotIncomingConference(m, t, f)
<1>0. Tells(Head(d.queue), f) /\ Makes(Head(d.queue), f)
  BY DEF Tells, Makes
<1>1. t \in Rings /\ t.confs = d.confs /\ t.parts = d.parts /\ Orderly(t)
  BY TakenFields, TakenOrderly DEF Fits
<1>2. /\ Announced(m, t)
      /\ \A g \in ConfId \ {f} : Recorded(m, t, g) /\ Faithful(m, t, g)
      /\ d.confs[f] # "free"
      /\ d.confs[f] = "removed" =>
           Ending(t.queue, f) \/ (m.known[f] \notin Rows(m) /\ ~Creating(d.queue, f))
      /\ \A i \in d.parts[f] : m.known[i] = 0 => ReportedBefore(t.queue, i, f)
      /\ ~Creating(t.queue, f) /\ (m.known[f] = 0 <=> Makes(Head(d.queue), f))
  BY <1>0, TellsTaken
<1>3. Creating(d.queue, f)
  <2>1. d.queue \in Seq(Signals) /\ d.queue # <<>>
    BY DEF Rings
  <2>2. 1 \in DOMAIN d.queue /\ d.queue[1] = Head(d.queue)
    BY <2>1
  <2> QED
    BY <1>0, <2>2 DEF Creating
<1> HIDE DEF t
<1>4. m.known[f] = 0
  BY <1>0, <1>2
<1>5. CASE NoAccount(m, t, f)
  <2>1. n = Crash(m)
    BY <1>4, <1>5 DEF slotIncomingConference
  <2>2. m \in Models
    BY TypedFacts DEF Formed
  <2>3. n.crashed
    BY <2>1, <2>2 DEF Crash, Models
  <2> QED
    BY <2>3 DEF t
<1>6. CASE ~NoAccount(m, t, f)
  <2> DEFINE c == NewCall("CONFERENCE", f, "CONFERENCE")
             added == addCall(m, c)
  <2>0. m \in Typed
    BY DEF Formed
  <2>1. Sane(c, Size(m)) /\ c.id = f /\ c.type = "CONFERENCE" /\ c.state = "CONFERENCE"
    BY <2>0, NewConference
  <2>2. c.children = <<>>
    BY DEF NewCall
  <2>3. n = AdoptAll(added, added.known[f], Participants(t, f))
    BY <1>4, <1>6 DEF slotIncomingConference, addConference
  <2> HIDE DEF c, n
  <2>4. /\ added \in Formed /\ Core(added, t, {f})
        /\ added.known[f] = Size(m) + 1 /\ Kids(added, Size(m) + 1) = {}
    BY <1>1, <1>2, <1>3, <1>4, <2>1, <2>2, AddedConferenceCore
  <2>5. added.known[f] # 0 /\ Kids(added, added.known[f]) = {}
    BY <2>0, <2>4, TypedFacts
  <2> HIDE DEF added
  <2>6. n \in Mild(added, t, f) /\ Filled(n, t, f)
    BY <1>1, <2>3, <2>4, <2>5, AdoptAllMild
  <2>7. n \in Formed
    BY <1>1, <2>4, <2>6, MildFacts
  <2>8. Core(n, t, {f})
    BY <1>1, <2>4, <2>6, CoreMild
  <2>9. Fits(n, t)
    BY <1>1, <2>6, <2>7, <2>8, FilledFits
  <2> QED
    BY <2>7, <2>9 DEF n, t
<1> QED
  BY <1>5, <1>6

\* The delivery of conferenceRemoved.  The conference was created before, so that the
\* handler finds it; what it leaves of it is not listed.
LEMMA RemovedDelivered ==
  ASSUME NEW m \in Formed, NEW d \in Rings, d.queue # <<>>, Fits(m, d), NEW f \in ConfId,
         Head(d.queue).id = f, Head(d.queue).signal = "conferenceRemoved"
  PROVE  LET n == slotConferenceRemoved(m, f)
         IN  n \in Formed /\ Fits(n, Taken(d))
<1> DEFINE t == Taken(d)
           x == Head(d.queue)
           q == d.queue
           r == t.queue
           o == m.known[f]
           n == removeConference(m, o)
           X == {o}
           F == {}
<1>1. /\ t \in Rings /\ t.calls = d.calls /\ t.confs = d.confs /\ t.parts = d.parts
      /\ r = Tail(q) /\ r \in Seq(Signals) /\ q \in Seq(Signals)
  BY TakenFields DEF Rings
<1>2. /\ x.id = f /\ Ends(x, f) /\ (\A g : ~Tells(x, g) /\ ~Makes(x, g))
      /\ (\A g : g # f => ~Ends(x, g)) /\ (\A i : ~Says(x, i))
  BY DEF Tells, Makes, Ends, Says
<1>3. Orderly(t)
  BY TakenOrderly DEF Fits
<1> HIDE DEF t, x, q, r
<1>4. x = Head(q) /\ q # <<>> /\ q = d.queue /\ r = t.queue /\ Orderly(d) /\ Core(m, d, {})
  BY DEF x, q, r, Fits
<1>5. /\ \A g : Creating(q, g) <=> Creating(r, g) \/ Makes(x, g)
      /\ \A g : Ending(q, g) <=> Ending(r, g) \/ Ends(x, g)
      /\ \A g : Told(q, g) <=> Told(r, g) \/ Tells(x, g)
      /\ \A i : Reported(q, i) <=> Reported(r, i) \/ Says(x, i)
      /\ \A g, h : ToldBefore(q, g, h) <=> ToldBefore(r, g, h) \/ (Tells(x, g) /\ Told(r, h))
      /\ \A i, g : ReportedBefore(q, i, g)
                     <=> ReportedBefore(r, i, g) \/ (Says(x, i) /\ Told(r, g))
      /\ \A g : First(q, g) /\ x.id = g => ~Creating(r, g)
  BY <1>1, <1>4, QueueTaken
<1>6. d.confs[f] = "removed" /\ ~Creating(q, f) /\ ~Creating(r, f)
  BY <1>2, <1>4, <1>5 DEF Orderly
<1>7. o # 0 /\ Doomed(d, f)
  BY <1>4, <1>6 DEF Core, Recorded, Doomed
<1>8. m \in Typed /\ f \in Ids
  BY DEF Formed, Ids
<1>9. o \in 1..Size(m) /\ IsConference(m, o)
  BY <1>7, <1>8, KnownObject DEF IsConference
<1>10. n \in Tame(m, X) /\ o \notin Rows(n)
  <2> HIDE DEF o
  <2> QED
    BY <1>9, RemoveConferenceTame
<1>11. \A g \in ConfId : m.known[g] # 0 /\ m.known[g] \in X => Doomed(d, g)
  <2> SUFFICES ASSUME NEW g \in ConfId, m.known[g] # 0, m.known[g] = m.known[f]
               PROVE  g = f
    BY <1>7
  <2>1. m.call[m.known[g]].id = g /\ m.call[m.known[f]].id = f
    BY <1>7, <1>8, TypedFacts DEF Ids
  <2> QED
    BY <2>1
<1>12. n \in Formed /\ \A g \in ConfId : n.known[g] = m.known[g]
  BY <1>10 DEF Tame
<1>13. Core(m, d, F)
  BY <1>4
<1> HIDE DEF n, X, F
<1>14. Core(n, d, F)
  BY <1>10, <1>11, <1>13, CoreTame
<1>15. Announced(n, d) /\ \A g \in ConfId : Recorded(n, d, g) /\ Faithful(n, d, g)
  BY <1>14 DEF Core, F
<1>16. /\ \A g : Creating(q, g) <=> Creating(r, g)
       /\ \A g : Told(q, g) <=> Told(r, g)
       /\ \A i : Reported(q, i) <=> Reported(r, i)
       /\ \A i, g : ReportedBefore(q, i, g) <=> ReportedBefore(r, i, g)
       /\ \A g, h : ToldBefore(q, g, h) <=> ToldBefore(r, g, h)
       /\ \A g : g # f => (Ending(q, g) <=> Ending(r, g))
  BY <1>2, <1>5
<1>17. Announced(n, t)
  BY <1>1, <1>4, <1>15, <1>16 DEF Announced
<1>18. ASSUME NEW g \in ConfId PROVE Recorded(n, t, g) /\ Faithful(n, t, g)
  <2>1. \A i : Excused(d, g, i) => Excused(t, g, i)
    BY <1>1, <1>4, <1>16 DEF Excused
  <2>2. Faithful(n, t, g)
    BY <1>1, <1>4, <1>15, <1>16, <2>1 DEF Faithful
  <2>3. Recorded(n, d, g)
    BY <1>15
  <2>4. d.confs[g] = "removed" =>
          Ending(r, g) \/ (n.known[g] \notin Rows(n) /\ ~Creating(r, g))
    <3>1. CASE g = f
      BY <1>6, <1>10, <1>12, <3>1
    <3>2. CASE g # f
      BY <1>4, <1>16, <2>3, <3>2 DEF Recorded
    <3> QED
      BY <3>1, <3>2
  <2>5. Recorded(n, t, g)
    BY <1>1, <1>4, <1>16, <2>3, <2>4 DEF Recorded, Doomed
  <2> QED
    BY <2>2, <2>5
<1>19. Fits(n, t)
  BY <1>3, <1>17, <1>18 DEF Fits, Core
<1>20. slotConferenceRemoved(m, f) = n
  BY <1>7 DEF slotConferenceRemoved, n
<1> QED
  BY <1>12, <1>19, <1>20 DEF t

\* Every signal.
LEMMA DeliveredFits ==
  ASSUME NEW m \in Formed, NEW d \in Rings, d.queue # <<>>, Fits(m, d)
  PROVE  LET done == Delivered(m, Taken(d), Head(d.queue))
         IN  done.model.crashed \/ (done.model \in Formed /\ Fits(done.model, done.ring))
<1> DEFINE e == Head(d.queue)
           f == e.id
           t == Taken(d)
           done == Delivered(m, t, e)
<1>1. t \in Rings /\ e \in Signals
  BY TakenFields
<1>2. CASE f \in CallId
  BY <1>2, CallDelivered
<1>3. CASE f \notin CallId
  <2>1. /\ f \in ConfId
        /\ e.signal \in {"conferenceCreated", "conferenceChanged", "conferenceRemoved"}
    BY <1>1, <1>3 DEF Signals
  <2>2. CASE e.signal = "conferenceCreated"
    <3>1. done.model = slotIncomingConference(m, t, f) /\ done.ring = t
      BY <2>2 DEF Delivered
    <3>2. LET n == slotIncomingConference(m, Taken(d), f)
          IN  n.crashed \/ (n \in Formed /\ Fits(n, Taken(d)))
      <4> HIDE DEF f
      <4> QED
        BY <2>1, <2>2, CreatedDelivered DEF f
    <3> QED
      BY <3>1, <3>2
  <2>3. CASE e.signal = "conferenceChanged"
    <3>1. done.model = slotChangingConference(m, t, f) /\ done.ring = t
      BY <2>3 DEF Delivered
    <3>2. LET n == slotChangingConference(m, Taken(d), f)
          IN  n \in Formed /\ Fits(n, Taken(d))
      BY <2>1, <2>3, ChangedDelivered
    <3> QED
      BY <3>1, <3>2
  <2>4. CASE e.signal = "conferenceRemoved"
    <3>1. done.model = slotConferenceRemoved(m, f) /\ done.ring = t
      BY <2>4 DEF Delivered
    <3>2. LET n == slotConferenceRemoved(m, f)
          IN  n \in Formed /\ Fits(n, Taken(d))
      BY <2>1, <2>4, RemovedDelivered
    <3> QED
      BY <3>1, <3>2
  <2> QED
    BY <2>1, <2>2, <2>3, <2>4
<1> QED
  BY <1>2, <1>3

\* What start makes of the list: the calls of D are known, and no other.
Opened(m, D) ==
  {x \in Tame(m, {}) : \A i \in CallId : x.known[i] # 0 <=> i \in D}

LEMMA AddExistingOpened ==
  ASSUME NEW d \in Rings, NEW m \in Formed, NEW D \in SUBSET CallId, NEW x \in Opened(m, D),
         NEW i \in CallId \ D, Known(d, i)
  PROVE  addExistingCall(x, d, i) \in Opened(m, D \cup {i})
<1> DEFINE n == addExistingCall(x, d, i)
           X == {}
<1>1. x \in Tame(m, {}) /\ x \in Formed /\ x.known[i] = 0
  BY DEF Opened, Tame
<1>2. n \in Tame(x, {}) /\ n.known[i] # 0
  BY <1>1, AddExistingTame
<1>3. n \in Tame(m, {})
  <2>1. x \in Tame(m, X) /\ n \in Tame(x, X)
    BY <1>1, <1>2
  <2> HIDE DEF X, n
  <2>2. n \in Tame(m, X)
    BY <2>1, TameThen
  <2> QED
    BY <2>2 DEF X
<1>4. \A j \in CallId : j # i => n.known[j] = x.known[j]
  <2>1. x \in Typed
    BY <1>1 DEF Formed
  <2>2. n \in Grown(x, {i})
    <3>1. n \in Grown(x, IF Known(d, i) THEN {i} ELSE {})
      BY <2>1, AddExistingCallGrown
    <3> QED
      BY <3>1
  <2> HIDE DEF n
  <2> QED
    BY <2>2 DEF Grown, Ids
<1> HIDE DEF n
<1> QED
  BY <1>2, <1>3, <1>4 DEF Opened, n

-----------------------------------------------------------------------------
(* The start, the timers and the user.                                     *)

\* The calls and the conferences that the daemon has are listed.  There is no conference:
\* its signals would have been queued, and none is before the start.
LEMMA StartFits ==
  ASSUME TypeInv, Separate(model, ring), model \in Formed, Fits(model, ring), Start
  PROVE  model' \in Formed /\ Fits(model', ring')
<1> DEFINE C == {i \in CallId : Known(ring, i)}
           F == {f \in ConfId : ring.confs[f] = "live"}
           U == Typed
           added == AddedCalls(model, ring, C)
           done == AddedConferences(added, ring, F)
           n == [done EXCEPT !.started = TRUE]
<1>1. /\ ring \in Rings /\ model \in Typed /\ model' = n /\ ring' = ring
      /\ ring.queue = <<>> /\ \A i \in Ids : model.known[i] = 0
  BY DEF TypeInv, Separate, Start, AddedCalls, AddedConferences
<1>2. F = {}
  <2>1. \A f \in ConfId : ~Creating(ring.queue, f)
    BY <1>1 DEF Creating
  <2>2. \A f \in ConfId : Recorded(model, ring, f)
    BY DEF Fits, Core
  <2> QED
    BY <1>1, <2>1, <2>2 DEF Recorded, Ids
<1>3. C \in SUBSET CallId /\ \A i \in C : Known(ring, i)
  OBVIOUS
<1>4. IsFiniteSet(C) /\ IsFiniteSet(F)
  BY <1>2, <1>3, CallIdAssumption, FS_Subset, FS_EmptySet
<1>5. \A i \in CallId : ring.calls[i] = "current" => i \in C
  BY DEF Known, Alive
<1> HIDE DEF C, F
<1>6. added \in Opened(model, C)
  <2> DEFINE f == [p \in U \X C |-> addExistingCall(p[1], ring, p[2])]
             g == [D \in SUBSET C |-> Opened(model, D)]
  <2>1. \A D \in SUBSET C : \A x \in Opened(model, D), i \in C \ D :
          x \in U /\ f[<<x, i>>] \in Opened(model, D \cup {i})
    <3> SUFFICES ASSUME NEW D \in SUBSET C, NEW x \in Opened(model, D), NEW i \in C \ D
                 PROVE  x \in U /\ f[<<x, i>>] \in Opened(model, D \cup {i})
      OBVIOUS
    <3>1. x \in U
      BY DEF Opened, Tame, Formed
    <3>2. D \in SUBSET CallId /\ i \in CallId \ D /\ Known(ring, i)
      BY <1>3
    <3>3. addExistingCall(x, ring, i) \in Opened(model, D \cup {i})
      BY <1>1, <3>2, AddExistingOpened
    <3> QED
      BY <3>1, <3>3
  <2>2. /\ \A D \in SUBSET C : g[D] = Opened(model, D)
        /\ C \in SUBSET C /\ {} \in SUBSET C
        /\ \A D \in SUBSET C, i \in C : D \cup {i} \in SUBSET C
    OBVIOUS
  <2>3. model \in Opened(model, {})
    BY <1>1, TameReflexive DEF Opened, Ids
  <2> HIDE DEF f, g, U
  <2>4. model \in g[{}]
    BY <2>2, <2>3
  <2>5. \A D \in SUBSET C : g[D] \subseteq U
    <3> SUFFICES ASSUME NEW D \in SUBSET C PROVE Opened(model, D) \subseteq U
      BY <2>2
    <3> QED
      BY DEF Opened, Tame, Formed, U
  <2>6. ASSUME NEW D \in SUBSET C, NEW i \in C \ D, NEW x \in g[D]
        PROVE  f[<<x, i>>] \in g[D \cup {i}]
    <3>1. x \in Opened(model, D)
      BY <2>2, <2>6
    <3>2. f[<<x, i>>] \in Opened(model, D \cup {i})
      BY <2>1, <3>1
    <3>3. D \cup {i} \in SUBSET C
      OBVIOUS
    <3> QED
      BY <2>2, <3>2, <3>3
  <2>7. Graded(C, U, g, model, f)
    BY <1>4, <2>4, <2>5, <2>6 DEF Graded
  <2>8. added \in g[C]
    BY <2>7, AddedCallsReach DEF f
  <2> QED
    BY <2>2, <2>8
<1> HIDE DEF added
<1>7. done \in Opened(model, C)
  <2> DEFINE f == [p \in U \X F |-> addConference(p[1], ring, p[2])]
             B == Opened(model, C)
             g == [D \in SUBSET F |-> B]
  <2>1. \A D \in SUBSET F : g[D] = B
    OBVIOUS
  <2>2. B \subseteq U
    BY DEF Opened, Tame, Formed
  <2>3. F \in SUBSET F /\ {} \in SUBSET F /\ \A D \in SUBSET F : F \ D = {}
    BY <1>2
  <2>4. added \in B
    BY <1>6
  <2> HIDE DEF f, g, B, U
  <2>5. Graded(F, U, g, added, f)
    BY <1>4, <2>1, <2>2, <2>3, <2>4 DEF Graded
  <2>6. done \in g[F]
    BY <2>5, AddedConferencesReach DEF f
  <2> QED
    BY <2>1, <2>3, <2>6 DEF B
<1> HIDE DEF done
<1>8. done \in Formed /\ Fits(done, ring) /\ \A i \in C : done.known[i] # 0
  <2>1. done \in Tame(model, {}) /\ \A i \in C : done.known[i] # 0
    BY <1>3, <1>7 DEF Opened
  <2>2. done \in Formed /\ Fits(done, ring)
    BY <1>1, <2>1, TameFits
  <2> QED
    BY <2>1, <2>2
<1>9. /\ n.known = done.known /\ n.call = done.call /\ n.rows = done.rows
      /\ n.checks = done.checks /\ n.removals = done.removals
      /\ n \in Typed /\ Size(n) = Size(done)
  <2>1. done \in Typed
    BY <1>8 DEF Formed
  <2>2. done \in Models
    BY <2>1, TypedFacts
  <2>3. /\ n.known = done.known /\ n.call = done.call /\ n.rows = done.rows
        /\ n.checks = done.checks /\ n.removals = done.removals /\ n \in Models
    BY <2>2 DEF Models
  <2> QED
    BY <2>1, <2>3 DEF Typed, Size
<1> HIDE DEF n
<1>10. n \in Formed
  BY <1>8, <1>9 DEF Formed, IsConference, WellFormed, Kids
<1>11. Announced(n, ring)
  BY <1>5, <1>8, <1>9 DEF Announced
<1>12. ASSUME NEW f \in ConfId PROVE Recorded(n, ring, f) /\ Faithful(n, ring, f)
  <2>1. Recorded(done, ring, f) /\ Faithful(done, ring, f)
    BY <1>8 DEF Fits, Core
  <2>2. Recorded(n, ring, f)
    BY <1>9, <2>1 DEF Recorded, Rows, Timed
  <2>3. Faithful(n, ring, f)
    BY <1>9, <2>1 DEF Faithful, Rows, Kids, Under
  <2> QED
    BY <2>2, <2>3
<1>13. Fits(n, ring)
  BY <1>8, <1>11, <1>12 DEF Fits, Core
<1> QED
  BY <1>1, <1>10, <1>13

\* A handler that changes what the timers are about, and puts nothing listed on one.
LEMMA TimersTame ==
  ASSUME NEW m \in Formed, NEW n \in From(m), n.call = m.call, n.rows = m.rows,
         Timed(n) \subseteq Timed(m)
  PROVE  n \in Tame(m, {})
<1> DEFINE X == {}
<1>1. \A o \in 1..Size(m) : IsConference(m, o) =>
        Once(n.rows, o) /\ n.call[o].state \in {"CONFERENCE", "CURRENT", "OVER"}
  BY DEF Formed, WellFormed
<1>2. \A o \in 1..Size(m) : Stays(m, n, X, o)
  BY DEF Stays, Rows
<1> HIDE DEF X
<1>3. n \in Tame(m, X)
  BY <1>1, <1>2, TameBy
<1> QED
  BY <1>3 DEF X

LEMMA CheckFits ==
  ASSUME TypeInv, model \in Formed, Fits(model, ring), Check
  PROVE  model' \in Formed /\ Fits(model', ring')
<1> DEFINE o == Head(model.checks)
           t == Tail(model.checks)
           rest == [model EXCEPT !.checks = t]
           later == [rest EXCEPT !.removals = Append(@, o)]
           X == {}
<1>1. model \in Typed /\ ring \in Rings /\ ring' = ring /\ model.checks # <<>>
  BY DEF TypeInv, Check
<1>2. /\ o \in 1..Size(model) /\ t \in Seq(1..Size(model))
      /\ ToSet(model.checks) = ToSet(t) \cup {o}
  <2>1. model.checks \in Seq(1..Size(model)) /\ model.checks # <<>>
    BY <1>1, TypedFacts
  <2> QED
    BY <2>1, HeadTailProperties, HeadAndTail
<1>3. \/ model.call[o].state = "ABORTED" /\ model' = removeCall(rest, o)
      \/ model' \in {later, rest}
  BY DEF Check
<1> HIDE DEF o, t
<1>4. /\ rest \in From(model) /\ rest.call = model.call /\ rest.rows = model.rows
      /\ rest.checks = t /\ rest.removals = model.removals
  <2>1. rest \in From(model)
    BY <1>1, <1>2, ListsFields
  <2> QED
    BY <1>1, <2>1, TypedFacts DEF Models
<1> HIDE DEF rest
<1>5. rest \in Tame(model, {})
  <2>1. Timed(rest) \subseteq Timed(model)
    BY <1>2, <1>4 DEF Timed
  <2> QED
    BY <1>4, <2>1, TimersTame
<1>6. rest \in Typed /\ Size(rest) = Size(model) /\ \A p \in From(rest) : p \in From(model)
  BY <1>1, <1>4, ThenFrom
<1>7. later \in Tame(model, {})
  <2> DEFINE s == Append(rest.removals, o)
  <2>1. rest.removals \in Seq(1..Size(rest)) /\ o \in 1..Size(rest)
    BY <1>2, <1>6, TypedFacts
  <2>2. s \in Seq(1..Size(rest)) /\ ToSet(s) = ToSet(rest.removals) \cup {o}
    BY <1>6, <2>1, AppendProperties, AppendedSet
  <2>3. later = [rest EXCEPT !.removals = s]
    OBVIOUS
  <2> HIDE DEF s, later
  <2>4. later \in From(rest)
    BY <1>6, <2>2, <2>3, ListsFields
  <2>5. /\ later.call = model.call /\ later.rows = model.rows
        /\ later.checks = t /\ later.removals = s
    BY <1>4, <1>6, <2>3, TypedFacts DEF Models
  <2>6. Timed(later) \subseteq Timed(model)
    BY <1>2, <1>4, <2>2, <2>5 DEF Timed
  <2> QED
    BY <1>6, <2>4, <2>5, <2>6, TimersTame
<1> HIDE DEF later
<1>8. CASE model.call[o].state = "ABORTED" /\ model' = removeCall(rest, o)
  <2>1. rest \in Formed /\ Fits(rest, ring)
    BY <1>1, <1>5, TameFits
  <2>2. ~IsConference(rest, o) /\ o \in 1..Size(rest)
    BY <1>2, <1>4, <1>6, <1>8, <2>1 DEF Formed, WellFormed
  <2> HIDE DEF X
  <2>3. model' \in Tame(rest, X)
    BY <1>8, <2>1, <2>2, RemoveCallTame
  <2>4. model' \in Tame(rest, {})
    BY <2>3 DEF X
  <2> QED
    BY <1>1, <2>1, <2>4, TameFits
<1>9. CASE model' \in {later, rest}
  <2>1. model' \in Tame(model, {})
    BY <1>5, <1>7, <1>9
  <2> QED
    BY <1>1, <2>1, TameFits
<1> QED
  BY <1>3, <1>8, <1>9

\* A conference that a timer takes out of the list was doomed when it was put on it.
LEMMA AutoCleanFits ==
  ASSUME TypeInv, model \in Formed, Fits(model, ring), AutoClean
  PROVE  model' \in Formed /\ Fits(model', ring')
<1> DEFINE o == Head(model.removals)
           t == Tail(model.removals)
           rest == [model EXCEPT !.removals = t]
           X == {o} \cap Rows(model)
           F == {}
<1>1. model \in Typed /\ ring \in Rings /\ ring' = ring /\ model.removals # <<>>
  BY DEF TypeInv, AutoClean
<1>2. /\ o \in 1..Size(model) /\ t \in Seq(1..Size(model))
      /\ ToSet(model.removals) = ToSet(t) \cup {o}
  <2>1. model.removals \in Seq(1..Size(model)) /\ model.removals # <<>>
    BY <1>1, TypedFacts
  <2> QED
    BY <2>1, HeadTailProperties, HeadAndTail
<1>3. model' = removeCall(rest, o)
  BY DEF AutoClean
<1> HIDE DEF o, t
<1>4. /\ rest \in From(model) /\ rest.call = model.call /\ rest.rows = model.rows
      /\ rest.checks = model.checks /\ rest.removals = t /\ rest.known = model.known
  <2>1. rest \in From(model)
    BY <1>1, <1>2, ListsFields
  <2> QED
    BY <1>1, <2>1, TypedFacts DEF Models
<1> HIDE DEF rest
<1>5. rest \in Tame(model, {})
  <2>1. Timed(rest) \subseteq Timed(model)
    BY <1>2, <1>4 DEF Timed
  <2> QED
    BY <1>4, <2>1, TimersTame
<1>6. rest \in Formed /\ Fits(rest, ring) /\ Size(rest) = Size(model)
  BY <1>1, <1>4, <1>5, TameFits, ThenFrom
<1>7. o \in X \/ o \notin Rows(rest)
  BY <1>4 DEF Rows
<1>8. \A f \in ConfId : rest.known[f] # 0 /\ rest.known[f] \in X => Doomed(ring, f)
  <2> SUFFICES ASSUME NEW f \in ConfId, model.known[f] = o, o \in Rows(model)
               PROVE  Doomed(ring, f)
    BY <1>4
  <2>1. o \in Timed(model)
    BY <1>2 DEF Timed
  <2> QED
    BY <2>1 DEF Fits, Core, Recorded
<1> HIDE DEF X, F
<1>9. model' \in Tame(rest, X)
  BY <1>2, <1>3, <1>6, <1>7, RemoveCallTame
<1>10. Core(rest, ring, F) /\ Orderly(ring)
  BY <1>6 DEF Fits, F
<1>11. Core(model', ring, F)
  BY <1>1, <1>6, <1>8, <1>9, <1>10, CoreTame
<1>12. model' \in Formed
  BY <1>9 DEF Tame
<1> QED
  BY <1>1, <1>10, <1>11, <1>12 DEF Fits, F

\* The identifiers of the objects.
LEMMA Identifiers ==
  ASSUME NEW m \in Typed, NEW o \in 1..Size(m)
  PROVE  /\ IsConference(m, o) <=> m.call[o].id \in ConfId
         /\ m.call[o].id \in CallId \cup ConfId \cup {""}
<1>1. Sane(m.call[o], Size(m)) /\ m.call[o] \in Record(Size(m))
  BY TypedFacts
<1> QED
  BY <1>1 DEF Sane, Record, IsConference, Ids

LEMMA DialingCallFits ==
  ASSUME TypeInv, model \in Formed, Fits(model, ring), DialingCall
  PROVE  model' \in Formed /\ Fits(model', ring')
<1> DEFINE c == NewCall("CALL", "", "DIALING")
<1>1. model \in Typed /\ ring \in Rings
  BY DEF TypeInv
<1>2. model' = addCall(model, c) /\ ring' = ring
  BY DEF DialingCall
<1>3. Sane(c, Size(model)) /\ c.id = "" /\ c.type = "CALL"
  BY <1>1, NewDialedCall
<1> HIDE DEF c
<1>4. model' \in Tame(model, {})
  BY <1>2, <1>3, AddCallTame
<1> QED
  BY <1>1, <1>2, <1>4, TameFits

LEMMA PlaceCallFits ==
  ASSUME TypeInv, ~EarlySignals, Separate(model, ring), model \in Formed, Fits(model, ring),
         NEW o \in Listed(model), PlaceCall(o)
  PROVE  model' \in Formed /\ Fits(model', ring')
<1>1. model \in Typed /\ ring \in Rings /\ o \in 1..Size(model)
  BY ListedObjects DEF TypeInv
<1>2. PICK i \in CallId :
        /\ model.call[o].state = "DIALING" /\ ring.calls[i] = "free"
        /\ model' = Placed(model, o, i)
        /\ ring' = Moved(ring, i, "connecting", "CONNECTING")
  BY DEF PlaceCall, Placed
<1>3. model.known[i] = 0
  BY <1>2 DEF Separate
<1>4. model' \in Tame(model, {})
  BY <1>1, <1>2, <1>3, PlacedTame
<1>5. model' \in Formed /\ Fits(model', ring)
  BY <1>1, <1>4, TameFits
<1>6. ring' \in Shrunk(ring)
  <2>1. "connecting" \in DaemonCall \ {"free"} /\ "CONNECTING" \in DaemonReports
    BY DEF DaemonCall, Alive, DaemonReports
  <2>2. Orderly(ring)
    BY DEF Fits
  <2>3. ConferencesOf(ring, i) = {} /\ ring.calls[i] \notin FinalCall
    BY <1>2, <2>2 DEF ConferencesOf, Orderly, FinalCall
  <2> QED
    BY <1>1, <1>2, <2>1, <2>2, <2>3, MovedShrunk
<1> QED
  BY <1>1, <1>5, <1>6, ShrunkFits

\* The user hangs up a conference: its calls are ended, so that its row is not missed.
LEMMA ConferenceHungUpFits ==
  ASSUME TypeInv, model \in Formed, Fits(model, ring), NEW o \in 1..Size(model),
         IsConference(model, o), PerformAction(o, "REFUSE")
  PROVE  model' \in Formed /\ Fits(model', ring')
<1> DEFINE f == model.call[o].id
           X == {o}
           F == {}
           e == HungUpConference(ring, f)
<1>1. model \in Typed /\ ring \in Rings /\ model.call[o].state # "OVER"
      /\ model' = Performed(model, ring, o, "REFUSE").model
      /\ ring' = Performed(model, ring, o, "REFUSE").ring
  BY DEF TypeInv, PerformAction
<1>2. model' \in Tame(model, X) /\ ring' = e
  BY <1>1, ConferencePerformed
<1>3. f \in ConfId
  BY <1>1, Identifiers
<1>4. e \in Shrunk(ring) /\ e.parts[f] = {}
  <2>1. Orderly(ring)
    BY DEF Fits
  <2> HIDE DEF f
  <2> QED
    BY <1>1, <1>3, <2>1, HungUpConferenceShrunk
<1> HIDE DEF e
<1>5. e \in Rings /\ Fits(model, e)
  BY <1>1, <1>4, ShrunkFits
<1>6. \A g \in ConfId : model.known[g] # 0 /\ model.known[g] \in X => Doomed(e, g)
  <2> SUFFICES ASSUME NEW g \in ConfId, model.known[g] # 0, model.known[g] = o
               PROVE  Doomed(e, g)
    OBVIOUS
  <2>1. model.call[model.known[g]].id = g
    BY <1>1, TypedFacts DEF Ids
  <2> QED
    BY <1>4, <2>1 DEF Doomed
<1>7. Core(model, e, F) /\ Orderly(e)
  BY <1>5 DEF Fits
<1> HIDE DEF X, F
<1>8. Core(model', e, F)
  BY <1>2, <1>5, <1>6, <1>7, CoreTame
<1>9. model' \in Formed
  BY <1>2 DEF Tame
<1> QED
  BY <1>2, <1>7, <1>8, <1>9 DEF Fits, F

LEMMA PerformActionFits ==
  ASSUME TypeInv, model \in Formed, Fits(model, ring), NEW o \in Listed(model),
         NEW a \in {"ACCEPT", "REFUSE"}, PerformAction(o, a)
  PROVE  model' \in Formed /\ Fits(model', ring')
<1>1. model \in Typed /\ ring \in Rings /\ o \in 1..Size(model)
  BY ListedObjects DEF TypeInv
<1>2. CASE IsConference(model, o)
  <2>1. model.call[o].state \in {"CONFERENCE", "CURRENT", "OVER"}
    BY <1>1, <1>2 DEF Formed, WellFormed
  <2>2. a = "REFUSE"
    BY <2>1 DEF PerformAction
  <2> QED
    BY <1>1, <1>2, <2>2, ConferenceHungUpFits
<1>3. CASE ~IsConference(model, o)
  <2> DEFINE n == Performed(model, ring, o, a).model
             e == Performed(model, ring, o, a).ring
  <2>1. model' = n /\ ring' = e
    BY DEF PerformAction
  <2>2. n \in Tame(model, {}) /\ Fits(n, e)
    BY <1>1, <1>3, PerformedFits
  <2> QED
    BY <2>1, <2>2 DEF Tame
<1> QED
  BY <1>2, <1>3

LEMMA UserFits ==
  ASSUME TypeInv, ~EarlySignals, Separate(model, ring), model \in Formed, Fits(model, ring), User
  PROVE  model' \in Formed /\ Fits(model', ring')
<1>0. model \in Typed /\ ring \in Rings /\ \A o \in Listed(model) : o \in 1..Size(model)
  BY ListedObjects DEF TypeInv
<1>1. CASE DialingCall
  BY <1>1, DialingCallFits
<1>2. ASSUME NEW o \in Listed(model), PlaceCall(o)
      PROVE  model' \in Formed /\ Fits(model', ring')
  BY <1>2, PlaceCallFits
<1>3. ASSUME NEW o \in Listed(model), DetachParticipant(o)
      PROVE  model' \in Formed /\ Fits(model', ring')
  <2> DEFINE i == model.call[o].id
  <2>1. i \in CallId /\ ring' = Leaves(ring, i) /\ model' = model
    BY <1>3 DEF DetachParticipant
  <2>2. Orderly(ring)
    BY DEF Fits
  <2> HIDE DEF i
  <2>3. ring' \in Shrunk(ring)
    BY <1>0, <2>1, <2>2, LeavesShrunk
  <2> QED
    BY <1>0, <2>1, <2>3, ShrunkFits
<1>4. ASSUME NEW o \in Listed(model), NEW a \in {"ACCEPT", "REFUSE"}, PerformAction(o, a)
      PROVE  model' \in Formed /\ Fits(model', ring')
  BY <1>4, PerformActionFits
<1>5. ASSUME NEW o \in Listed(model), NEW p \in Listed(model), JoinCalls(o, p)
      PROVE  model' \in Formed /\ Fits(model', ring')
  <2> DEFINE i == model.call[o].id
             j == model.call[p].id
  <2>1. /\ ring' = Joined(ring, i, j) /\ model' = model /\ model.started
        /\ ~IsConference(model, o) /\ i # "" /\ ~IsConference(model, p) /\ j # ""
    BY <1>5, StartedWhenRoom DEF JoinCalls
  <2>2. i \in CallId /\ j \in CallId
    BY <1>0, <2>1, Identifiers
  <2> HIDE DEF i, j
  <2> QED
    BY <1>0, <2>1, <2>2, JoinedFits
<1>6. ASSUME NEW o \in Listed(model), NEW p \in Listed(model), MergeConferences(o, p)
      PROVE  model' \in Formed /\ Fits(model', ring')
  <2> DEFINE f == model.call[o].id
             g == model.call[p].id
  <2>1. /\ ring' = Merged(ring, f, g) /\ model' = model /\ o # p
        /\ IsConference(model, o) /\ IsConference(model, p)
    BY <1>6 DEF MergeConferences
  <2>2. f \in ConfId /\ g \in ConfId
    BY <1>0, <2>1, Identifiers
  <2>3. f # "" /\ g # ""
    BY <2>2, CallIdAssumption
  <2>4. f # g
    BY <1>0, <2>1, <2>3 DEF Separate, Unique
  <2> HIDE DEF f, g
  <2> QED
    BY <1>0, <2>1, <2>2, <2>4, MergedFits
<1> QED
  BY <1>1, <1>2, <1>3, <1>4, <1>5, <1>6 DEF User

-----------------------------------------------------------------------------
(* Every step.                                                             *)

\* A list that has not crashed is well formed, and agrees with the daemon but for the
\* signals that are on their way.
Agreed == model.crashed \/ (model \in Formed /\ Fits(model, ring))

LEMMA InitAgreed ==
  Init => Agreed
<1> SUFFICES ASSUME Init PROVE Agreed
  OBVIOUS
<1>1. model \in Typed /\ ring \in Rings
  BY InitInv DEF TypeInv
<1>2. /\ Size(model) = 0 /\ model.rows = <<>> /\ model.started = FALSE
      /\ \A i \in CallId \cup ConfId : model.known[i] = 0
  BY EmptySeq DEF Init, Size
<1>3. /\ \A f \in ConfId : ring.confs[f] = "free" /\ ring.parts[f] = {}
      /\ ring.queue = <<>>
  BY DEF Init
<1>4. 1..Size(model) = {} /\ Rows(model) = {}
  BY <1>1, <1>2, FormedFacts DEF Formed, Rows, ToSet
<1>5. model \in Formed
  BY <1>1, <1>4 DEF Formed
<1>6. Orderly(ring)
  BY <1>3 DEF Orderly, Silent, First, Ending
<1>7. Announced(model, ring)
  BY <1>2 DEF Announced
<1>8. ASSUME NEW f \in ConfId PROVE Recorded(model, ring, f) /\ Faithful(model, ring, f)
  BY <1>2, <1>3, <1>4 DEF Recorded, Faithful
<1> QED
  BY <1>5, <1>6, <1>7, <1>8 DEF Agreed, Fits, Core

LEMMA DeliverAgreed ==
  ASSUME TypeInv, model \in Formed, Fits(model, ring), Deliver
  PROVE  Agreed'
<1>1. ring \in Rings /\ ring.queue # <<>>
  BY DEF TypeInv, Deliver
<1> DEFINE done == Delivered(model, Taken(ring), Head(ring.queue))
<1>2. model' = done.model /\ ring' = done.ring
  BY DEF Deliver, Taken
<1>3. done.model.crashed \/ (done.model \in Formed /\ Fits(done.model, done.ring))
  BY <1>1, DeliveredFits
<1> HIDE DEF done
<1> QED
  BY <1>2, <1>3 DEF Agreed

LEMMA NextAgreed ==
  ASSUME ~EarlySignals, TypeInv, Separate(model, ring), Agreed, [Next]_vars
  PROVE  Agreed'
<1>1. CASE UNCHANGED vars
  BY <1>1 DEF vars, Agreed
<1>2. CASE model.crashed
  <2>1. model' = model
    BY <1>1, <1>2 DEF Next, Start, User, Ring, Deliver, Check, AutoClean, DialingCall, PlaceCall,
       PerformAction, JoinCalls, DetachParticipant, MergeConferences, RingReceives,
       RingAnnouncesLate, RingDials, RingMoves, RingForgets, RingDissolves, RingAdds, vars
  <2> QED
    BY <1>2, <2>1 DEF Agreed
<1>3. CASE ~model.crashed /\ Next
  <2>1. model \in Formed /\ Fits(model, ring) /\ ring \in Rings
    BY <1>3 DEF Agreed, TypeInv
  <2>2. CASE Start
    BY <2>1, <2>2, StartFits DEF Agreed
  <2>3. CASE User
    BY <2>1, <2>3, UserFits DEF Agreed
  <2>4. CASE Ring
    <3>1. model' = model
      BY <2>4 DEF Ring, RingReceives, RingAnnouncesLate, RingDials, RingMoves, RingForgets,
         RingDissolves, RingAdds
    <3>2. Fits(model, ring')
      BY <2>1, <2>4, RingFits
    <3> QED
      BY <2>1, <3>1, <3>2 DEF Agreed
  <2>5. CASE Deliver
    BY <2>1, <2>5, DeliverAgreed
  <2>6. CASE Check
    BY <2>1, <2>6, CheckFits DEF Agreed
  <2>7. CASE AutoClean
    BY <2>1, <2>7, AutoCleanFits DEF Agreed
  <2> QED
    BY <1>3, <2>2, <2>3, <2>4, <2>5, <2>6, <2>7 DEF Next
<1> QED
  BY <1>1, <1>2, <1>3

\* Once nothing is on its way, what the list has of the conferences is what the daemon has.
LEMMA AgreedSettles ==
  TypeInv /\ Separate(model, ring) /\ Agreed => ConferencesAgree
<1> SUFFICES ASSUME TypeInv, Separate(model, ring), Agreed, Settled, NEW f \in ConfId
             PROVE  LET o == model.known[f]
                        kids == ToSet(model.call[o].children)
                    IN  CASE ring.confs[f] # "live" -> o \notin ToSet(model.rows)
                          [] ring.confs[f] = "live" /\ o \in ToSet(model.rows) ->
                               /\ {model.call[c].id : c \in kids} = ring.parts[f]
                               /\ \A c \in kids : model.call[c].parent = o
                          [] OTHER -> o # 0 /\ model.call[o].state = "OVER"
  BY DEF ConferencesAgree
<1> DEFINE o == model.known[f]
           kids == ToSet(model.call[o].children)
           q == ring.queue
<1>1. /\ model \in Formed /\ Fits(model, ring) /\ q = <<>>
      /\ ring \in Rings /\ model \in Typed
  BY DEF Agreed, Settled, Quiet, TypeInv
<1>2. DOMAIN q = {}
  BY <1>1
<1>3. /\ ~Creating(q, f) /\ ~Ending(q, f) /\ ~Told(q, f)
      /\ \A g : ~ToldBefore(q, f, g)
  BY <1>2 DEF Creating, Ending, Told, ToldBefore
<1>4. Recorded(model, ring, f) /\ Faithful(model, ring, f)
  BY <1>1 DEF Fits, Core
<1>5. 0 \notin Rows(model) /\ Rows(model) \subseteq 1..Size(model)
  BY <1>1, FormedFacts, TypedFacts
<1>6. ring.confs[f] = "live" => ring.parts[f] # {}
  <2>1. Cardinality({}) = 0 /\ ~(0 > 1)
    BY FS_EmptySet
  <2> QED
    BY <2>1 DEF Settled
<1>7. ring.confs[f] # "live" => o \notin Rows(model)
  <2>1. ring.confs[f] \in {"free", "live", "removed"}
    BY <1>1 DEF Rings
  <2> QED
    BY <1>3, <1>4, <1>5, <2>1 DEF Recorded
<1>8. ring.confs[f] = "live" /\ o \notin Rows(model) => o # 0 /\ model.call[o].state = "OVER"
  BY <1>3, <1>4, <1>6 DEF Recorded, Doomed
<1>9. ASSUME ring.confs[f] = "live", o \in Rows(model)
      PROVE  /\ {model.call[c].id : c \in kids} = ring.parts[f]
             /\ \A c \in kids : model.call[c].parent = o
  <2>1. kids = Kids(model, o) /\ o \in 1..Size(model) /\ kids \subseteq 1..Size(model)
    BY <1>1, <1>5, <1>9, FormedFacts DEF Kids
  <2>2. \A c \in kids : model.call[c].id \in ring.parts[f]
    BY <1>3, <1>4, <1>6, <1>9, <2>1 DEF Faithful, Excused
  <2>3. \A i \in ring.parts[f] : i \in CallId /\ i \in Ids /\ Under(model, i, f)
    BY <1>1, <1>3, <1>4, <1>9 DEF Faithful, Rings, Ids
  <2>4. \A i \in ring.parts[f] : model.known[i] \in kids /\ model.call[model.known[i]].id = i
    BY <1>1, <2>1, <2>3, TypedFacts DEF Under
  <2>5. \A c \in kids : model.known[model.call[c].id] = c
    <3> SUFFICES ASSUME NEW c \in kids PROVE model.known[model.call[c].id] = c
      OBVIOUS
    <3>1. model.call[c].id \in CallId
      BY <2>2, <2>3
    <3>2. model.call[c].id # ""
      BY <3>1, CallIdAssumption
    <3> QED
      BY <2>1, <3>2 DEF Separate, Unique
  <2>6. \A c \in kids : model.call[c].parent = o
    BY <2>2, <2>3, <2>5 DEF Under
  <2> HIDE DEF kids
  <2>7. {model.call[c].id : c \in kids} = ring.parts[f]
    BY <2>2, <2>4
  <2> QED
    BY <2>6, <2>7
<1>10. ToSet(model.rows) = Rows(model)
  BY DEF Rows
<1> HIDE DEF kids, o
<1> QED
  BY <1>7, <1>8, <1>9, <1>10 DEF kids, o

-----------------------------------------------------------------------------

\* When the daemon does nothing before its calls are listed, the conferences of the list end
\* up as the daemon has them: whatever order its signals, the user and the two timers come in,
\* once nothing is pending a conference that is over has no row, and one that goes on has
\* below its row exactly its participants, each of which knows it; or its row went with the
\* conference object, which is over, because the list once had it empty.
THEOREM ConferencesAgreeCorrect ==
  ASSUME ~EarlySignals
  PROVE  Spec => []ConferencesAgree
<1> DEFINE Inv == TypeInv /\ Separate(model, ring) /\ Agreed
<1>1. Init => Inv
  BY InitInv, InitAgreed
<1>2. Inv /\ [Next]_vars => Inv'
  <2> SUFFICES ASSUME Inv, [Next]_vars PROVE Inv'
    OBVIOUS
  <2>1. TypeInv' /\ Separate(model', ring')
    BY NextStep DEF Step
  <2>2. Agreed'
    BY NextAgreed
  <2> QED
    BY <2>1, <2>2
<1>3. Inv => ConferencesAgree
  BY AgreedSettles
<1> QED
  BY <1>1, <1>2, <1>3, PTL DEF Spec
=============================================================================
