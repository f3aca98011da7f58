--------------------------- MODULE SequenceFolds ---------------------------
(***************************************************************************)
(* Induction on the naturals and on the steps of FoldLeft, for sets: the   *)
(* set of the numbers that have a property instead of the property.        *)
(***************************************************************************)
EXTENDS Integers, SequencesExt, FiniteSetTheorems, SequenceTheorems,
        WellFoundedInduction, TLAPS

LessNat == {r \in Nat \X Nat : r[1] < r[2]}

LEMMA NatSetInduction ==
  ASSUME NEW T, 0 \in T, \A n \in Nat : n \in T => n + 1 \in T
  PROVE  \A n \in Nat : n \in T
<1> SUFFICES ASSUME NEW n0 \in Nat, n0 \notin T PROVE FALSE
  OBVIOUS
<1> DEFINE U == Nat \ T
<1>1. U \subseteq Nat /\ U # {}
  OBVIOUS
<1> HIDE DEF U
<1>2. IsWellFoundedOn(LessNat, Nat)
  <2>1. OpToRel(<, Nat) = LessNat
    BY DEF OpToRel, LessNat
  <2> QED
    BY <2>1, NatLessThanWellFounded
<1>3. PICK x \in U : \A y \in U : <<y, x>> \notin LessNat
  BY <1>1, <1>2, WFMin
<1>4. x \in Nat /\ x # 0
  BY <1>1, <1>3 DEF U
<1>5. x - 1 \in Nat /\ x - 1 < x /\ (x - 1) + 1 = x
  BY <1>4
<1>6. <<x - 1, x>> \in LessNat
  BY <1>4, <1>5 DEF LessNat
<1>7. x - 1 \in T
  BY <1>3, <1>5, <1>6 DEF U
<1> QED
  BY <1>3, <1>5, <1>7 DEF U

LEMMA LeastNumber ==
  ASSUME NEW S \in SUBSET Nat, S # {}
  PROVE  Min(S) \in S /\ \A y \in S : Min(S) <= y
<1>1. \E x \in S : \A y \in S : x <= y
  <2> SUFFICES ASSUME \A x \in S : \E y \in S : y < x PROVE FALSE
    OBVIOUS
  <2> DEFINE Below == {n \in Nat : \A k \in 0..n : k \notin S}
  <2>1. 0 \in Below
    OBVIOUS
  <2>2. ASSUME NEW n \in Nat, n \in Below PROVE n + 1 \in Below
    <3> SUFFICES ASSUME n + 1 \in S PROVE FALSE
      <4>1. \A k \in 0..(n + 1) : k \in 0..n \/ k = n + 1
        OBVIOUS
      <4> QED
        BY <2>2, <4>1
    <3>1. PICK y \in S : y < n + 1
      OBVIOUS
    <3>2. y \in 0..n
      BY <3>1
    <3> QED
      BY <2>2, <3>2
  <2> HIDE DEF Below
  <2>3. \A n \in Nat : n \in Below
    BY <2>1, <2>2, NatSetInduction
  <2>4. PICK x \in S : TRUE
    OBVIOUS
  <2>5. x \in Below /\ x \in 0..x
    BY <2>3
  <2> QED
    BY <2>4, <2>5 DEF Below
<1> QED
  BY <1>1 DEF Min

LEMMA MaxOfRange ==
  ASSUME NEW n \in Nat, NEW T \in SUBSET (1..n), T # {}
  PROVE  Max(T) \in T /\ \A y \in T : Max(T) >= y
<1> DEFINE Good == {k \in Nat : \A U \in SUBSET (1..k) : U # {} => \E x \in U : \A y \in U : x >= y}
<1>1. 0 \in Good
  <2>1. \A U \in SUBSET (1..0) : U = {}
    OBVIOUS
  <2> QED
    BY <2>1
<1>2. ASSUME NEW k \in Nat, k \in Good PROVE k + 1 \in Good
  <2> SUFFICES ASSUME NEW U \in SUBSET (1..(k + 1)), U # {}
               PROVE  \E x \in U : \A y \in U : x >= y
    OBVIOUS
  <2>1. CASE k + 1 \in U
    BY <2>1
  <2>2. CASE k + 1 \notin U
    <3>1. U \in SUBSET (1..k)
      BY <2>2
    <3> QED
      BY <1>2, <3>1
  <2> QED
    BY <2>1, <2>2
<1> HIDE DEF Good
<1>3. n \in Good
  BY <1>1, <1>2, NatSetInduction
<1>4. \E x \in T : \A y \in T : x >= y
  BY <1>3 DEF Good
<1> QED
  BY <1>4 DEF Max

LEMMA AppendedSet ==
  ASSUME NEW S, NEW s \in Seq(S), NEW e
  PROVE  ToSet(Append(s, e)) = ToSet(s) \cup {e}
<1> DEFINE t == Append(s, e)
<1>1. /\ Len(s) \in Nat /\ DOMAIN s = 1..Len(s) /\ DOMAIN t = 1..(Len(s) + 1)
      /\ t[Len(s) + 1] = e /\ \A j \in 1..Len(s) : t[j] = s[j]
  <2>1. s \in Seq(S \cup {e}) /\ e \in S \cup {e}
    OBVIOUS
  <2> QED
    BY <2>1, AppendProperties
<1> HIDE DEF t
<1>2. \A j \in 1..(Len(s) + 1) : j \in 1..Len(s) \/ j = Len(s) + 1
  BY <1>1
<1>3. 1..Len(s) \subseteq 1..(Len(s) + 1) /\ Len(s) + 1 \in 1..(Len(s) + 1)
  BY <1>1
<1> QED
  BY <1>1, <1>2, <1>3 DEF t, ToSet

LEMMA MaxOfAll ==
  ASSUME NEW k \in Nat \ {0}
  PROVE  Max(1..k) = k /\ (1..k) \ {k} = 1..(k - 1)
<1>1. Max(1..k) \in 1..k /\ Max(1..k) >= k
  <2>1. k \in 1..k /\ 1..k \in SUBSET (1..k) /\ 1..k # {}
    OBVIOUS
  <2> QED
    BY <2>1, MaxOfRange
<1> QED
  BY <1>1

\* A recursion on the sets of positions, whose results are in the sets S.
Recursion(n, U, S, base, F) ==
  /\ base \in S[{}]
  /\ \A T \in SUBSET (1..n) : S[T] \subseteq U
  /\ \A T \in SUBSET (1..n) : \A k \in T : \A x \in S[T \ {k}] : F[<<x, k>>] \in S[T]

Solves(h, n, S, base, F) ==
  /\ h[{}] = base
  /\ \A T \in SUBSET (1..n) :
       /\ h[T] \in S[T]
       /\ T # {} => Max(T) \in T /\ h[T] = F[<<h[T \ {Max(T)}], Max(T)>>]

LEMMA RecursionExists ==
  ASSUME NEW n \in Nat, NEW U, NEW S, NEW base, NEW F, Recursion(n, U, S, base, F)
  PROVE  \E h \in [SUBSET (1..n) -> U] : Solves(h, n, S, base, F)
<1> USE DEF Recursion
<1> DEFINE Sol(k, h) ==
             /\ h \in [SUBSET (1..k) -> U]
             /\ h[{}] = base
             /\ \A T \in SUBSET (1..k) :
                  /\ h[T] \in S[T]
                  /\ T # {} => Max(T) \in T /\ h[T] = F[<<h[T \ {Max(T)}], Max(T)>>]
           Good == {k \in Nat : k <= n => \E h : Sol(k, h)}
<1>1. 0 \in Good
  <2> DEFINE h == [T \in SUBSET (1..0) |-> base]
  <2>1. \A T \in SUBSET (1..0) : T = {}
    OBVIOUS
  <2>2. {} \in SUBSET (1..n) /\ {} \in SUBSET (1..0)
    OBVIOUS
  <2>3. base \in U
    BY <2>2
  <2>4. Sol(0, h)
    BY <2>1, <2>2, <2>3
  <2> HIDE DEF Sol, h
  <2> QED
    BY <2>4
<1>2. ASSUME NEW k \in Nat, k \in Good PROVE k + 1 \in Good
  <2> SUFFICES ASSUME k + 1 <= n PROVE \E h : Sol(k + 1, h)
    <3> HIDE DEF Sol
    <3> QED
      OBVIOUS
  <2>1. PICK h : Sol(k, h)
    <3> HIDE DEF Sol
    <3> QED
      BY <1>2
  <2> DEFINE next == [T \in SUBSET (1..(k + 1)) |->
                        IF k + 1 \in T THEN F[<<h[T \ {k + 1}], k + 1>>] ELSE h[T]]
  <2>2. \A T \in SUBSET (1..(k + 1)) : T \ {k + 1} \in SUBSET (1..k)
    OBVIOUS
  <2>3. ASSUME NEW T \in SUBSET (1..(k + 1))
        PROVE  /\ next[T] \in S[T] /\ next[T] \in U
               /\ T # {} => Max(T) \in T /\ next[T] = F[<<next[T \ {Max(T)}], Max(T)>>]
    <3>0. T \in SUBSET (1..n)
      OBVIOUS
    <3>1. CASE k + 1 \in T
      <4>1. Max(T) = k + 1 /\ Max(T) \in T
        <5>1. T \in SUBSET (1..(k + 1)) /\ T # {} /\ k + 1 \in Nat
          BY <3>1
        <5>2. Max(T) \in T /\ Max(T) >= k + 1
          BY <3>1, <5>1, MaxOfRange
        <5>3. Max(T) \in 1..(k + 1)
          BY <5>1, <5>2
        <5> QED
          BY <5>2, <5>3
      <4>2. next[T \ {k + 1}] = h[T \ {k + 1}] /\ T \ {k + 1} \in SUBSET (1..k)
        BY <2>2
      <4>3. next[T] = F[<<h[T \ {k + 1}], k + 1>>]
        BY <3>1
      <4>4. h[T \ {k + 1}] \in S[T \ {k + 1}]
        BY <2>1, <4>2
      <4> HIDE DEF next
      <4>5. next[T] \in S[T]
        BY <3>0, <3>1, <4>3, <4>4
      <4> QED
        BY <3>0, <4>1, <4>2, <4>3, <4>5
    <3>2. CASE k + 1 \notin T
      <4>1. T \in SUBSET (1..k)
        BY <3>2
      <4>2. /\ h[T] \in S[T]
            /\ T # {} => Max(T) \in T /\ h[T] = F[<<h[T \ {Max(T)}], Max(T)>>]
        BY <2>1, <4>1
      <4>3. next[T] = h[T] /\ next[T \ {Max(T)}] = h[T \ {Max(T)}]
        BY <3>2, <4>1
      <4> HIDE DEF next
      <4> QED
        BY <3>0, <4>2, <4>3
    <3> QED
      BY <3>1, <3>2
  <2>4. next[{}] = base
    BY <2>1
  <2>5. next \in [SUBSET (1..(k + 1)) -> U]
    <3>1. next = [T \in SUBSET (1..(k + 1)) |-> next[T]]
      OBVIOUS
    <3> HIDE DEF next
    <3> QED
      BY <2>3, <3>1
  <2> HIDE DEF next
  <2>6. Sol(k + 1, next)
    BY <2>3, <2>4, <2>5
  <2> HIDE DEF Sol
  <2> QED
    BY <2>6
<1> HIDE DEF Good
<1>3. n \in Good
  BY <1>1, <1>2, NatSetInduction
<1>4. \E h : Sol(n, h)
  <2> HIDE DEF Sol
  <2> QED
    BY <1>3 DEF Good
<1> QED
  BY <1>4 DEF Solves

\* What holds of the first of a row of values, and of each if it holds of the one
\* before, holds of the last.
LEMMA StepsReach ==
  ASSUME NEW n \in Nat, NEW g, NEW G, g[0] \in G[0],
         \A k \in 1..n : g[k - 1] \in G[k - 1] => g[k] \in G[k]
  PROVE  g[n] \in G[n]
<1> DEFINE Good == {k \in Nat : k <= n => g[k] \in G[k]}
<1>1. 0 \in Good
  OBVIOUS
<1>2. ASSUME NEW k \in Nat, k \in Good PROVE k + 1 \in Good
  <2> SUFFICES ASSUME k + 1 <= n PROVE g[k + 1] \in G[k + 1]
    OBVIOUS
  <2>1. k + 1 \in 1..n /\ (k + 1) - 1 = k
    OBVIOUS
  <2>2. g[k] \in G[k]
    BY <1>2
  <2> QED
    BY <2>1, <2>2
<1> HIDE DEF Good
<1>3. n \in Good
  BY <1>1, <1>2, NatSetInduction
<1> QED
  BY <1>3 DEF Good

\* The sequence of a finite set has each of its elements once.
LEMMA SequenceOfSet ==
  ASSUME NEW S, IsFiniteSet(S)
  PROVE  LET s == SetToSeq(S)
         IN  /\ s \in Seq(S)
             /\ \A x \in S : \E k \in 1..Len(s) : s[k] = x
             /\ \A k, l \in 1..Len(s) : s[k] = s[l] => k = l
<1> DEFINE n == Cardinality(S)
<1>1. n \in Nat
  BY FS_CardinalityType
<1>2. PICK f : f \in Bijection(1..n, S)
  BY FS_CardinalityType, FS_NatBijection DEF ExistsBijection
<1>3. f \in [1..n -> S] /\ IsInjective(f)
  BY <1>2 DEF Bijection, Injection, IsInjective
<1> DEFINE s == SetToSeq(S)
<1>4. s \in [1..n -> S] /\ IsInjective(s)
  BY <1>3 DEF SetToSeq
<1> HIDE DEF s
<1>5. \A x \in S : \E k \in 1..n : s[k] = x
  <2>1. IsFiniteSet(1..n) /\ Cardinality(1..n) = n
    BY <1>1, FS_Interval
  <2>2. s \in Injection(1..n, S)
    BY <1>4 DEF Injection, IsInjective
  <2>3. s \in Surjection(1..n, S)
    BY <1>1, <2>1, <2>2, FS_Injection
  <2> QED
    BY <2>3 DEF Surjection
<1> HIDE DEF n
<1>6. s \in Seq(S) /\ Len(s) = n
  BY <1>1, <1>4
<1>7. \A k, l \in 1..n : s[k] = s[l] => k = l
  BY <1>4 DEF IsInjective
<1> QED
  BY <1>5, <1>6, <1>7 DEF s

\* G grades the results of a fold over a set by the elements that are done, and
\* F is what the fold does with a result of U and an element.
Graded(E, U, G, base, F) ==
  /\ IsFiniteSet(E)
  /\ base \in G[{}]
  /\ \A D \in SUBSET E : G[D] \subseteq U
  /\ \A D \in SUBSET E : \A e \in E \ D : \A x \in G[D] : F[<<x, e>>] \in G[D \cup {e}]

\* The recursion that FoldLeft chooses a function of.
SetFolds(h, E, U, base, F) ==
  LET s == SetToSeq(E)
  IN  /\ h[{}] = base
      /\ \A T \in SUBSET DOMAIN s : T # {} =>
           /\ s[Max(T)] \in E
           /\ h[T \ {Max(T)}] \in U => h[T] = F[<<h[T \ {Max(T)}], s[Max(T)]>>]

\* There is one.
LEMMA SetFoldExists ==
  ASSUME NEW E, NEW U, NEW G, NEW base, NEW F, Graded(E, U, G, base, F)
  PROVE  \E h \in [SUBSET DOMAIN SetToSeq(E) -> U] : SetFolds(h, E, U, base, F)
<1> DEFINE s == SetToSeq(E)
           n == Len(s)
<1>1. s \in Seq(E) /\ \A k, l \in 1..n : s[k] = s[l] => k = l
  BY SequenceOfSet DEF Graded
<1>2. n \in Nat /\ DOMAIN s = 1..n /\ \A k \in 1..n : s[k] \in E
  BY <1>1
<1> HIDE DEF n, s
<1> DEFINE Done(T) == {s[k] : k \in T}
           S == [T \in SUBSET (1..n) |-> G[Done(T)]]
           H == [p \in U \X (1..n) |-> F[<<p[1], s[p[2]]>>]]
<1>3. base \in S[{}] /\ \A T \in SUBSET (1..n) : S[T] \subseteq U
  <2>1. Done({}) = {} /\ {} \in SUBSET (1..n)
    OBVIOUS
  <2>2. \A T \in SUBSET (1..n) : Done(T) \in SUBSET E
    BY <1>2
  <2> QED
    BY <2>1, <2>2 DEF Graded
<1>4. \A x \in U, k \in 1..n : H[<<x, k>>] = F[<<x, s[k]>>]
  OBVIOUS
<1>5. ASSUME NEW T \in SUBSET (1..n), NEW k \in T, NEW x \in S[T \ {k}]
      PROVE  H[<<x, k>>] \in S[T]
  <2>1. /\ Done(T \ {k}) \in SUBSET E /\ s[k] \in E \ Done(T \ {k})
        /\ Done(T) = Done(T \ {k}) \cup {s[k]}
    BY <1>1, <1>2
  <2>2. x \in G[Done(T \ {k})] /\ x \in U
    BY <2>1 DEF Graded
  <2>3. F[<<x, s[k]>>] \in G[Done(T)]
    BY <2>1, <2>2 DEF Graded
  <2> QED
    BY <1>4, <2>2, <2>3
<1> HIDE DEF Done, S, H
<1>6. PICK h \in [SUBSET (1..n) -> U] : Solves(h, n, S, base, H)
  <2>1. Recursion(n, U, S, base, H)
    BY <1>3, <1>5 DEF Recursion
  <2> QED
    BY <1>2, <2>1, RecursionExists
<1>7. ASSUME NEW T \in SUBSET (1..n), T # {}
      PROVE  /\ s[Max(T)] \in E
             /\ h[T] = F[<<h[T \ {Max(T)}], s[Max(T)]>>]
  <2>1. Max(T) \in 1..n /\ T \ {Max(T)} \in SUBSET (1..n)
    BY <1>6, <1>7 DEF Solves
  <2> QED
    BY <1>2, <1>4, <1>6, <1>7, <2>1 DEF Solves
<1>8. h[{}] = base /\ h \in [SUBSET DOMAIN s -> U]
  BY <1>2, <1>6 DEF Solves
<1>9. \A T \in SUBSET DOMAIN s : T # {} =>
        /\ s[Max(T)] \in E
        /\ h[T] = F[<<h[T \ {Max(T)}], s[Max(T)]>>]
  BY <1>2, <1>7
<1>10. SetFolds(h, E, U, base, F)
  BY <1>8, <1>9 DEF s, SetFolds
<1> QED
  BY <1>8, <1>10 DEF s

\* Any function that satisfies it ends where the grades say.
LEMMA SetFoldReaches ==
  ASSUME NEW E, NEW U, NEW G, NEW base, NEW F, Graded(E, U, G, base, F),
         NEW it, SetFolds(it, E, U, base, F)
  PROVE  it[1..Len(SetToSeq(E))] \in G[E]
<1> DEFINE s == SetToSeq(E)
           n == Len(s)
<1>1. /\ s \in Seq(E) /\ \A k, l \in 1..n : s[k] = s[l] => k = l
      /\ \A x \in E : \E k \in 1..n : s[k] = x
  BY SequenceOfSet DEF Graded
<1>2. n \in Nat /\ \A k \in 1..n : s[k] \in E
  BY <1>1
<1>3. it[{}] = base
  BY DEF SetFolds
<1>3a. ASSUME NEW k \in 1..n, it[1..(k - 1)] \in U
       PROVE  it[1..k] = F[<<it[1..(k - 1)], s[k]>>]
  <2>1. DOMAIN s = 1..n /\ k \in Nat \ {0} /\ 1..k \in SUBSET (1..n) /\ 1..k # {}
    <3>1. n \in Nat /\ DOMAIN s = 1..n
      BY <1>1
    <3> HIDE DEF n, s
    <3> QED
      BY <3>1
  <2>2. Max(1..k) = k /\ (1..k) \ {k} = 1..(k - 1)
    BY <2>1, MaxOfAll
  <2>3. it[(1..k) \ {Max(1..k)}] \in U
           => it[1..k] = F[<<it[(1..k) \ {Max(1..k)}], s[Max(1..k)]>>]
    BY <2>1 DEF SetFolds
  <2> QED
    BY <1>3a, <2>2, <2>3
<1> HIDE DEF n, s
<1> DEFINE Done(T) == {s[k] : k \in T}
           g == [k \in 0..n |-> it[1..k]]
           S == [k \in 0..n |-> G[Done(1..k)]]
<1>4. g[0] \in S[0]
  <2>1. 1..0 = {} /\ Done({}) = {} /\ 0 \in 0..n
    BY <1>2
  <2> QED
    BY <1>3, <2>1 DEF Graded
<1>5. ASSUME NEW k \in 1..n, g[k - 1] \in S[k - 1] PROVE g[k] \in S[k]
  <2>1. k - 1 \in 0..n /\ k \in 0..n /\ 1..k = (1..(k - 1)) \cup {k}
        /\ k \notin 1..(k - 1) /\ 1..k \subseteq 1..n
    BY <1>2
  <2>2. /\ Done(1..(k - 1)) \in SUBSET E /\ s[k] \in E \ Done(1..(k - 1))
        /\ Done(1..k) = Done(1..(k - 1)) \cup {s[k]}
    BY <1>1, <1>2, <2>1
  <2>3. it[1..(k - 1)] \in G[Done(1..(k - 1))]
    BY <1>5, <2>1
  <2>4. it[1..(k - 1)] \in U
    BY <2>2, <2>3 DEF Graded
  <2> HIDE DEF Done
  <2>5. F[<<it[1..(k - 1)], s[k]>>] \in G[Done(1..k)]
    BY <2>2, <2>3 DEF Graded
  <2> QED
    BY <1>3a, <2>1, <2>4, <2>5
<1>6. g[n] \in S[n]
  <2> HIDE DEF g, S
  <2> QED
    BY <1>2, <1>4, <1>5, StepsReach
<1>7. Done(1..n) = E
  BY <1>1, <1>2
<1>8. g[n] = it[1..n] /\ S[n] = G[Done(1..n)]
  BY <1>2
<1> HIDE DEF g, S, Done
<1>9. it[1..n] \in G[E]
  BY <1>6, <1>7, <1>8
<1> QED
  BY <1>9 DEF n, s

-----------------------------------------------------------------------------
\* G grades the results of a fold over a sequence of length n by how many of its
\* elements are done, and F is what the fold does with a result of U and an element,
\* given by its position.
Stepped(n, U, G, base, F) ==
  /\ n \in Nat
  /\ base \in U /\ base \in G[0]
  /\ \A k \in 1..n, x \in U : F[<<x, k>>] \in U
  /\ \A k \in 1..n, x \in U : x \in G[k - 1] => F[<<x, k>>] \in G[k]

\* The recursion that FoldLeft chooses a function of.
SequenceFoldsBy(h, n, U, base, F) ==
  /\ h[{}] = base
  /\ \A T \in SUBSET (1..n) : T # {} =>
       /\ Max(T) \in T
       /\ h[T \ {Max(T)}] \in U => h[T] = F[<<h[T \ {Max(T)}], Max(T)>>]

\* There is one.
LEMMA SequenceFoldExists ==
  ASSUME NEW n, NEW U, NEW G, NEW base, NEW F, Stepped(n, U, G, base, F)
  PROVE  \E h \in [SUBSET (1..n) -> U] : SequenceFoldsBy(h, n, U, base, F)
<1> DEFINE S == [T \in SUBSET (1..n) |-> U]
<1>1. n \in Nat /\ Recursion(n, U, S, base, F)
  <2>1. \A T \in SUBSET (1..n) : \A k \in T : k \in 1..n /\ T \ {k} \in SUBSET (1..n)
    OBVIOUS
  <2>2. {} \in SUBSET (1..n)
    OBVIOUS
  <2> QED
    BY <2>1, <2>2 DEF Recursion, Stepped
<1> HIDE DEF S
<1>2. PICK h \in [SUBSET (1..n) -> U] : Solves(h, n, S, base, F)
  BY <1>1, RecursionExists
<1>3. SequenceFoldsBy(h, n, U, base, F)
  BY <1>2 DEF Solves, SequenceFoldsBy
<1> QED
  BY <1>3

\* Any function that satisfies it ends where the grades say.
LEMMA SequenceFoldReaches ==
  ASSUME NEW n, NEW U, NEW G, NEW base, NEW F, Stepped(n, U, G, base, F),
         NEW it, SequenceFoldsBy(it, n, U, base, F)
  PROVE  it[1..n] \in G[n] /\ it[1..n] \in U
<1> DEFINE g == [k \in 0..n |-> it[1..k]]
           R == [k \in 0..n |-> G[k] \cap U]
<1>1. n \in Nat
  BY DEF Stepped
<1>2. g[0] \in R[0]
  <2>1. 1..0 = {} /\ 0 \in 0..n
    BY <1>1
  <2> QED
    BY <2>1 DEF Stepped, SequenceFoldsBy
<1>3. ASSUME NEW k \in 1..n, g[k - 1] \in R[k - 1] PROVE g[k] \in R[k]
  <2>1. k - 1 \in 0..n /\ k \in 0..n /\ k \in Nat \ {0} /\ 1..k \in SUBSET (1..n) /\ 1..k # {}
    BY <1>1
  <2>2. Max(1..k) = k /\ (1..k) \ {k} = 1..(k - 1)
    BY <2>1, MaxOfAll
  <2>3. it[1..(k - 1)] \in U /\ it[1..(k - 1)] \in G[k - 1]
    BY <1>3, <2>1
  <2>4. it[1..k] = F[<<it[1..(k - 1)], k>>]
    BY <2>1, <2>2, <2>3 DEF SequenceFoldsBy
  <2>5. it[1..k] \in U /\ it[1..k] \in G[k]
    BY <2>3, <2>4 DEF Stepped
  <2> QED
    BY <2>1, <2>5
<1>4. g[n] \in R[n]
  <2> HIDE DEF g, R
  <2> QED
    BY <1>1, <1>2, <1>3, StepsReach
<1>5. g[n] = it[1..n] /\ R[n] = G[n] \cap U
  BY <1>1
<1> QED
  BY <1>4, <1>5

=============================================================================
