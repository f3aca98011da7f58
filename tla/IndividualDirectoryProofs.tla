---------------------- MODULE IndividualDirectoryProofs ----------------------
(***************************************************************************)
(* Theorems on IndividualDirectory, for any users, hosts and accounts, and *)
(* any number of objects.                                                  *)
(***************************************************************************)
EXTENDS IndividualDirectoryProperties, SequenceFolds

-----------------------------------------------------------------------------
(* The directory and its types.                                            *)

Data == [uri : URI, account : Account \cup {None}, registeredName : User \cup {None}]
Index == UNION {[V -> Seq(Nat)] : V \in SUBSET URI}

Count(d) == Len(d.numbers)

Directories ==
  {d \in [numbers : Seq(URI), data : Seq(Nat), private : Seq(Data), directory : Index] :
     /\ Len(d.data) = Count(d) /\ Len(d.private) = Count(d)
     /\ \A n \in 1..Count(d) : d.data[n] \in 0..Count(d)
     /\ \A u \in DOMAIN d.directory :
          d.directory[u] \in Seq(1..Count(d)) /\ d.directory[u] # <<>>}

\* The objects whose data is there.
Valid(d) == {n \in 1..Count(d) : d.data[n] # Deleted}

LEMMA DirectoryFacts ==
  ASSUME NEW d \in Directories
  PROVE  /\ Count(d) \in Nat /\ d.numbers \in Seq(URI)
         /\ d.data \in Seq(Nat) /\ Len(d.data) = Count(d)
         /\ d.private \in Seq(Data) /\ Len(d.private) = Count(d)
         /\ DOMAIN d.numbers = 1..Count(d) /\ DOMAIN d.data = 1..Count(d)
         /\ DOMAIN d.private = 1..Count(d)
         /\ \A n \in 1..Count(d) : d.numbers[n] \in URI /\ d.data[n] \in 0..Count(d)
         /\ \A r \in 1..Count(d) : d.private[r] \in Data
         /\ DOMAIN d.directory \subseteq URI
         /\ d.directory = [u \in DOMAIN d.directory |-> d.directory[u]]
         /\ \A u \in DOMAIN d.directory :
              d.directory[u] \in Seq(1..Count(d)) /\ d.directory[u] # <<>>
         /\ d = [numbers |-> d.numbers, data |-> d.data, private |-> d.private,
                 directory |-> d.directory]
<1>1. /\ d.numbers \in Seq(URI) /\ d.data \in Seq(Nat) /\ d.private \in Seq(Data)
      /\ Len(d.data) = Count(d) /\ Len(d.private) = Count(d) /\ d.directory \in Index
      /\ \A n \in 1..Count(d) : d.data[n] \in 0..Count(d)
      /\ \A u \in DOMAIN d.directory :
           d.directory[u] \in Seq(1..Count(d)) /\ d.directory[u] # <<>>
      /\ d = [numbers |-> d.numbers, data |-> d.data, private |-> d.private,
              directory |-> d.directory]
  BY DEF Directories
<1>2. /\ Count(d) \in Nat /\ DOMAIN d.numbers = 1..Count(d)
      /\ DOMAIN d.data = 1..Count(d) /\ DOMAIN d.private = 1..Count(d)
      /\ \A n \in 1..Count(d) : d.numbers[n] \in URI
      /\ \A r \in 1..Count(d) : d.private[r] \in Data
  BY <1>1 DEF Count
<1>3. DOMAIN d.directory \subseteq URI
      /\ d.directory = [u \in DOMAIN d.directory |-> d.directory[u]]
  BY <1>1 DEF Index
<1> QED
  BY <1>1, <1>2, <1>3

LEMMA DirectoryMember ==
  ASSUME NEW numbers \in Seq(URI), NEW data \in Seq(Nat), NEW private \in Seq(Data),
         NEW V \in SUBSET URI, NEW index \in [V -> Seq(1..Len(numbers)) \ {<<>>}],
         Len(data) = Len(numbers), Len(private) = Len(numbers),
         \A n \in 1..Len(numbers) : data[n] \in 0..Len(numbers)
  PROVE  [numbers |-> numbers, data |-> data, private |-> private, directory |-> index]
           \in Directories
<1> DEFINE d == [numbers |-> numbers, data |-> data, private |-> private, directory |-> index]
<1>1. Seq(1..Len(numbers)) \subseteq Seq(Nat)
  OBVIOUS
<1>2. index \in Index
  BY <1>1 DEF Index
<1> QED
  BY <1>2 DEF Directories, Count

\* An object that has its data.
LEMMA ValidFacts ==
  ASSUME NEW d \in Directories, NEW n \in Valid(d)
  PROVE  /\ n \in 1..Count(d) /\ d.data[n] \in 1..Count(d) /\ d.numbers[n] \in URI
         /\ Private(d, n) = d.private[d.data[n]] /\ Private(d, n) \in Data
<1>1. n \in 1..Count(d) /\ d.data[n] # 0 /\ d.data[n] \in 0..Count(d) /\ Count(d) \in Nat
      /\ d.numbers[n] \in URI
  BY DirectoryFacts DEF Valid, Deleted
<1>2. d.data[n] \in 1..Count(d)
  BY <1>1
<1> QED
  BY <1>1, <1>2, DirectoryFacts DEF Private

LEMMA UsableIsValid ==
  ASSUME NEW d \in Directories
  PROVE  Usable(d) <=> Valid(d) = 1..Count(d)
<1>1. Range(d.data) = {d.data[n] : n \in 1..Count(d)}
  BY DirectoryFacts DEF Range
<1> QED
  BY <1>1 DEF Usable, Valid

LEMMA SequenceElements ==
  ASSUME NEW S, NEW s \in Seq(S)
  PROVE  Len(s) \in Nat /\ DOMAIN s = 1..Len(s) /\ ToSet(s) \subseteq S
<1>1. Len(s) \in Nat /\ DOMAIN s = 1..Len(s) /\ \A k \in 1..Len(s) : s[k] \in S
  OBVIOUS
<1> QED
  BY <1>1 DEF ToSet

LEMMA ListFacts ==
  ASSUME NEW d \in Directories, NEW u
  PROVE  /\ Wrapper(d, u) \in Seq(1..Count(d)) /\ ToSet(Wrapper(d, u)) \subseteq 1..Count(d)
         /\ u \in DOMAIN d.directory => Wrapper(d, u) = d.directory[u]
         /\ u \notin DOMAIN d.directory => ToSet(Wrapper(d, u)) = {}
<1>1. Wrapper(d, u) \in Seq(1..Count(d))
  <2>1. u \in DOMAIN d.directory => d.directory[u] \in Seq(1..Count(d))
    BY DirectoryFacts
  <2>2. <<>> \in Seq(1..Count(d))
    OBVIOUS
  <2> QED
    BY <2>1, <2>2 DEF Wrapper
<1>2. ToSet(Wrapper(d, u)) \subseteq 1..Count(d)
  BY <1>1, SequenceElements
<1>3. u \notin DOMAIN d.directory => ToSet(Wrapper(d, u)) = {}
  BY DEF Wrapper, ToSet
<1> QED
  BY <1>1, <1>2, <1>3 DEF Wrapper

LEMMA FirstFound ==
  ASSUME NEW c \in Nat, NEW list \in Seq(1..c), NEW T
  PROVE  /\ First(list, T) # None => First(list, T) \in ToSet(list) \cap T \cap 1..c
         /\ LastOf(list, T) # None => LastOf(list, T) \in ToSet(list) \cap T \cap 1..c
<1> DEFINE P == Places(list, T)
<1>1. Len(list) \in Nat /\ DOMAIN list = 1..Len(list) /\ \A k \in 1..Len(list) : list[k] \in 1..c
  OBVIOUS
<1>2. P \in SUBSET (1..Len(list)) /\ P \in SUBSET Nat
      /\ \A k \in P : list[k] \in ToSet(list) \cap T \cap 1..c
  BY <1>1 DEF Places, ToSet
<1> HIDE DEF P
<1>3. P # {} => Min(P) \in P /\ Max(P) \in P
  BY <1>1, <1>2, LeastNumber, MaxOfRange
<1> QED
  BY <1>2, <1>3 DEF First, LastOf, P

-----------------------------------------------------------------------------
(* What tells objects apart.                                               *)

\* K.C gives the class of an address with an account, K.P the addresses and accounts that
\* may be of one object, and K.N which names the objects of a class may have.
Classes(K) ==
  /\ \A u \in URI, a \in Account :
       /\ u.host = None => K.C[<<Extended(u, a), a>>] = K.C[<<u, a>>]
       /\ <<u, a>> \in K.P =>
            /\ K.C[<<UserInfo(u), a>>] = K.C[<<u, a>>]
            /\ <<Extended(u, a), a>> \in K.P
            /\ \A p \in User :
                         <<p, K.C[<<u, None>>]>> \in K.N => <<p, K.C[<<u, a>>]>> \in K.N
  /\ \A u \in URI, a \in RingAccount : u.host = None => <<u, a>> \in K.P
  /\ \A x \in User, b \in Account \cup {None} :
       NameOf[x] # None =>
         /\ <<NameOf[x], K.C[<<[user |-> x, host |-> None], b>>]>> \in K.N
         /\ \A u \in URI :
              (b = None \/ <<u, b>> \in K.P)
              /\ K.C[<<u, b>>] = K.C[<<[user |-> x, host |-> None], b>>] =>
                   K.C[<<[user |-> NameOf[x], host |-> None], b>>] = K.C[<<u, b>>]

\* The accounts that an object made for q may be found to have.
Prospects(K, q, p) ==
  IF p.account # None THEN {p.account}
  ELSE {None} \cup {a \in Account : <<q, a>> \in K.P}

\* An object made for q that keeps p may be listed for u.
Fits(K, q, p, u) ==
  /\ \A b \in Prospects(K, q, p) : K.C[<<q, b>>] = K.C[<<u, b>>]
  /\ p.account = None /\ u.host = None => q.host = None

\* The object n was made for q, and the data p was made for object r.
Consistent(K, n, q, r, p) ==
  /\ p.account = None => r = n /\ p.uri = q
  /\ p.account # None => <<q, p.account>> \in K.P
  /\ K.C[<<p.uri, p.account>>] = K.C[<<q, p.account>>]
  /\ p.registeredName # None => <<p.registeredName, K.C[<<p.uri, p.account>>]>> \in K.N

Sorted(K) ==
  {d \in Directories :
     \A n \in Valid(d) :
       /\ Consistent(K, n, d.numbers[n], d.data[n], Private(d, n))
       /\ \A u \in DOMAIN d.directory :
            n \in ToSet(d.directory[u]) => Fits(K, d.numbers[n], Private(d, n), u)}

\* The objects of a class have one name.
Single(K) == \A p, q, c : <<p, c>> \in K.N /\ <<q, c>> \in K.N => p = q

\* What an object has is kept.
Keeps(K, p, q) ==
  /\ p.account # None => q.account = p.account
  /\ Single(K) /\ p.registeredName # None => q.registeredName = p.registeredName

Later(K, d) ==
  {e \in Sorted(K) :
     /\ Count(d) <= Count(e)
     /\ \A n \in 1..Count(d) : e.numbers[n] = d.numbers[n] /\ (n \in Valid(e) => n \in Valid(d))
     /\ \A n \in Valid(d) \cap Valid(e) : Keeps(K, Private(d, n), Private(e, n))
     /\ \A u \in URI : ToSet(Wrapper(d, u)) \subseteq ToSet(Wrapper(e, u))}

LEMMA LaterReflexive ==
  ASSUME NEW K, NEW d \in Sorted(K)
  PROVE  d \in Later(K, d)
<1>1. Count(d) \in Nat
  BY DirectoryFacts DEF Sorted
<1> QED
  BY <1>1 DEF Later, Keeps

LEMMA LaterTransitive ==
  ASSUME NEW K, NEW d \in Directories, NEW e \in Later(K, d), NEW f \in Later(K, e)
  PROVE  f \in Later(K, d)
<1>1. d \in Directories /\ e \in Directories /\ f \in Directories /\ f \in Sorted(K)
  BY DEF Later, Sorted
<1>2. Count(d) \in Nat /\ Count(e) \in Nat /\ Count(f) \in Nat
      /\ Count(d) <= Count(e) /\ Count(e) <= Count(f)
  BY <1>1, DirectoryFacts DEF Later
<1>3. Count(d) <= Count(f) /\ 1..Count(d) \subseteq 1..Count(e)
  BY <1>2
<1>4. \A n \in 1..Count(d) : f.numbers[n] = d.numbers[n] /\ (n \in Valid(f) => n \in Valid(e))
                             /\ (n \in Valid(e) => n \in Valid(d))
  BY <1>3 DEF Later
<1>5. ASSUME NEW n \in Valid(d) \cap Valid(f) PROVE Keeps(K, Private(d, n), Private(f, n))
  <2>1. n \in 1..Count(d)
    BY DEF Valid
  <2>2. n \in Valid(e)
    BY <1>4, <2>1
  <2>3. Keeps(K, Private(d, n), Private(e, n)) /\ Keeps(K, Private(e, n), Private(f, n))
    BY <2>2 DEF Later
  <2> QED
    BY <2>3 DEF Keeps
<1>6. \A u \in URI : ToSet(Wrapper(d, u)) \subseteq ToSet(Wrapper(f, u))
  BY DEF Later
<1> QED
  BY <1>1, <1>3, <1>4, <1>5, <1>6 DEF Later

\* What the lists say of an object that has its data.
LEMMA SortedFacts ==
  ASSUME NEW K, NEW d \in Sorted(K), NEW n \in Valid(d)
  PROVE  /\ d \in Directories
         /\ Consistent(K, n, d.numbers[n], d.data[n], Private(d, n))
         /\ \A u : n \in ToSet(Wrapper(d, u)) => Fits(K, d.numbers[n], Private(d, n), u)
<1>1. d \in Directories
  BY DEF Sorted
<1>2. ASSUME NEW u, n \in ToSet(Wrapper(d, u)) PROVE Fits(K, d.numbers[n], Private(d, n), u)
  BY <1>1, <1>2, ListFacts DEF Sorted
<1> QED
  BY <1>1, <1>2 DEF Sorted

-----------------------------------------------------------------------------
(* A list gets an object.                                                  *)

LEMMA EnteredFacts ==
  ASSUME NEW d \in Directories, NEW u \in URI, NEW list \in Seq(1..Count(d)), list # <<>>
  PROVE  /\ Entered(d, u, list) \in Directories
         /\ Entered(d, u, list).numbers = d.numbers /\ Entered(d, u, list).data = d.data
         /\ Entered(d, u, list).private = d.private
         /\ DOMAIN Entered(d, u, list).directory = DOMAIN d.directory \cup {u}
         /\ \A v : Wrapper(Entered(d, u, list), v) = IF v = u THEN list ELSE Wrapper(d, v)
<1> DEFINE V == DOMAIN d.directory \cup {u}
           index == [v \in V |-> IF v = u THEN list ELSE d.directory[v]]
           e == [numbers |-> d.numbers, data |-> d.data, private |-> d.private,
                 directory |-> index]
<1>1. e = Entered(d, u, list)
  <2>1. Entered(d, u, list) = [d EXCEPT !.directory = index]
    BY DEF Entered
  <2> HIDE DEF index
  <2>2. d = [numbers |-> d.numbers, data |-> d.data, private |-> d.private,
             directory |-> d.directory]
    BY DirectoryFacts
  <2> QED
    BY <2>1, <2>2
<1>2. V \in SUBSET URI /\ index \in [V -> Seq(1..Len(d.numbers)) \ {<<>>}]
  BY DirectoryFacts DEF Count
<1>3. \A v : v \in DOMAIN index <=> (v = u \/ v \in DOMAIN d.directory)
  OBVIOUS
<1>4. /\ index[u] = list
      /\ \A v \in DOMAIN d.directory : v # u => index[v] = d.directory[v]
      /\ DOMAIN index = V
  OBVIOUS
<1> HIDE DEF index, V
<1>5. e \in Directories
  BY <1>2, DirectoryFacts, DirectoryMember DEF Count
<1>6. \A v : Wrapper(e, v) = IF v = u THEN list ELSE Wrapper(d, v)
  BY <1>3, <1>4 DEF Wrapper
<1> QED
  BY <1>1, <1>4, <1>5, <1>6 DEF V

LEMMA ListedSorted ==
  ASSUME NEW K, NEW d \in Sorted(K), NEW u \in URI, NEW n \in 1..Count(d),
         n \in Valid(d) => Fits(K, d.numbers[n], Private(d, n), u)
  PROVE  /\ Listed(d, u, n) \in Later(K, d)
         /\ Listed(d, u, n).numbers = d.numbers /\ Listed(d, u, n).data = d.data
         /\ Listed(d, u, n).private = d.private
         /\ n \in ToSet(Wrapper(Listed(d, u, n), u)) /\ u \in DOMAIN Listed(d, u, n).directory
         /\ \A v : v # u => Wrapper(Listed(d, u, n), v) = Wrapper(d, v)
<1>1. d \in Directories
  BY DEF Sorted
<1>2. CASE n \in ToSet(Wrapper(d, u))
  <2>1. Listed(d, u, n) = d
    BY <1>2 DEF Listed
  <2>2. u \in DOMAIN d.directory
    BY <1>1, <1>2, ListFacts
  <2> QED
    BY <1>2, <2>1, <2>2, LaterReflexive
<1>3. CASE n \notin ToSet(Wrapper(d, u))
  <2> DEFINE list == Append(Wrapper(d, u), n)
             e == Entered(d, u, list)
  <2>1. Listed(d, u, n) = e
    BY <1>3 DEF Listed
  <2>2. /\ list \in Seq(1..Count(d)) /\ list # <<>>
        /\ ToSet(list) = ToSet(Wrapper(d, u)) \cup {n}
    BY <1>1, ListFacts, AppendedSet, AppendProperties
  <2> HIDE DEF list
  <2>3. /\ e \in Directories /\ e.numbers = d.numbers /\ e.data = d.data
        /\ e.private = d.private /\ DOMAIN e.directory = DOMAIN d.directory \cup {u}
        /\ \A v : Wrapper(e, v) = IF v = u THEN list ELSE Wrapper(d, v)
    BY <1>1, <2>2, EnteredFacts
  <2> HIDE DEF e
  <2>4. /\ Count(e) = Count(d) /\ Valid(e) = Valid(d)
        /\ \A m : Private(e, m) = Private(d, m)
    BY <2>3 DEF Count, Valid, Private
  <2>5. ASSUME NEW m \in Valid(e), NEW v \in DOMAIN e.directory, m \in ToSet(e.directory[v])
        PROVE  Fits(K, e.numbers[m], Private(e, m), v)
    <3>1. m \in ToSet(Wrapper(e, v)) /\ m \in Valid(d)
      BY <2>3, <2>4, <2>5, ListFacts
    <3>2. m \in ToSet(Wrapper(d, v)) \/ (m = n /\ v = u)
      BY <2>2, <2>3, <3>1
    <3>3. m \in ToSet(Wrapper(d, v)) => Fits(K, d.numbers[m], Private(d, m), v)
      BY <3>1, SortedFacts
    <3> QED
      BY <2>3, <2>4, <3>1, <3>2, <3>3
  <2>6. e \in Sorted(K)
    <3>1. \A m \in Valid(e) : Consistent(K, m, e.numbers[m], e.data[m], Private(e, m))
      BY <2>3, <2>4, SortedFacts
    <3> QED
      BY <2>3, <2>5, <3>1 DEF Sorted
  <2>7. \A v : ToSet(Wrapper(d, v)) \subseteq ToSet(Wrapper(e, v))
    BY <2>2, <2>3
  <2>8. e \in Later(K, d)
    <3>1. Count(d) <= Count(e)
      <4>1. Count(d) \in Nat
        BY <1>1, DirectoryFacts
      <4> QED
        BY <2>4, <4>1
    <3> QED
      BY <2>3, <2>4, <2>6, <2>7, <3>1 DEF Later, Keeps
  <2> QED
    BY <2>1, <2>2, <2>3, <2>8
<1> QED
  BY <1>2, <1>3

-----------------------------------------------------------------------------
(* The data of an object is changed, or given up.                          *)

Revised(d, n, p) == [d EXCEPT !.private[d.data[n]] = p]

LEMMA RevisedSorted ==
  ASSUME NEW K, NEW d \in Sorted(K), NEW n \in Valid(d), NEW p \in Data,
         p.uri = Private(d, n).uri, Keeps(K, Private(d, n), p),
         \/ p.account = Private(d, n).account
         \/ Private(d, n).account = None /\ <<d.numbers[n], p.account>> \in K.P,
         p.registeredName # None => <<p.registeredName, K.C[<<p.uri, p.account>>]>> \in K.N
  PROVE  /\ Revised(d, n, p) \in Later(K, d)
         /\ Revised(d, n, p).numbers = d.numbers /\ Revised(d, n, p).data = d.data
         /\ Revised(d, n, p).directory = d.directory
         /\ Private(Revised(d, n, p), n) = p
<1> DEFINE e == Revised(d, n, p)
           r == d.data[n]
           q == Private(d, n)
           f == [d.private EXCEPT ![r] = p]
<1>1. d \in Directories /\ n \in 1..Count(d) /\ r \in 1..Count(d) /\ q \in Data
      /\ q = d.private[r] /\ d.numbers[n] \in URI
  BY ValidFacts DEF Sorted
<1>2. /\ d.private \in Seq(Data) /\ Len(d.private) = Count(d) /\ DOMAIN d.private = 1..Count(d)
      /\ Count(d) \in Nat
  BY <1>1, DirectoryFacts
<1>3. /\ f \in Seq(Data) /\ Len(f) = Count(d) /\ f[r] = p
      /\ \A k \in 1..Count(d) : k # r => f[k] = d.private[k]
  BY <1>1, <1>2
<1>4. e = [numbers |-> d.numbers, data |-> d.data, private |-> f, directory |-> d.directory]
  <2>1. d = [numbers |-> d.numbers, data |-> d.data, private |-> d.private,
             directory |-> d.directory]
    BY <1>1, DirectoryFacts
  <2>2. e = [d EXCEPT !.private = f]
    BY DEF Revised
  <2> HIDE DEF e, f
  <2> QED
    BY <2>1, <2>2
<1> HIDE DEF f, e
<1>5. /\ e.numbers = d.numbers /\ e.data = d.data /\ e.private = f /\ e.directory = d.directory
      /\ Count(e) = Count(d) /\ Valid(e) = Valid(d) /\ \A u : Wrapper(e, u) = Wrapper(d, u)
  BY <1>4 DEF Count, Valid, Wrapper
<1>6. e \in Directories
  <2>1. /\ d.directory \in [DOMAIN d.directory -> Seq(1..Len(d.numbers)) \ {<<>>}]
        /\ DOMAIN d.directory \in SUBSET URI
        /\ d.numbers \in Seq(URI) /\ d.data \in Seq(Nat) /\ Len(d.data) = Len(d.numbers)
        /\ \A k \in 1..Len(d.numbers) : d.data[k] \in 0..Len(d.numbers)
    BY <1>1, DirectoryFacts DEF Count
  <2>2. Len(f) = Len(d.numbers) /\ f \in Seq(Data)
    BY <1>3 DEF Count
  <2> QED
    BY <1>4, <2>1, <2>2, DirectoryMember
<1>7. ASSUME NEW m \in Valid(e)
      PROVE  /\ m \in Valid(d) /\ d.data[m] = r => Private(e, m) = p /\ Private(d, m) = q
             /\ m \in Valid(d) /\ d.data[m] # r => Private(e, m) = Private(d, m)
             /\ m \in Valid(d) /\ d.data[m] \in 1..Count(d)
  BY <1>1, <1>3, <1>5, ValidFacts DEF Private
<1>8. \A m \in Valid(d) : d.data[m] = r /\ q.account = None => m = n
  <2> SUFFICES ASSUME NEW m \in Valid(d), d.data[m] = r, q.account = None PROVE m = n
    OBVIOUS
  <2>1. Private(d, m) = q
    BY DEF Private
  <2>2. r = m /\ r = n
    BY <2>1, SortedFacts DEF Consistent
  <2> QED
    BY <2>2
<1>9. Consistent(K, n, d.numbers[n], r, q)
  BY SortedFacts
<1> HIDE DEF q, r
<1>10. ASSUME NEW m \in Valid(e), d.data[m] = r
       PROVE  /\ Consistent(K, m, d.numbers[m], d.data[m], p)
              /\ \A u : m \in ToSet(Wrapper(d, u)) => Fits(K, d.numbers[m], p, u)
  <2>1. /\ m \in Valid(d) /\ Private(d, m) = q
        /\ Consistent(K, m, d.numbers[m], d.data[m], q)
        /\ \A u : m \in ToSet(Wrapper(d, u)) => Fits(K, d.numbers[m], q, u)
    <3>1. m \in Valid(d) /\ Private(d, m) = q
      BY <1>7, <1>10
    <3> QED
      BY <3>1, SortedFacts
  <2>2. CASE p.account = q.account
    <3>1. Prospects(K, d.numbers[m], p) = Prospects(K, d.numbers[m], q)
      BY <2>2 DEF Prospects
    <3> QED
      BY <2>1, <2>2, <3>1 DEF q, Consistent, Fits
  <2>3. CASE q.account = None /\ p.account # None /\ <<d.numbers[n], p.account>> \in K.P
    <3>1. m = n
      BY <1>8, <1>10, <2>1, <2>3
    <3>2. Prospects(K, d.numbers[m], p) \subseteq Prospects(K, d.numbers[m], q)
      <4>1. p.account \in Account
        BY <2>3 DEF Data
      <4> QED
        BY <2>3, <3>1, <4>1 DEF Prospects
    <3>3. p.uri = d.numbers[m] /\ d.data[m] = m
      BY <2>1, <2>3 DEF Consistent, q
    <3> QED
      BY <2>1, <2>3, <3>1, <3>2, <3>3 DEF Consistent, Fits
  <2> QED
    BY <2>2, <2>3 DEF q
<1>11. e \in Sorted(K)
  <2>1. ASSUME NEW m \in Valid(e)
        PROVE  /\ Consistent(K, m, e.numbers[m], e.data[m], Private(e, m))
               /\ \A u \in DOMAIN e.directory :
                    m \in ToSet(e.directory[u]) => Fits(K, e.numbers[m], Private(e, m), u)
    <3>1. \A u \in DOMAIN e.directory : e.directory[u] = Wrapper(d, u)
      BY <1>5 DEF Wrapper
    <3>2. CASE d.data[m] = r
      BY <1>5, <1>7, <1>10, <3>1, <3>2
    <3>3. CASE d.data[m] # r
      <4>1. m \in Valid(d) /\ Private(e, m) = Private(d, m)
        BY <1>7, <3>3
      <4> QED
        BY <1>5, <3>1, <4>1, SortedFacts
    <3> QED
      BY <3>2, <3>3
  <2> QED
    BY <1>6, <2>1 DEF Sorted
<1>12. \A m \in Valid(d) \cap Valid(e) : Keeps(K, Private(d, m), Private(e, m))
  <2> SUFFICES ASSUME NEW m \in Valid(e) PROVE Keeps(K, Private(d, m), Private(e, m))
    OBVIOUS
  <2>1. CASE d.data[m] = r
    BY <1>7, <2>1 DEF q
  <2>2. CASE d.data[m] # r
    BY <1>7, <2>2 DEF Keeps
  <2> QED
    BY <2>1, <2>2
<1>13. e \in Later(K, d)
  BY <1>2, <1>5, <1>11, <1>12 DEF Later
<1>14. Private(e, n) = p
  BY <1>5, <1>7 DEF r
<1> QED
  BY <1>5, <1>13, <1>14 DEF e

\* What two objects that are merged keep.
Both(d, n, o) ==
  [uri            |-> IF size(Private(d, n).uri) > size(Private(d, o).uri)
                        THEN Private(d, n).uri ELSE Private(d, o).uri,
   account        |-> Private(d, o).account,
   registeredName |-> IF Private(d, o).registeredName = None
                        THEN Private(d, n).registeredName ELSE Private(d, o).registeredName]

LEMMA MergeFields ==
  ASSUME NEW d \in Directories, NEW n \in Valid(d), NEW o \in Valid(d),
         d.data[n] # d.data[o], Private(d, n).account = Private(d, o).account
  PROVE  /\ merge(d, n, o) \in Directories
         /\ merge(d, n, o).numbers = d.numbers /\ merge(d, n, o).directory = d.directory
         /\ \A k \in Valid(merge(d, n, o)) :
              /\ k \in Valid(d)
              /\ merge(d, n, o).data[k] =
                   IF d.data[k] = d.data[n] THEN d.data[o] ELSE d.data[k]
              /\ Private(merge(d, n, o), k) =
                   IF d.data[k] \in {d.data[n], d.data[o]} THEN Both(d, n, o) ELSE Private(d, k)
<1> DEFINE old == d.data[n]
           new == d.data[o]
           g == [k \in DOMAIN d.data |->
                   IF d.data[k] # old THEN d.data[k] ELSE IF k = old THEN new ELSE Deleted]
           both == [d.private[new] EXCEPT
                      !.uri = IF size(d.private[old].uri) > size(d.private[new].uri)
                                THEN d.private[old].uri ELSE d.private[new].uri,
                      !.registeredName = IF d.private[new].registeredName = None
                                           THEN d.private[old].registeredName ELSE @]
           f == [d.private EXCEPT ![new] = both]
           e == [numbers |-> d.numbers, data |-> g, private |-> f, directory |-> d.directory]
<1>1. /\ n \in 1..Count(d) /\ o \in 1..Count(d) /\ old \in 1..Count(d) /\ new \in 1..Count(d)
      /\ Private(d, n) = d.private[old] /\ Private(d, o) = d.private[new]
      /\ d.private[old] \in Data /\ d.private[new] \in Data
  BY ValidFacts, DirectoryFacts
<1>2. /\ Count(d) \in Nat /\ d.data \in Seq(Nat) /\ Len(d.data) = Count(d)
      /\ DOMAIN d.data = 1..Count(d) /\ d.private \in Seq(Data) /\ Len(d.private) = Count(d)
      /\ DOMAIN d.private = 1..Count(d)
      /\ \A k \in 1..Count(d) : d.data[k] \in 0..Count(d)
      /\ d = [numbers |-> d.numbers, data |-> d.data, private |-> d.private,
              directory |-> d.directory]
  BY DirectoryFacts
<1>3. both = Both(d, n, o) /\ both \in Data
  <2> DEFINE this == d.private[old]
             that == d.private[new]
             uri  == IF size(this.uri) > size(that.uri) THEN this.uri ELSE that.uri
             name == IF that.registeredName = None THEN this.registeredName
                     ELSE that.registeredName
  <2>1. uri \in {this.uri, that.uri} /\ name \in {this.registeredName, that.registeredName}
    OBVIOUS
  <2>2. both = [that EXCEPT !.uri = uri, !.registeredName = name]
    OBVIOUS
  <2>3. Both(d, n, o) = [uri |-> uri, account |-> that.account, registeredName |-> name]
    BY <1>1 DEF Both
  <2>4. that = [uri |-> that.uri, account |-> that.account,
                registeredName |-> that.registeredName]
        /\ that.uri \in URI /\ that.account \in Account \cup {None}
        /\ that.registeredName \in User \cup {None}
        /\ this.uri \in URI /\ this.registeredName \in User \cup {None}
    BY <1>1 DEF Data
  <2> HIDE DEF uri, name, both, this, that
  <2>5. both = [uri |-> uri, account |-> that.account, registeredName |-> name]
    BY <2>2, <2>4
  <2>6. uri \in URI /\ name \in User \cup {None}
    BY <2>1, <2>4
  <2> QED
    BY <2>3, <2>4, <2>5, <2>6 DEF Data
<1>4. merge(d, n, o) = e
  <2>1. merge(d, n, o) = [d EXCEPT !.data = g, !.private[new] = both]
    BY <1>1 DEF merge
  <2>2. merge(d, n, o) = [d EXCEPT !.data = g, !.private = f]
    BY <1>2, <2>1
  <2> HIDE DEF g, f, both, e
  <2> QED
    BY <1>2, <2>2 DEF e
<1> HIDE DEF both
<1>5. /\ f \in Seq(Data) /\ Len(f) = Count(d) /\ f[new] = both
      /\ \A k \in 1..Count(d) : k # new => f[k] = d.private[k]
  BY <1>1, <1>2, <1>3
<1>6. /\ g \in [1..Count(d) -> 0..Count(d)]
      /\ \A k \in 1..Count(d) :
           g[k] = IF d.data[k] # old THEN d.data[k] ELSE IF k = old THEN new ELSE Deleted
  BY <1>1, <1>2 DEF Deleted
<1> HIDE DEF f, g
<1>7. /\ g \in Seq(Nat) /\ Len(g) = Count(d)
      /\ \A k \in 1..Count(d) : g[k] \in 0..Count(d)
  <2>1. 0..Count(d) \subseteq Nat /\ Count(d) \in Nat
    BY <1>2
  <2>2. g \in [1..Count(d) -> Nat]
    BY <1>6, <2>1
  <2> QED
    BY <1>6, <2>1, <2>2
<1>8. e \in Directories
  <2>1. /\ d.directory \in [DOMAIN d.directory -> Seq(1..Len(d.numbers)) \ {<<>>}]
        /\ DOMAIN d.directory \in SUBSET URI /\ d.numbers \in Seq(URI)
    BY DirectoryFacts DEF Count
  <2> QED
    BY <1>5, <1>7, <2>1, DirectoryMember DEF Count
<1>9. /\ e.numbers = d.numbers /\ e.directory = d.directory /\ e.data = g /\ e.private = f
      /\ Count(e) = Count(d)
  BY DEF Count
<1> HIDE DEF e
<1>10. ASSUME NEW k \in Valid(e)
       PROVE  /\ k \in Valid(d)
              /\ e.data[k] = IF d.data[k] = old THEN new ELSE d.data[k]
              /\ Private(e, k) = IF d.data[k] \in {old, new} THEN both ELSE Private(d, k)
  <2>1. k \in 1..Count(d) /\ g[k] # Deleted /\ Private(e, k) = f[g[k]]
    BY <1>9 DEF Valid, Private
  <2>2. CASE d.data[k] = old
    <3>1. g[k] = new
      BY <1>6, <2>1, <2>2
    <3>2. k \in Valid(d)
      BY <1>1, <2>1, <2>2 DEF Valid, Deleted
    <3> QED
      BY <1>5, <1>9, <2>1, <2>2, <3>1, <3>2
  <2>3. CASE d.data[k] # old
    <3>1. g[k] = d.data[k]
      BY <1>6, <2>1, <2>3
    <3>2. k \in Valid(d) /\ d.data[k] \in 1..Count(d)
      <4>1. k \in Valid(d)
        BY <2>1, <3>1 DEF Valid
      <4> QED
        BY <4>1, ValidFacts
    <3> QED
      BY <1>5, <1>9, <2>1, <2>3, <3>1, <3>2 DEF Private
  <2> QED
    BY <2>2, <2>3
<1> QED
  BY <1>3, <1>4, <1>8, <1>9, <1>10

\* The results of merges: what has its data keeps its account.
Merges(K, d) ==
  {e \in Later(K, d) :
     /\ e.numbers = d.numbers /\ e.directory = d.directory
     /\ \A k \in Valid(e) : Private(e, k).account = Private(d, k).account}

LEMMA MergeSorted ==
  ASSUME NEW K, NEW d \in Sorted(K), NEW n \in Valid(d), NEW o \in Valid(d),
         Private(d, n).account # None, Private(d, n).account = Private(d, o).account,
         K.C[<<d.numbers[n], Private(d, n).account>>]
           = K.C[<<d.numbers[o], Private(d, n).account>>]
  PROVE  merge(d, n, o) \in Merges(K, d)
<1> DEFINE e == merge(d, n, o)
           b == Private(d, o).account
           p == Both(d, n, o)
           this == Private(d, n)
           that == Private(d, o)
           c == K.C[<<d.numbers[o], b>>]
<1>1. d \in Directories
  BY DEF Sorted
<1>2. CASE d.data[n] = d.data[o]
  <2>1. e = d
    BY <1>2 DEF merge
  <2> QED
    BY <2>1, LaterReflexive DEF Merges
<1>3. CASE d.data[n] # d.data[o]
  <2>1. /\ e \in Directories /\ e.numbers = d.numbers /\ e.directory = d.directory
        /\ \A k \in Valid(e) :
             /\ k \in Valid(d)
             /\ e.data[k] = IF d.data[k] = d.data[n] THEN d.data[o] ELSE d.data[k]
             /\ Private(e, k) = IF d.data[k] \in {d.data[n], d.data[o]} THEN p
                                ELSE Private(d, k)
    BY <1>1, <1>3, MergeFields
  <2>2. /\ p.account = b /\ b # None /\ this.account = b /\ that.account = b
        /\ p.uri \in {this.uri, that.uri}
        /\ p.registeredName = IF that.registeredName = None THEN this.registeredName
                              ELSE that.registeredName
    BY DEF Both
  <2> HIDE DEF e, p
  <2>3. /\ K.C[<<this.uri, b>>] = c /\ K.C[<<that.uri, b>>] = c
        /\ this.registeredName # None => <<this.registeredName, c>> \in K.N
        /\ that.registeredName # None => <<that.registeredName, c>> \in K.N
    <3>1. /\ Consistent(K, n, d.numbers[n], d.data[n], this)
          /\ Consistent(K, o, d.numbers[o], d.data[o], that)
      BY SortedFacts
    <3> QED
      BY <2>2, <3>1 DEF Consistent
  <2> HIDE DEF this, that, b, c
  <2>4. /\ K.C[<<p.uri, b>>] = c
        /\ p.registeredName # None => <<p.registeredName, c>> \in K.N
        /\ Single(K) /\ this.registeredName # None => p.registeredName = this.registeredName
        /\ Single(K) /\ that.registeredName # None => p.registeredName = that.registeredName
    <3>1. K.C[<<p.uri, b>>] = c
      BY <2>2, <2>3
    <3>2. p.registeredName # None => <<p.registeredName, c>> \in K.N
      BY <2>2, <2>3
    <3>3. ASSUME Single(K), this.registeredName # None
          PROVE  p.registeredName = this.registeredName
      BY <2>2, <2>3, <3>3 DEF Single
    <3>4. that.registeredName # None => p.registeredName = that.registeredName
      BY <2>2
    <3> QED
      BY <3>1, <3>2, <3>3, <3>4
  <2>5. ASSUME NEW k \in Valid(e)
        PROVE  /\ k \in Valid(d)
               /\ Consistent(K, k, d.numbers[k], e.data[k], Private(e, k))
               /\ Private(e, k).account = Private(d, k).account
               /\ Keeps(K, Private(d, k), Private(e, k))
    <3>1. k \in Valid(d) /\ Consistent(K, k, d.numbers[k], d.data[k], Private(d, k))
      BY <2>1, SortedFacts
    <3>2. CASE d.data[k] \in {d.data[n], d.data[o]}
      <4>1. Private(d, k) \in {this, that} /\ Private(e, k) = p
        BY <2>1, <3>2 DEF this, that, Private
      <4>2. /\ <<d.numbers[k], b>> \in K.P
            /\ K.C[<<d.numbers[k], b>>] = c
        BY <2>2, <2>3, <3>1, <4>1 DEF Consistent
      <4>3. Consistent(K, k, d.numbers[k], e.data[k], p)
        BY <2>2, <2>4, <4>2 DEF Consistent
      <4>4. Keeps(K, Private(d, k), p)
        BY <2>2, <2>4, <4>1 DEF Keeps
      <4>5. Private(d, k).account = b
        BY <2>2, <4>1
      <4> QED
        BY <2>2, <3>1, <4>1, <4>3, <4>4, <4>5
    <3>3. CASE d.data[k] \notin {d.data[n], d.data[o]}
      <4>1. Private(e, k) = Private(d, k) /\ e.data[k] = d.data[k]
        BY <2>1, <3>3
      <4> QED
        BY <3>1, <4>1 DEF Keeps
    <3> QED
      BY <3>2, <3>3
  <2>6. ASSUME NEW k \in Valid(e), NEW u \in DOMAIN e.directory, k \in ToSet(e.directory[u])
        PROVE  Fits(K, d.numbers[k], Private(e, k), u)
    <3>1. k \in Valid(d) /\ k \in ToSet(Wrapper(d, u))
      BY <1>1, <2>1, <2>6, ListFacts
    <3>2. Fits(K, d.numbers[k], Private(d, k), u)
      BY <3>1, SortedFacts
    <3>3. Private(e, k).account = Private(d, k).account
      BY <2>5
    <3> QED
      BY <3>2, <3>3 DEF Fits, Prospects
  <2>7. e \in Sorted(K)
    BY <2>1, <2>5, <2>6 DEF Sorted
  <2>8. /\ Count(e) = Count(d) /\ \A u : Wrapper(e, u) = Wrapper(d, u)
        /\ Count(d) \in Nat
    BY <1>1, <2>1, DirectoryFacts DEF Count, Wrapper
  <2>9. e \in Later(K, d)
    <3>1. Count(d) <= Count(e)
      BY <2>8
    <3> QED
      BY <2>1, <2>5, <2>7, <2>8, <3>1 DEF Later
  <2> QED
    BY <2>1, <2>5, <2>9 DEF Merges, e
<1> QED
  BY <1>2, <1>3

-----------------------------------------------------------------------------
(* The folds: what each step keeps, they keep.                             *)

\* A step of setAccount().
MergedWith(e, k, m, a) == 
  IF Usable(e) /\ k # m /\ Private(e, k).account = a THEN merge(e, m, k) ELSE e

AllMergedWith(d, m, a, s) ==
  FoldLeft(LAMBDA e, k : IF Usable(e) /\ k # m /\ Private(e, k).account = a
                            THEN merge(e, m, k) ELSE e, d, s)

LEMMA AllMergedWithAdvances ==
  ASSUME NEW d, NEW m, NEW a, NEW S, NEW s \in Seq(S), NEW U, NEW G, d \in U, d \in G[0],
         \A x \in U, k \in S : MergedWith(x, k, m, a) \in U,
         \A x \in U, k \in 1..Len(s) : x \in G[k - 1] => MergedWith(x, s[k], m, a) \in G[k]
  PROVE  AllMergedWith(d, m, a, s) \in G[Len(s)]
<1> DEFINE op(x, k) == MergedWith(x, k, m, a)
           it0 == FoldLeft(LAMBDA e, k : IF Usable(e) /\ k # m /\ Private(e, k).account = a
                            THEN merge(e, m, k) ELSE e, d, s)
           n == Len(s)
           F == [p \in U \X (1..n) |-> op(p[1], s[p[2]])]
           IsFold(h) == h = [D \in SUBSET DOMAIN s |->
                               IF D = {} THEN d
                               ELSE op(h[D \ {Max(D)}], s[Max(D)])]
           it == CHOOSE h : IsFold(h)
<1>1. n \in Nat /\ DOMAIN s = 1..n /\ \A k \in 1..n : s[k] \in S
  OBVIOUS
<1>2. it0 = FoldLeft(LAMBDA e, k : MergedWith(e, k, m, a), d, s)
  BY DEF MergedWith
<1>3. SUFFICES it0 \in G[n]
  BY DEF AllMergedWith
<1> HIDE DEF it0
<1>4. \A x \in U, k \in 1..n : F[<<x, k>>] = op(x, s[k]) /\ op(x, s[k]) \in U
  BY <1>1
<1>5. \A x \in U, k \in 1..n : x \in G[k - 1] => op(x, s[k]) \in G[k]
  OBVIOUS
<1> HIDE DEF F, op
<1>6. Stepped(n, U, G, d, F)
  BY <1>1, <1>4, <1>5 DEF Stepped
<1>7. PICK h \in [SUBSET (1..n) -> U] : SequenceFoldsBy(h, n, U, d, F)
  BY <1>6, SequenceFoldExists
<1>8. IsFold(h)
  BY <1>1, <1>4, <1>7 DEF SequenceFoldsBy
<1>9. SUFFICES it[1..n] \in G[n]
  BY <1>1, <1>2, SMTT(60) DEF FoldLeft, MapThenFoldSet, IsFold, op
<1>10. SequenceFoldsBy(it, n, U, d, F)
  <2> HIDE DEF IsFold
  <2>1. IsFold(it)
    BY <1>8
  <2>2. \A D \in SUBSET (1..n) : D # {} => Max(D) \in D
    BY <1>7 DEF SequenceFoldsBy
  <2>3. /\ it[{}] = d
        /\ \A D \in SUBSET (1..n) : D # {} => it[D] = op(it[D \ {Max(D)}], s[Max(D)])
    BY <1>1, <2>1 DEF IsFold
  <2> QED
    BY <1>4, <2>2, <2>3 DEF SequenceFoldsBy
<1> HIDE DEF IsFold, it
<1> QED
  BY <1>6, <1>10, SequenceFoldReaches

LEMMA AllMergedWithReaches ==
  ASSUME NEW d, NEW m, NEW a, NEW S, NEW s \in Seq(S), NEW U, d \in U,
         \A x \in U, k \in S : MergedWith(x, k, m, a) \in U
  PROVE  AllMergedWith(d, m, a, s) \in U
<1> DEFINE G == [k \in 0..Len(s) |-> U]
<1>1. /\ Len(s) \in Nat /\ 0 \in 0..Len(s) /\ Len(s) \in 0..Len(s)
      /\ \A k \in 1..Len(s) : s[k] \in S /\ k \in 0..Len(s)
  OBVIOUS
<1>2. \A k \in 0..Len(s) : G[k] = U
  OBVIOUS
<1> HIDE DEF G
<1>3. d \in G[0] /\ \A x \in U, k \in 1..Len(s) : MergedWith(x, s[k], m, a) \in G[k]
  BY <1>1, <1>2
<1>4. AllMergedWith(d, m, a, s) \in G[Len(s)]
  BY <1>3, AllMergedWithAdvances
<1> QED
  BY <1>1, <1>2, <1>4

\* A step of the second loop of slotRegisteredNameFound().
MergedInto(e, k, o) == 
  IF Usable(e) /\ SameAccount(e, k, o) THEN merge(e, k, o) ELSE e

AllMergedInto(d, o, s) ==
  FoldLeft(LAMBDA e, k : IF Usable(e) /\ SameAccount(e, k, o) THEN merge(e, k, o) ELSE e, d, s)

LEMMA AllMergedIntoReaches ==
  ASSUME NEW d, NEW o, NEW S, NEW s \in Seq(S), NEW U, d \in U,
         \A x \in U, k \in S : MergedInto(x, k, o) \in U
  PROVE  AllMergedInto(d, o, s) \in U
<1> DEFINE op(x, k) == MergedInto(x, k, o)
           it0 == FoldLeft(LAMBDA e, k : IF Usable(e) /\ SameAccount(e, k, o)
                                           THEN merge(e, k, o) ELSE e, d, s)
           n == Len(s)
           G == [k \in 0..n |-> U]
           F == [p \in U \X (1..n) |-> op(p[1], s[p[2]])]
           IsFold(h) == h = [D \in SUBSET DOMAIN s |->
                               IF D = {} THEN d
                               ELSE op(h[D \ {Max(D)}], s[Max(D)])]
           it == CHOOSE h : IsFold(h)
<1>1. n \in Nat /\ DOMAIN s = 1..n /\ \A k \in 1..n : s[k] \in S
  OBVIOUS
<1>2. it0 = FoldLeft(LAMBDA e, k : MergedInto(e, k, o), d, s)
  BY DEF MergedInto
<1>3. SUFFICES it0 \in U
  BY DEF AllMergedInto
<1> HIDE DEF it0
<1>4. \A x \in U, k \in 1..n : F[<<x, k>>] = op(x, s[k]) /\ op(x, s[k]) \in U
  BY <1>1
<1>5. d \in U /\ \A k \in 0..n : G[k] = U
  OBVIOUS
<1> HIDE DEF F, G, op
<1>6. Stepped(n, U, G, d, F)
  BY <1>1, <1>4, <1>5 DEF Stepped
<1>7. PICK h \in [SUBSET (1..n) -> U] : SequenceFoldsBy(h, n, U, d, F)
  BY <1>6, SequenceFoldExists
<1>8. IsFold(h)
  BY <1>1, <1>4, <1>7 DEF SequenceFoldsBy
<1>9. SUFFICES it[1..n] \in G[n]
  BY <1>1, <1>2, <1>5, SMTT(60) DEF FoldLeft, MapThenFoldSet, IsFold, op
<1>10. SequenceFoldsBy(it, n, U, d, F)
  <2> HIDE DEF IsFold
  <2>1. IsFold(it)
    BY <1>8
  <2>2. \A D \in SUBSET (1..n) : D # {} => Max(D) \in D
    BY <1>7 DEF SequenceFoldsBy
  <2>3. /\ it[{}] = d
        /\ \A D \in SUBSET (1..n) : D # {} => it[D] = op(it[D \ {Max(D)}], s[Max(D)])
    BY <1>1, <2>1 DEF IsFold
  <2> QED
    BY <1>4, <2>2, <2>3 DEF SequenceFoldsBy
<1> HIDE DEF IsFold, it
<1> QED
  BY <1>6, <1>10, SequenceFoldReaches

\* Its first loop.
AllNamed(d, name, a, s) ==
  FoldLeft(LAMBDA e, k : Named(e, k, name, a), d, s)

LEMMA AllNamedReaches ==
  ASSUME NEW d, NEW name, NEW a, NEW S, NEW s \in Seq(S), NEW U, d \in U,
         \A x \in U, k \in S : Named(x, k, name, a) \in U
  PROVE  AllNamed(d, name, a, s) \in U
<1> DEFINE op(x, k) == Named(x, k, name, a)
           it0 == FoldLeft(LAMBDA e, k : Named(e, k, name, a), d, s)
           n == Len(s)
           G == [k \in 0..n |-> U]
           F == [p \in U \X (1..n) |-> op(p[1], s[p[2]])]
           IsFold(h) == h = [D \in SUBSET DOMAIN s |->
                               IF D = {} THEN d
                               ELSE op(h[D \ {Max(D)}], s[Max(D)])]
           it == CHOOSE h : IsFold(h)
<1>1. n \in Nat /\ DOMAIN s = 1..n /\ \A k \in 1..n : s[k] \in S
  OBVIOUS
<1>2. SUFFICES it0 \in U
  BY DEF AllNamed
<1> HIDE DEF it0
<1>3. \A x \in U, k \in 1..n : F[<<x, k>>] = op(x, s[k]) /\ op(x, s[k]) \in U
  BY <1>1
<1>4. d \in U /\ \A k \in 0..n : G[k] = U
  OBVIOUS
<1> HIDE DEF F, G, op
<1>5. Stepped(n, U, G, d, F)
  BY <1>1, <1>3, <1>4 DEF Stepped
<1>6. PICK h \in [SUBSET (1..n) -> U] : SequenceFoldsBy(h, n, U, d, F)
  BY <1>5, SequenceFoldExists
<1>7. IsFold(h)
  BY <1>1, <1>3, <1>6 DEF SequenceFoldsBy
<1>8. SUFFICES it[1..n] \in G[n]
  BY <1>1, <1>4, SMTT(60) DEF it0, FoldLeft, MapThenFoldSet, IsFold, op
<1>9. SequenceFoldsBy(it, n, U, d, F)
  <2> HIDE DEF IsFold
  <2>1. IsFold(it)
    BY <1>7
  <2>2. \A D \in SUBSET (1..n) : D # {} => Max(D) \in D
    BY <1>6 DEF SequenceFoldsBy
  <2>3. /\ it[{}] = d
        /\ \A D \in SUBSET (1..n) : D # {} => it[D] = op(it[D \ {Max(D)}], s[Max(D)])
    BY <1>1, <2>1 DEF IsFold
  <2> QED
    BY <1>3, <2>2, <2>3 DEF SequenceFoldsBy
<1> HIDE DEF IsFold, it
<1> QED
  BY <1>5, <1>9, SequenceFoldReaches

-----------------------------------------------------------------------------
(* An object gets an account.                                              *)

LEMMA SequenceOfItsSet ==
  ASSUME NEW S, NEW s \in Seq(S)
  PROVE  s \in Seq(ToSet(s))
<1>1. Len(s) \in Nat /\ s = [k \in 1..Len(s) |-> s[k]] /\ DOMAIN s = 1..Len(s)
  OBVIOUS
<1>2. \A k \in 1..Len(s) : s[k] \in ToSet(s)
  BY <1>1 DEF ToSet
<1>3. s \in [1..Len(s) -> ToSet(s)]
  BY <1>1, <1>2
<1> QED
  BY <1>1, <1>3

LEMMA MergesTransitive ==
  ASSUME NEW K, NEW d \in Sorted(K), NEW e \in Merges(K, d), NEW f \in Merges(K, e)
  PROVE  f \in Merges(K, d)
<1>1. d \in Directories /\ e \in Later(K, d) /\ f \in Later(K, e)
  BY DEF Merges, Sorted
<1>2. f \in Later(K, d)
  BY <1>1, LaterTransitive
<1>3. \A k \in Valid(f) : k \in Valid(e)
  <2>1. Count(f) = Count(e)
    BY DEF Merges, Count
  <2> QED
    BY <1>1, <2>1 DEF Later, Valid
<1> QED
  BY <1>2, <1>3 DEF Merges

LEMMA MergesReflexive ==
  ASSUME NEW K, NEW d \in Sorted(K)
  PROVE  d \in Merges(K, d)
BY LaterReflexive DEF Merges

\* In what merges leave of a usable directory.
LEMMA MergesFacts ==
  ASSUME NEW K, NEW d \in Sorted(K), NEW e \in Merges(K, d)
  PROVE  /\ e \in Sorted(K) /\ e \in Directories /\ e \in Later(K, d)
         /\ e.numbers = d.numbers /\ Count(e) = Count(d) /\ e.directory = d.directory
         /\ Valid(e) \subseteq Valid(d)
         /\ \A k \in Valid(e) : Private(e, k).account = Private(d, k).account
         /\ Usable(e) => Valid(e) = 1..Count(d) /\ Valid(d) = 1..Count(d)
<1>1. /\ e \in Sorted(K) /\ e \in Directories /\ e.numbers = d.numbers
      /\ e.directory = d.directory /\ e \in Later(K, d)
      /\ \A k \in Valid(e) : Private(e, k).account = Private(d, k).account
  BY DEF Merges, Later, Sorted
<1>2. Count(e) = Count(d)
  BY <1>1 DEF Count
<1>3. Valid(e) \subseteq Valid(d)
  BY <1>1, <1>2 DEF Later, Valid
<1>4. Usable(e) => Valid(e) = 1..Count(d)
  BY <1>1, <1>2, UsableIsValid
<1>5. Valid(d) \subseteq 1..Count(d)
  BY DEF Valid
<1> QED
  BY <1>1, <1>2, <1>3, <1>4, <1>5

LEMMA MergedWithListed ==
  ASSUME NEW K, NEW d \in Sorted(K), NEW n \in Valid(d), NEW a \in Account, NEW u \in URI,
         Private(d, n).account = a, K.C[<<d.numbers[n], a>>] = K.C[<<u, a>>]
  PROVE  AllMergedWith(d, n, a, Wrapper(d, u)) \in Merges(K, d)
<1> DEFINE S == ToSet(Wrapper(d, u))
<1>1. d \in Directories /\ a # None /\ n \in 1..Count(d)
  BY DirectoryConstants DEF Sorted, Valid
<1>2. S \subseteq 1..Count(d) /\ Wrapper(d, u) \in Seq(S)
  BY <1>1, ListFacts, SequenceOfItsSet
<1>3. ASSUME NEW e \in Merges(K, d), NEW k \in S, Usable(e), Private(e, k).account = a
      PROVE  merge(e, n, k) \in Merges(K, d)
  <2>1. /\ e \in Sorted(K) /\ n \in Valid(e) /\ k \in Valid(e) /\ e.numbers = d.numbers
        /\ k \in Valid(d) /\ Private(e, n).account = a /\ Private(d, k).account = a
    <3>1. k \in 1..Count(d)
      BY <1>2
    <3>2. /\ e \in Sorted(K) /\ e.numbers = d.numbers
          /\ \A m \in Valid(e) : Private(e, m).account = Private(d, m).account
          /\ Valid(e) = 1..Count(d) /\ Valid(d) = 1..Count(d)
      BY <1>3, MergesFacts
    <3> QED
      BY <1>1, <1>3, <3>1, <3>2
  <2>2. K.C[<<d.numbers[k], a>>] = K.C[<<u, a>>]
    <3>1. Fits(K, d.numbers[k], Private(d, k), u)
      BY <2>1, SortedFacts
    <3> QED
      BY <1>1, <2>1, <3>1 DEF Fits, Prospects
  <2>3. merge(e, n, k) \in Merges(K, e)
    <3>1. /\ Private(e, n).account = a /\ Private(e, k).account = a
          /\ K.C[<<e.numbers[n], a>>] = K.C[<<e.numbers[k], a>>]
      BY <1>3, <2>1, <2>2
    <3> QED
      BY <1>1, <2>1, <3>1, MergeSorted
  <2> QED
    BY <2>3, MergesTransitive
<1> HIDE DEF S
<1> DEFINE U == Merges(K, d)
<1>4. d \in U /\ \A e \in U, k \in S : MergedWith(e, k, n, a) \in U
  BY <1>3, MergesReflexive DEF MergedWith
<1> HIDE DEF U
<1> DEFINE s == Wrapper(d, u)
<1>5. s \in Seq(S)
  BY <1>2
<1> HIDE DEF s
<1>6. AllMergedWith(d, n, a, s) \in U
  BY <1>4, <1>5, AllMergedWithReaches
<1> QED
  BY <1>6 DEF U, s

LEMMA ExtendedFacts ==
  ASSUME NEW u \in URI, NEW a \in Account
  PROVE  Extended(u, a) \in URI /\ Extended(u, a).host = HostOf[a] /\ HostOf[a] # None
         /\ Extended(u, a).user = u.user
<1>1. HostOf[a] \in Host /\ HostOf[a] # None
  BY DirectoryConstants
<1>2. u = [user |-> u.user, host |-> u.host] /\ u.user \in User
  BY DEF URI
<1>3. Extended(u, a) = [user |-> u.user, host |-> HostOf[a]]
  BY <1>2 DEF Extended
<1> QED
  BY <1>1, <1>2, <1>3 DEF URI

\* An object without an account gets a, if it is one that it may have.
Given(d, n, a) == [d EXCEPT !.private[d.data[n]].account = a]

LEMMA GivenSorted ==
  ASSUME NEW K, Classes(K), NEW d \in Sorted(K), NEW n \in Valid(d), NEW a \in Account \cup {None},
         Private(d, n).account \in {None, a},
         Private(d, n).account = None /\ a # None => <<d.numbers[n], a>> \in K.P
  PROVE  /\ Given(d, n, a) \in Later(K, d)
         /\ Given(d, n, a).numbers = d.numbers /\ Given(d, n, a).data = d.data
         /\ Given(d, n, a).directory = d.directory
         /\ Private(Given(d, n, a), n) = [Private(d, n) EXCEPT !.account = a]
<1> DEFINE q == Private(d, n)
           p == [q EXCEPT !.account = a]
<1>1. /\ d \in Directories /\ q \in Data /\ d.numbers[n] \in URI
  BY ValidFacts DEF Sorted
<1>2. Given(d, n, a) = Revised(d, n, p)
  <2>1. Given(d, n, a) =
          [d EXCEPT !.private[d.data[n]] = [d.private[d.data[n]] EXCEPT !.account = a]]
    BY DEF Given
  <2> QED
    BY <2>1 DEF Revised, Private
<1>3. Consistent(K, n, d.numbers[n], d.data[n], q)
  BY SortedFacts
<1> HIDE DEF q
<1>4. /\ p \in Data /\ p.uri = q.uri /\ p.account = a /\ p.registeredName = q.registeredName
      /\ q.uri \in URI /\ q.registeredName \in User \cup {None}
  BY <1>1 DEF Data
<1> HIDE DEF p
<1>5. Keeps(K, q, p)
  BY <1>4 DEF q, Keeps
<1>6. p.registeredName # None => <<p.registeredName, K.C[<<p.uri, p.account>>]>> \in K.N
  <2> SUFFICES ASSUME q.registeredName # None
               PROVE  <<q.registeredName, K.C[<<q.uri, a>>]>> \in K.N
    BY <1>4
  <2>1. <<q.registeredName, K.C[<<q.uri, q.account>>]>> \in K.N
    BY <1>3 DEF Consistent
  <2>2. CASE q.account = a
    BY <2>1, <2>2
  <2>3. CASE q.account = None /\ a # None
    <3>1. q.uri = d.numbers[n] /\ <<q.uri, a>> \in K.P
      BY <1>3, <2>3 DEF q, Consistent
    <3>2. q.registeredName \in User
      BY <1>4
    <3> QED
      BY <1>4, <2>1, <2>3, <3>1, <3>2 DEF Classes
  <2> QED
    BY <2>2, <2>3 DEF q
<1>7. \/ p.account = q.account
      \/ q.account = None /\ <<d.numbers[n], p.account>> \in K.P
  BY <1>4 DEF q
<1>8. /\ Revised(d, n, p) \in Later(K, d)
      /\ Revised(d, n, p).numbers = d.numbers /\ Revised(d, n, p).data = d.data
      /\ Revised(d, n, p).directory = d.directory
      /\ Private(Revised(d, n, p), n) = p
  BY <1>4, <1>5, <1>6, <1>7, RevisedSorted DEF q
<1> QED
  BY <1>2, <1>8 DEF p, q

LEMMA SetAccountSorted ==
  ASSUME NEW K, Classes(K), NEW d \in Sorted(K), NEW n \in Valid(d), NEW a \in Account,
         Private(d, n).account \in {None, a},
         Private(d, n).account = None => <<d.numbers[n], a>> \in K.P
  PROVE  /\ setAccount(d, n, a) \in Later(K, d) /\ setAccount(d, n, a).numbers = d.numbers
         /\ n \in Valid(setAccount(d, n, a)) =>
              Private(setAccount(d, n, a), n).account = a
<1> DEFINE u == Private(d, n).uri
           v == Extended(u, a)
           given == Given(d, n, a)
           same == AllMergedWith(given, n, a, Wrapper(d, v))
<1>1. /\ d \in Directories /\ u \in URI /\ a # None /\ n \in 1..Count(d)
      /\ Private(d, n) \in Data
  <2>1. d \in Directories /\ a # None /\ n \in 1..Count(d) /\ Private(d, n) \in Data
    BY ValidFacts, DirectoryConstants DEF Sorted
  <2> QED
    BY <2>1 DEF Data
<1>2. setAccount(d, n, a) = IF u.host # None THEN given ELSE Listed(same, v, n)
  BY DEF setAccount, Given, AllMergedWith
<1> HIDE DEF u
<1>3. v \in URI
  BY <1>1, ExtendedFacts
<1>4. /\ given \in Later(K, d) /\ given \in Sorted(K) /\ given.numbers = d.numbers
      /\ given.data = d.data /\ given.directory = d.directory
      /\ Private(given, n).account = a /\ Private(given, n).uri = u
  <2>1. /\ given \in Later(K, d) /\ given.numbers = d.numbers /\ given.data = d.data
        /\ given.directory = d.directory
        /\ Private(given, n) = [Private(d, n) EXCEPT !.account = a]
    BY GivenSorted
  <2>2. given \in Sorted(K)
    BY <2>1 DEF Later
  <2> QED
    BY <1>1, <2>1, <2>2 DEF Data, u
<1> HIDE DEF given
<1>5. /\ Count(given) = Count(d) /\ Valid(given) = Valid(d)
      /\ Wrapper(given, v) = Wrapper(d, v)
  BY <1>4 DEF Count, Valid, Wrapper
<1>6. CASE u.host # None
  BY <1>2, <1>4, <1>6
<1>7. CASE u.host = None
  <2>1. K.C[<<given.numbers[n], a>>] = K.C[<<v, a>>]
    <3>1. Consistent(K, n, given.numbers[n], given.data[n], Private(given, n))
      BY <1>4, <1>5, SortedFacts
    <3>2. K.C[<<given.numbers[n], a>>] = K.C[<<u, a>>]
      BY <1>1, <1>4, <3>1 DEF Consistent
    <3>3. K.C[<<v, a>>] = K.C[<<u, a>>]
      BY <1>1, <1>7 DEF Classes
    <3> QED
      BY <3>2, <3>3
  <2> HIDE DEF v
  <2>2. same \in Merges(K, given)
    BY <1>3, <1>4, <1>5, <2>1, MergedWithListed
  <2> HIDE DEF same
  <2>3. /\ same \in Sorted(K) /\ same \in Later(K, given) /\ same.numbers = d.numbers
        /\ Count(same) = Count(d)
        /\ \A k \in Valid(same) : Private(same, k).account = Private(given, k).account
    BY <1>4, <1>5, <2>2, MergesFacts
  <2>4. same \in Later(K, d)
    BY <1>1, <1>4, <2>3, LaterTransitive
  <2>5. n \in Valid(same) => Fits(K, same.numbers[n], Private(same, n), v)
    <3> SUFFICES ASSUME n \in Valid(same) PROVE Fits(K, same.numbers[n], Private(same, n), v)
      OBVIOUS
    <3>1. Private(same, n).account = a
      BY <1>4, <2>3
    <3> QED
      BY <1>1, <1>4, <2>1, <2>3, <3>1 DEF Fits, Prospects
  <2>6. /\ Listed(same, v, n) \in Later(K, same) /\ Listed(same, v, n).numbers = same.numbers
        /\ Listed(same, v, n).data = same.data /\ Listed(same, v, n).private = same.private
    BY <1>1, <1>3, <2>3, <2>5, ListedSorted
  <2>7. Listed(same, v, n) \in Later(K, d)
    BY <1>1, <2>4, <2>6, LaterTransitive
  <2>8. n \in Valid(Listed(same, v, n)) => Private(Listed(same, v, n), n).account = a
    <3>1. Valid(Listed(same, v, n)) = Valid(same)
      BY <2>6 DEF Valid, Count
    <3>2. Private(Listed(same, v, n), n) = Private(same, n)
      BY <2>6 DEF Private
    <3> QED
      BY <1>4, <2>3, <3>1, <3>2
  <2> QED
    BY <1>2, <1>7, <2>3, <2>6, <2>7, <2>8
<1> QED
  BY <1>6, <1>7

-----------------------------------------------------------------------------
(* An object is created.                                                   *)

Made(d, u, a) ==
  [d EXCEPT !.numbers = Append(@, u),
            !.data    = Append(@, Len(d.numbers) + 1),
            !.private = Append(@, [uri |-> u, account |-> a, registeredName |-> None])]

LEMMA SequencesGrow ==
  ASSUME NEW S, NEW T, S \subseteq T
  PROVE  Seq(S) \subseteq Seq(T)
OBVIOUS

LEMMA MadeSorted ==
  ASSUME NEW K, NEW d \in Sorted(K), NEW u \in URI, NEW a \in Account \cup {None},
         a # None => <<u, a>> \in K.P
  PROVE  /\ Made(d, u, a) \in Later(K, d) /\ Made(d, u, a).numbers[Count(d) + 1] = u
         /\ Made(d, u, a).directory = d.directory /\ Count(Made(d, u, a)) = Count(d) + 1
         /\ Count(d) + 1 \in Valid(Made(d, u, a))
         /\ Private(Made(d, u, a), Count(d) + 1)
              = [uri |-> u, account |-> a, registeredName |-> None]
         /\ Made(d, u, a).data[Count(d) + 1] = Count(d) + 1
         /\ \A k \in 1..Count(d) : Made(d, u, a).data[k] = d.data[k]
         /\ \A k \in Valid(d) : Private(Made(d, u, a), k) = Private(d, k)
<1> DEFINE c == Count(d)
           p == [uri |-> u, account |-> a, registeredName |-> None]
           numbers == Append(d.numbers, u)
           data == Append(d.data, c + 1)
           private == Append(d.private, p)
           e == [numbers |-> numbers, data |-> data, private |-> private,
                 directory |-> d.directory]
<1>1. /\ d \in Directories /\ c \in Nat /\ d.numbers \in Seq(URI) /\ Len(d.numbers) = c
      /\ d.data \in Seq(Nat) /\ Len(d.data) = c /\ d.private \in Seq(Data)
      /\ Len(d.private) = c /\ \A k \in 1..c : d.data[k] \in 0..c
      /\ d = [numbers |-> d.numbers, data |-> d.data, private |-> d.private,
              directory |-> d.directory]
  <2>1. d \in Directories
    BY DEF Sorted
  <2> QED
    BY <2>1, DirectoryFacts DEF Count
<1>2. /\ p \in Data /\ p.uri = u /\ p.account = a /\ p.registeredName = None
  BY DEF Data
<1>3. Made(d, u, a) = e
  <2> HIDE DEF p
  <2>1. Made(d, u, a) = [d EXCEPT !.numbers = numbers, !.data = data, !.private = private]
    BY <1>1, Zenon DEF Made, p, Count
  <2> HIDE DEF numbers, data, private
  <2> QED
    BY <1>1, <2>1
<1> HIDE DEF p
<1>4. /\ numbers \in Seq(URI) /\ Len(numbers) = c + 1 /\ numbers[c + 1] = u
      /\ \A k \in 1..c : numbers[k] = d.numbers[k]
  BY <1>1, AppendProperties
<1>5. /\ data \in Seq(Nat) /\ Len(data) = c + 1 /\ data[c + 1] = c + 1
      /\ \A k \in 1..c : data[k] = d.data[k]
  <2>1. c + 1 \in Nat
    BY <1>1
  <2> QED
    BY <1>1, <2>1, AppendProperties
<1>6. /\ private \in Seq(Data) /\ Len(private) = c + 1 /\ private[c + 1] = p
      /\ \A k \in 1..c : private[k] = d.private[k]
  BY <1>1, <1>2, AppendProperties
<1> HIDE DEF numbers, data, private
<1>7. /\ \A k \in 1..(c + 1) : k \in 1..c \/ k = c + 1
      /\ c + 1 \in 1..(c + 1) /\ c + 1 # 0 /\ 1..c \subseteq 1..(c + 1) /\ c + 1 \notin 1..c
      /\ 0..c \subseteq 0..(c + 1) /\ c + 1 \in 0..(c + 1)
      /\ c <= c + 1
  BY <1>1
<1>8. e \in Directories
  <2>1. \A k \in 1..(c + 1) : data[k] \in 0..(c + 1)
    BY <1>1, <1>5, <1>7
  <2>2. Seq(1..c) \subseteq Seq(1..(c + 1))
    <3> DEFINE S == 1..c
               T == 1..(c + 1)
    <3>1. S \subseteq T
      BY <1>7
    <3> HIDE DEF S, T
    <3>2. Seq(S) \subseteq Seq(T)
      BY <3>1, SequencesGrow
    <3> QED
      BY <3>2 DEF S, T
  <2>3. /\ d.directory \in [DOMAIN d.directory -> Seq(1..(c + 1)) \ {<<>>}]
        /\ DOMAIN d.directory \in SUBSET URI
    BY <1>1, <2>2, DirectoryFacts
  <2> QED
    BY <1>4, <1>5, <1>6, <2>1, <2>3, DirectoryMember
<1>9. /\ e.numbers = numbers /\ e.data = data /\ e.private = private
      /\ e.directory = d.directory
  OBVIOUS
<1> HIDE DEF e
<1>10. /\ Count(e) = c + 1 /\ \A v : Wrapper(e, v) = Wrapper(d, v)
       /\ c + 1 \in Valid(e) /\ Private(e, c + 1) = p
  BY <1>4, <1>5, <1>6, <1>7, <1>9 DEF Count, Wrapper, Valid, Private, Deleted
<1>11. ASSUME NEW k \in Valid(e)
       PROVE  \/ k = c + 1
              \/ /\ k \in Valid(d) /\ k \in 1..c /\ e.numbers[k] = d.numbers[k]
                 /\ e.data[k] = d.data[k] /\ Private(e, k) = Private(d, k)
  <2>1. k \in 1..(c + 1) /\ e.data[k] # Deleted
    BY <1>10 DEF Valid
  <2>2. CASE k \in 1..c
    <3>1. e.data[k] = d.data[k] /\ e.numbers[k] = d.numbers[k] /\ k \in Valid(d)
      BY <1>4, <1>5, <1>9, <2>1, <2>2 DEF Valid
    <3>2. d.data[k] \in 1..c
      BY <1>1, <3>1, ValidFacts
    <3> QED
      BY <1>6, <1>9, <2>2, <3>1, <3>2 DEF Private
  <2> QED
    BY <1>7, <2>1, <2>2
<1>12. ASSUME NEW k \in Valid(e)
       PROVE  /\ Consistent(K, k, e.numbers[k], e.data[k], Private(e, k))
              /\ \A v \in DOMAIN e.directory :
                   k \in ToSet(e.directory[v]) => Fits(K, e.numbers[k], Private(e, k), v)
  <2>1. CASE k = c + 1
    <3>1. Consistent(K, c + 1, u, c + 1, p)
      BY <1>2 DEF Consistent
    <3>2. \A v \in DOMAIN e.directory : ToSet(e.directory[v]) \subseteq 1..c
      <4>1. \A v \in DOMAIN e.directory : e.directory[v] = Wrapper(d, v)
        BY <1>9 DEF Wrapper
      <4> QED
        BY <1>1, <4>1, ListFacts
    <3> QED
      BY <1>4, <1>5, <1>7, <1>9, <1>10, <2>1, <3>1, <3>2
  <2>2. CASE k # c + 1
    <3>1. \A v \in DOMAIN e.directory : e.directory[v] = Wrapper(d, v)
      BY <1>9 DEF Wrapper
    <3> QED
      BY <1>11, <2>2, <3>1, SortedFacts
  <2> QED
    BY <2>1, <2>2
<1>13. e \in Sorted(K)
  BY <1>8, <1>12 DEF Sorted
<1>14. e \in Later(K, d)
  <2>1. \A k \in 1..c : e.numbers[k] = d.numbers[k] /\ (k \in Valid(e) => k \in Valid(d))
    BY <1>4, <1>7, <1>9, <1>11
  <2>2. ASSUME NEW k \in Valid(d) \cap Valid(e) PROVE Keeps(K, Private(d, k), Private(e, k))
    <3>1. k \in 1..c
      BY DEF Valid
    <3> QED
      BY <1>7, <1>11, <3>1 DEF Keeps
  <2> QED
    BY <1>7, <1>10, <1>13, <2>1, <2>2 DEF Later
<1>15. ASSUME NEW k \in Valid(d) PROVE Private(e, k) = Private(d, k)
  <2>1. k \in 1..c /\ d.data[k] \in 1..c
    BY <1>1, ValidFacts
  <2> QED
    BY <1>5, <1>6, <1>9, <2>1 DEF Private
<1> QED
  BY <1>3, <1>4, <1>5, <1>9, <1>10, <1>14, <1>15 DEF p

LEMMA UserInfoFacts ==
  ASSUME NEW u \in URI
  PROVE  UserInfo(u) \in URI /\ UserInfo(u).host = None /\ UserInfo(u).user = u.user
<1>1. u = [user |-> u.user, host |-> u.host] /\ u.user \in User
  BY DEF URI
<1>2. UserInfo(u) = [user |-> u.user, host |-> None]
  BY <1>1 DEF UserInfo
<1> QED
  BY <1>1, <1>2 DEF URI

LEMMA CreateSorted ==
  ASSUME NEW K, Classes(K), NEW d \in Sorted(K), NEW u \in URI, NEW a \in Account \cup {None},
         a # None => <<u, a>> \in K.P
  PROVE  /\ Create(d, u, a) \in Later(K, d) /\ Create(d, u, a).numbers[Count(d) + 1] = u
         /\ Count(d) + 1 \in 1..Count(Create(d, u, a))
         /\ Private(Create(d, u, a), Count(d) + 1).account = a
<1> DEFINE n == Count(d) + 1
           made == Made(d, u, a)
           named == Listed(made, UserInfo(u), n)
           base == IF a # None /\ u \notin DOMAIN d.directory THEN named ELSE made
           p == [uri |-> u, account |-> a, registeredName |-> None]
<1>1. Create(d, u, a) = Listed(base, u, n)
  BY DEF Create, Made, Count
<1>2. d \in Directories /\ n \in 1..n
  <2>1. d \in Directories
    BY DEF Sorted
  <2>2. Count(d) \in Nat
    BY <2>1, DirectoryFacts
  <2> QED
    BY <2>1, <2>2
<1>3. /\ made \in Later(K, d) /\ made.numbers[n] = u /\ Count(made) = n
      /\ n \in Valid(made) /\ Private(made, n) = p
  BY MadeSorted
<1>4. made \in Sorted(K)
  BY <1>3 DEF Later
<1>5. p.account = a
  OBVIOUS
<1> HIDE DEF made, p
<1>6. UserInfo(u) \in URI
  BY UserInfoFacts
<1>7. a # None => Fits(K, u, p, UserInfo(u))
  BY <1>5 DEF Fits, Prospects, Classes
<1>8. a # None => /\ named \in Later(K, made) /\ named.numbers = made.numbers
                  /\ named.data = made.data /\ named.private = made.private
  BY <1>2, <1>3, <1>4, <1>6, <1>7, ListedSorted
<1> HIDE DEF named
<1>9. /\ base \in Later(K, made) /\ base.numbers = made.numbers
      /\ base.data = made.data /\ base.private = made.private
  BY <1>4, <1>8, LaterReflexive
<1> HIDE DEF base
<1>10. /\ base \in Sorted(K) /\ base \in Later(K, d) /\ Count(base) = n /\ n \in Valid(base)
       /\ Private(base, n) = p
  <2>1. base \in Sorted(K)
    BY <1>9 DEF Later
  <2>2. base \in Later(K, d)
    BY <1>2, <1>3, <1>9, LaterTransitive
  <2>3. Count(base) = n /\ n \in Valid(base) /\ Private(base, n) = p
    BY <1>3, <1>9 DEF Count, Valid, Private
  <2> QED
    BY <2>1, <2>2, <2>3
<1>11. Fits(K, u, p, u)
  BY DEF Fits
<1> DEFINE e == Listed(base, u, n)
<1>12. /\ e \in Later(K, base) /\ e.numbers = base.numbers /\ e.data = base.data
       /\ e.private = base.private
  BY <1>2, <1>3, <1>4, <1>9, <1>10, <1>11, ListedSorted
<1> HIDE DEF e
<1>13. e \in Later(K, d)
  BY <1>2, <1>10, <1>12, LaterTransitive
<1>14. Count(e) = n /\ Private(e, n) = p /\ e.numbers[n] = u
  BY <1>3, <1>9, <1>10, <1>12 DEF Count, Private
<1> QED
  BY <1>1, <1>2, <1>5, <1>13, <1>14 DEF e

-----------------------------------------------------------------------------
(* The answers of the directory.                                           *)

\* The number n is one for u: by a, if that is an account.
Serves(K, d, n, u, a) ==
  n \in Valid(d) =>
    /\ a # None => Private(d, n).account = a
    /\ Private(d, n).account # None =>
         K.C[<<d.numbers[n], Private(d, n).account>>] = K.C[<<u, Private(d, n).account>>]

Asked(K, u, a) ==
  /\ u \in URI /\ a \in Account \cup {None}
  /\ a # None => <<u, a>> \in K.P

\* An object that is listed for u, has its data, and no other account than a, serves.
LEMMA ListedServes ==
  ASSUME NEW K, NEW d \in Sorted(K), NEW u, NEW a, NEW n \in Valid(d) \cap ToSet(Wrapper(d, u)),
         Suits(d, n, a)
  PROVE  Serves(K, d, n, u, a)
<1>1. Fits(K, d.numbers[n], Private(d, n), u)
  BY SortedFacts
<1> QED
  BY <1>1 DEF Serves, Suits, Fits, Prospects

LEMMA FillDetailsSorted ==
  ASSUME NEW K, Classes(K), NEW d \in Sorted(K), NEW u, NEW a, Asked(K, u, a),
         NEW n \in Valid(d) \cap ToSet(Wrapper(d, u)), Compatible(d, n, u, a)
  PROVE  /\ fillDetails(d, n, a) \in Later(K, d)
         /\ fillDetails(d, n, a).numbers = d.numbers
         /\ Serves(K, fillDetails(d, n, a), n, u, a)
<1>1. Fits(K, d.numbers[n], Private(d, n), u)
      /\ Consistent(K, n, d.numbers[n], d.data[n], Private(d, n))
  BY SortedFacts
<1>2. CASE a = None
  <2>1. Suits(d, n, a)
    BY <1>2 DEF Suits
  <2> QED
    BY <1>2, <2>1, LaterReflexive, ListedServes DEF fillDetails
<1>3. CASE a # None
  <2>1. a \in Account /\ Private(d, n).account \in {None, a}
    BY <1>3 DEF Compatible, Asked
  <2>2. Private(d, n).account = None => <<d.numbers[n], a>> \in K.P
    BY <1>1, <1>3 DEF Compatible, Consistent, Asked
  <2>3. K.C[<<d.numbers[n], a>>] = K.C[<<u, a>>]
    BY <1>1, <1>3, <2>1, <2>2 DEF Fits, Prospects
  <2> DEFINE e == setAccount(d, n, a)
  <2>4. /\ e \in Later(K, d) /\ e.numbers = d.numbers
        /\ n \in Valid(e) => Private(e, n).account = a
    BY <2>1, <2>2, SetAccountSorted
  <2>5. fillDetails(d, n, a) = e
    BY <1>3 DEF fillDetails
  <2> HIDE DEF e
  <2> QED
    BY <2>3, <2>4, <2>5 DEF Serves
<1> QED
  BY <1>2, <1>3

LEMMA CandidateFacts ==
  ASSUME NEW K, NEW d \in Sorted(K), Usable(d), NEW u, NEW a
  PROVE  LET n == Candidate(d, u, a)
         IN  n # None => n \in Valid(d) \cap ToSet(Wrapper(d, u)) /\ Compatible(d, n, u, a)
<1> DEFINE T == {n \in DOMAIN d.data : Compatible(d, n, u, a)}
<1>1. d \in Directories /\ Valid(d) = 1..Count(d)
  <2>1. d \in Directories
    BY DEF Sorted
  <2> QED
    BY <2>1, UsableIsValid
<1>2. Wrapper(d, u) \in Seq(1..Count(d)) /\ Count(d) \in Nat
  BY <1>1, ListFacts, DirectoryFacts
<1>3. \A n \in T : Compatible(d, n, u, a)
  OBVIOUS
<1>4. Candidate(d, u, a) = First(Wrapper(d, u), T)
  BY DEF Candidate
<1> HIDE DEF T
<1>5. Candidate(d, u, a) # None =>
        Candidate(d, u, a) \in ToSet(Wrapper(d, u)) \cap T \cap 1..Count(d)
  BY <1>2, <1>4, FirstFound
<1> QED
  BY <1>1, <1>3, <1>5

LEMMA SuitableFacts ==
  ASSUME NEW K, NEW d \in Sorted(K), Usable(d), NEW u, NEW a, NEW n,
         n \in {First(Wrapper(d, u), Suitable(d, a)), LastOf(Wrapper(d, u), Suitable(d, a))},
         n # None
  PROVE  n \in Valid(d) \cap ToSet(Wrapper(d, u)) /\ Suits(d, n, a)
<1>1. d \in Directories /\ Valid(d) = 1..Count(d)
  <2>1. d \in Directories
    BY DEF Sorted
  <2> QED
    BY <2>1, UsableIsValid
<1>2. Wrapper(d, u) \in Seq(1..Count(d)) /\ Count(d) \in Nat
  BY <1>1, ListFacts, DirectoryFacts
<1>3. n \in ToSet(Wrapper(d, u)) \cap Suitable(d, a) \cap 1..Count(d)
  BY <1>2, FirstFound
<1> QED
  BY <1>1, <1>3 DEF Suitable

\* A merge of two objects that serve u leaves one that does.
LEMMA MergedServes ==
  ASSUME NEW K, NEW d \in Sorted(K), Usable(d), NEW u, NEW a, a # None,
         NEW n \in Valid(d), NEW o \in Valid(d), Serves(K, d, n, u, a), Serves(K, d, o, u, a)
  PROVE  merge(d, n, o) \in Merges(K, d) /\ Serves(K, merge(d, n, o), o, u, a)
<1>1. /\ Private(d, n).account = a /\ Private(d, o).account = a
      /\ K.C[<<d.numbers[n], a>>] = K.C[<<d.numbers[o], a>>]
      /\ K.C[<<d.numbers[o], a>>] = K.C[<<u, a>>]
  BY DEF Serves
<1>2. merge(d, n, o) \in Merges(K, d)
  BY <1>1, MergeSorted
<1> DEFINE e == merge(d, n, o)
<1> HIDE DEF e
<1>3. e.numbers = d.numbers /\ \A k \in Valid(e) : Private(e, k).account = Private(d, k).account
  BY <1>2 DEF Merges, e
<1>4. Serves(K, e, o, u, a)
  BY <1>1, <1>3 DEF Serves
<1> QED
  BY <1>2, <1>4 DEF e

Answers(K, d, u, a) ==
  {f \in [dir : Later(K, d), number : Nat] :
     f.number \in 1..Count(f.dir) /\ Serves(K, f.dir, f.number, u, a)}

LEMMA AnswersMember ==
  ASSUME NEW K, NEW d, NEW u, NEW a, NEW e \in Later(K, d), NEW n \in 1..Count(e),
         Serves(K, e, n, u, a)
  PROVE  [dir |-> e, number |-> n] \in Answers(K, d, u, a)
<1>1. n \in Nat
  OBVIOUS
<1> QED
  BY <1>1 DEF Answers

LEMMA GetNumberSorted ==
  ASSUME NEW K, Classes(K), NEW d \in Sorted(K), Usable(d), NEW u, NEW a, Asked(K, u, a)
  PROVE  getNumber(d, u, a) \in Answers(K, d, u, a)
<1> DEFINE host   == IF u.host = None /\ a # None THEN Candidate(d, Extended(u, a), a) ELSE None
           exact  == Candidate(d, u, a)
           filled == IF exact = None THEN d ELSE fillDetails(d, exact, a)
           short  == IF a # None /\ u = Extended(u, a) /\ Usable(filled)
                       THEN First(Wrapper(filled, UserInfo(u)), Suitable(filled, a)) ELSE None
           any    == First(Wrapper(d, u), Suitable(d, a))
           A      == Answers(K, d, u, a)
           found  == getNumber(d, u, a)
<1>1. /\ d \in Directories /\ d \in Later(K, d) /\ u \in URI /\ a \in Account \cup {None}
      /\ Valid(d) \subseteq 1..Count(d)
  BY LaterReflexive DEF Sorted, Asked, Valid
<1>2. /\ host # None => found = [dir |-> fillDetails(d, host, a), number |-> host]
      /\ host = None /\ exact # None =>
           found = [dir |-> IF short = None THEN filled ELSE merge(filled, short, exact),
                    number |-> exact]
      /\ host = None /\ exact = None /\ short # None => found = [dir |-> d, number |-> short]
      /\ host = None /\ exact = None /\ short = None /\ any # None =>
           found = [dir |-> d, number |-> any]
      /\ host = None /\ exact = None /\ short = None /\ any = None =>
           found = [dir |-> Create(d, u, a), number |-> Count(d) + 1]
  BY DEF getNumber, Count
<1> HIDE DEF found
<1>3. ASSUME host # None PROVE found \in A
  <2> DEFINE v == Extended(u, a)
             e == fillDetails(d, host, a)
  <2>1. u.host = None /\ a # None /\ a \in Account /\ host = Candidate(d, v, a)
    BY <1>1, <1>3
  <2>2. Asked(K, v, a)
    BY <1>1, <2>1, ExtendedFacts DEF Classes, Asked
  <2> HIDE DEF v, host
  <2>3. host \in Valid(d) \cap ToSet(Wrapper(d, v)) /\ Compatible(d, host, v, a)
    BY <1>3, <2>1, CandidateFacts
  <2>4. e \in Later(K, d) /\ e.numbers = d.numbers /\ Serves(K, e, host, v, a)
    BY <2>2, <2>3, FillDetailsSorted
  <2> HIDE DEF e
  <2>5. K.C[<<v, a>>] = K.C[<<u, a>>]
    BY <1>1, <2>1 DEF v, Classes
  <2>6. Serves(K, e, host, u, a)
    BY <2>1, <2>4, <2>5 DEF Serves
  <2>7. host \in 1..Count(e)
    BY <1>1, <2>3, <2>4 DEF Count
  <2>8. found = [dir |-> e, number |-> host]
    BY <1>2, <1>3 DEF e
  <2> QED
    BY <2>4, <2>6, <2>7, <2>8, AnswersMember
<1>4. /\ filled \in Later(K, d) /\ filled \in Sorted(K) /\ filled.numbers = d.numbers
      /\ exact # None => exact \in Valid(d) /\ Serves(K, filled, exact, u, a)
  <2>1. CASE exact = None
    BY <1>1, <2>1
  <2>2. CASE exact # None
    <3>1. exact \in Valid(d) \cap ToSet(Wrapper(d, u)) /\ Compatible(d, exact, u, a)
      BY <2>2, CandidateFacts
    <3> HIDE DEF exact
    <3>2. /\ fillDetails(d, exact, a) \in Later(K, d)
          /\ fillDetails(d, exact, a).numbers = d.numbers
          /\ Serves(K, fillDetails(d, exact, a), exact, u, a)
      BY <3>1, FillDetailsSorted
    <3> QED
      BY <2>2, <3>1, <3>2 DEF Later
  <2> QED
    BY <2>1, <2>2
<1> HIDE DEF host, exact
<1>5. exact = None => filled = d
  OBVIOUS
<1> HIDE DEF filled
<1>6. Count(filled) = Count(d)
  BY <1>4 DEF Count
<1>7. short # None =>
        /\ a # None /\ Usable(filled) /\ short \in Valid(filled)
        /\ Serves(K, filled, short, u, a)
  <2> SUFFICES ASSUME short # None
               PROVE  /\ a # None /\ Usable(filled) /\ short \in Valid(filled)
                      /\ Serves(K, filled, short, u, a)
    OBVIOUS
  <2> DEFINE v == UserInfo(u)
  <2>1. /\ a # None /\ a \in Account /\ Usable(filled)
        /\ short = First(Wrapper(filled, v), Suitable(filled, a))
    BY <1>1
  <2> HIDE DEF short
  <2>2. K.C[<<v, a>>] = K.C[<<u, a>>]
    BY <1>1, <2>1 DEF Asked, Classes
  <2> HIDE DEF v
  <2>3. short \in Valid(filled) \cap ToSet(Wrapper(filled, v)) /\ Suits(filled, short, a)
    BY <1>4, <2>1, SuitableFacts
  <2>4. Serves(K, filled, short, v, a)
    BY <1>4, <2>3, ListedServes
  <2> QED
    BY <2>1, <2>2, <2>3, <2>4 DEF Serves
<1> HIDE DEF short
<1>8. ASSUME host = None, exact # None PROVE found \in A
  <2>1. CASE short = None
    <3>1. found = [dir |-> filled, number |-> exact] /\ exact \in 1..Count(filled)
      BY <1>1, <1>2, <1>4, <1>6, <1>8, <2>1
    <3> QED
      BY <1>4, <1>8, <3>1, AnswersMember
  <2>2. CASE short # None
    <3> DEFINE e == merge(filled, short, exact)
    <3>1. exact \in Valid(filled) /\ exact \in 1..Count(d)
      <4>1. filled \in Directories
        BY <1>4 DEF Sorted
      <4> QED
        BY <1>1, <1>4, <1>6, <1>7, <1>8, <2>2, <4>1, UsableIsValid
    <3>2. e \in Merges(K, filled) /\ Serves(K, e, exact, u, a)
      BY <1>4, <1>7, <1>8, <2>2, <3>1, MergedServes
    <3>3. found = [dir |-> e, number |-> exact]
      BY <1>2, <1>8, <2>2
    <3> HIDE DEF e
    <3>4. e \in Later(K, filled) /\ Count(e) = Count(filled)
      BY <3>2 DEF Merges, Count
    <3>5. e \in Later(K, d)
      BY <1>1, <1>4, <3>4, LaterTransitive
    <3>6. exact \in 1..Count(e)
      BY <1>6, <3>1, <3>4
    <3> QED
      BY <3>2, <3>3, <3>5, <3>6, AnswersMember
  <2> QED
    BY <2>1, <2>2
<1>9. ASSUME host = None, exact = None, short # None PROVE found \in A
  <2>1. short \in 1..Count(d) /\ Serves(K, d, short, u, a)
    BY <1>1, <1>5, <1>7, <1>9
  <2> QED
    BY <1>1, <1>2, <1>9, <2>1, AnswersMember
<1>10. ASSUME host = None, exact = None, short = None, any # None PROVE found \in A
  <2>1. found = [dir |-> d, number |-> any]
    BY <1>2, <1>10
  <2>2. any \in Valid(d) \cap ToSet(Wrapper(d, u)) /\ Suits(d, any, a)
    BY <1>10, SuitableFacts
  <2> HIDE DEF any
  <2>3. Serves(K, d, any, u, a)
    BY <2>2, ListedServes
  <2> QED
    BY <1>1, <2>1, <2>2, <2>3, AnswersMember
<1>11. ASSUME host = None, exact = None, short = None, any = None PROVE found \in A
  <2> DEFINE e == Create(d, u, a)
             n == Count(d) + 1
  <2>1. /\ e \in Later(K, d) /\ e.numbers[n] = u /\ n \in 1..Count(e)
        /\ Private(e, n).account = a
    BY <1>1, CreateSorted DEF Asked
  <2>2. found = [dir |-> e, number |-> n]
    BY <1>2, <1>11
  <2> HIDE DEF e, n
  <2>3. Serves(K, e, n, u, a)
    BY <2>1 DEF Serves
  <2> QED
    BY <2>1, <2>2, <2>3, AnswersMember
<1> HIDE DEF any, A
<1> QED
  BY <1>3, <1>8, <1>9, <1>10, <1>11 DEF found, A

-----------------------------------------------------------------------------
(* A name is found.                                                        *)

LEMMA NamedSorted ==
  ASSUME NEW K, Classes(K), NEW d \in Sorted(K), NEW x \in User, NameOf[x] # None,
         NEW a \in RingAccount \cup {None}, NEW address, address = [user |-> x, host |-> None],
         NEW name, name = [user |-> NameOf[x], host |-> None],
         NEW n \in Valid(d) \cap ToSet(Wrapper(d, address))
  PROVE  /\ Named(d, n, name, a) \in Later(K, d) /\ Named(d, n, name, a).numbers = d.numbers
         /\ Named(d, n, name, a).data = d.data
<1> DEFINE given == IF Private(d, n).account = None THEN Given(d, n, a) ELSE d
           q     == Private(given, n)
           p     == [q EXCEPT !.registeredName =
                       IF q.registeredName = None THEN NameOf[x] ELSE q.registeredName]
           known == Revised(given, n, p)
           e     == Named(d, n, name, a)
<1>1. /\ d \in Directories /\ a \in Account \cup {None} /\ address \in URI /\ name \in URI
      /\ address.host = None /\ name.host = None /\ name.user = NameOf[x]
      /\ d.numbers[n] \in URI /\ n \in 1..Count(d)
  <2>1. NameOf[x] \in User /\ RingAccount \subseteq Account
    BY DirectoryConstants
  <2>2. d \in Directories
    BY DEF Sorted
  <2> QED
    BY <2>1, <2>2, ValidFacts DEF URI
<1>2. /\ given \in Later(K, d) /\ given \in Sorted(K) /\ given.numbers = d.numbers
      /\ given.data = d.data /\ given.directory = d.directory
  <2>1. CASE Private(d, n).account = None
    <3>1. a # None => <<d.numbers[n], a>> \in K.P
      <4>1. Fits(K, d.numbers[n], Private(d, n), address)
        BY SortedFacts
      <4>2. d.numbers[n].host = None
        BY <1>1, <2>1, <4>1 DEF Fits
      <4> QED
        BY <1>1, <4>2 DEF Classes
    <3>2. /\ Given(d, n, a) \in Later(K, d)
          /\ Given(d, n, a).numbers = d.numbers /\ Given(d, n, a).data = d.data
          /\ Given(d, n, a).directory = d.directory
      BY <1>1, <2>1, <3>1, GivenSorted
    <3> QED
      BY <2>1, <3>2 DEF Later
  <2>2. CASE Private(d, n).account # None
    BY <2>2, LaterReflexive
  <2> QED
    BY <2>1, <2>2
<1>3. e = IF ~Suits(given, n, a) THEN given
          ELSE IF name \in DOMAIN d.directory THEN known ELSE Listed(known, name, n)
  <2> DEFINE knownAs == [given EXCEPT !.private[d.data[n]].registeredName =
                           IF @ = None THEN name.user ELSE @]
  <2>1. e = IF ~Suits(given, n, a) THEN given
            ELSE IF name \in DOMAIN d.directory THEN knownAs ELSE Listed(knownAs, name, n)
    BY DEF Named, Given
  <2> HIDE DEF given
  <2>2. knownAs = [given EXCEPT !.private[given.data[n]] =
                     [given.private[given.data[n]] EXCEPT !.registeredName =
                        IF given.private[given.data[n]].registeredName = None
                          THEN NameOf[x] ELSE given.private[given.data[n]].registeredName]]
    BY <1>1, <1>2
  <2>3. knownAs = known
    BY <2>2 DEF Revised, Private
  <2> QED
    BY <2>1, <2>3
<1> HIDE DEF e, given
<1>4. /\ Count(given) = Count(d) /\ Valid(given) = Valid(d) /\ n \in Valid(given)
      /\ given \in Directories
      /\ \A u : Wrapper(given, u) = Wrapper(d, u)
  BY <1>2 DEF Count, Valid, Wrapper, Sorted
<1>5. /\ Consistent(K, n, d.numbers[n], given.data[n], q) /\ q \in Data
      /\ Fits(K, d.numbers[n], q, address)
  <2>1. Consistent(K, n, given.numbers[n], given.data[n], q)
        /\ Fits(K, given.numbers[n], q, address)
    BY <1>2, <1>4, SortedFacts
  <2>2. q \in Data
    BY <1>4, ValidFacts
  <2> QED
    BY <1>2, <2>1, <2>2
<1> HIDE DEF q
<1>6. /\ p \in Data /\ p.uri = q.uri /\ p.account = q.account
      /\ p.registeredName = IF q.registeredName = None THEN NameOf[x] ELSE q.registeredName
  <2>1. NameOf[x] \in User
    BY DirectoryConstants
  <2> QED
    BY <1>5, <2>1 DEF Data
<1> HIDE DEF p
<1>7. /\ K.C[<<d.numbers[n], q.account>>] = K.C[<<address, q.account>>]
      /\ q.account \in Account \cup {None}
  BY <1>5 DEF Data, Fits, Prospects
<1>8. p.registeredName # None => <<p.registeredName, K.C[<<p.uri, p.account>>]>> \in K.N
  <2>1. K.C[<<q.uri, q.account>>] = K.C[<<address, q.account>>]
    BY <1>5, <1>7 DEF Consistent
  <2>2. <<NameOf[x], K.C[<<address, q.account>>]>> \in K.N
    BY <1>7 DEF Classes
  <2>3. q.registeredName # None => <<q.registeredName, K.C[<<q.uri, q.account>>]>> \in K.N
    BY <1>5 DEF Consistent
  <2> QED
    BY <1>6, <2>1, <2>2, <2>3
<1>9. /\ known \in Later(K, given) /\ known.numbers = given.numbers
      /\ known.data = given.data /\ known.directory = given.directory
      /\ Private(known, n) = p
  <2>1. Keeps(K, q, p)
    BY <1>6 DEF Keeps
  <2> QED
    BY <1>2, <1>4, <1>6, <1>8, <2>1, RevisedSorted DEF q
<1> HIDE DEF known
<1>10. known \in Sorted(K) /\ known \in Later(K, d) /\ Count(known) = Count(d)
  BY <1>1, <1>2, <1>9, LaterTransitive DEF Later, Count
<1>11. Fits(K, d.numbers[n], p, name)
  <2>1. ASSUME NEW b \in Prospects(K, d.numbers[n], q)
        PROVE  K.C[<<d.numbers[n], b>>] = K.C[<<name, b>>]
    <3>1. /\ b \in Account \cup {None}
          /\ b = None \/ <<d.numbers[n], b>> \in K.P
          /\ K.C[<<d.numbers[n], b>>] = K.C[<<address, b>>]
      BY <1>5, <1>7 DEF Prospects, Consistent, Fits
    <3>2. \A u \in URI :
            (b = None \/ <<u, b>> \in K.P) /\ K.C[<<u, b>>] = K.C[<<address, b>>] =>
              K.C[<<name, b>>] = K.C[<<u, b>>]
      BY <3>1 DEF Classes
    <3> QED
      BY <1>1, <3>1, <3>2
  <2>2. p.account = None /\ name.host = None => d.numbers[n].host = None
    BY <1>1, <1>5, <1>6 DEF Fits
  <2> QED
    BY <1>6, <2>1, <2>2 DEF Fits, Prospects
<1>12. /\ Listed(known, name, n) \in Later(K, known)
       /\ Listed(known, name, n).numbers = known.numbers
       /\ Listed(known, name, n).data = known.data
  BY <1>1, <1>2, <1>9, <1>10, <1>11, ListedSorted
<1>13. Listed(known, name, n) \in Later(K, d)
  BY <1>1, <1>10, <1>12, LaterTransitive
<1> QED
  BY <1>2, <1>3, <1>9, <1>10, <1>12, <1>13 DEF e

\* The directories where only what the objects keep and the lists have grown.
Revisions(K, d) == {e \in Later(K, d) : e.numbers = d.numbers /\ e.data = d.data}

LEMMA AllNamedRevise ==
  ASSUME NEW K, NEW d, d \in Revisions(K, d), NEW name, NEW a, NEW S, NEW s \in Seq(S),
         \A e \in Revisions(K, d), k \in S : Named(e, k, name, a) \in Revisions(K, d)
  PROVE  AllNamed(d, name, a, s) \in Revisions(K, d)
<1> DEFINE U == Revisions(K, d)
<1>1. d \in U /\ \A e \in U, k \in S : Named(e, k, name, a) \in U
  OBVIOUS
<1> HIDE DEF U
<1>2. AllNamed(d, name, a, s) \in U
  BY <1>1, AllNamedReaches
<1> QED
  BY <1>2 DEF U

LEMMA AllNamedSorted ==
  ASSUME NEW K, Classes(K), NEW d \in Sorted(K), Usable(d), NEW x \in User, NameOf[x] # None,
         NEW a \in RingAccount \cup {None}, NEW address \in {[user |-> x, host |-> None]},
         NEW name \in {[user |-> NameOf[x], host |-> None]}
  PROVE  /\ AllNamed(d, name, a, Wrapper(d, address)) \in Later(K, d)
         /\ AllNamed(d, name, a, Wrapper(d, address)).numbers = d.numbers
         /\ Usable(AllNamed(d, name, a, Wrapper(d, address)))
<1> DEFINE U == Revisions(K, d)
           s == Wrapper(d, address)
           S == ToSet(s)
<1>1. d \in Directories /\ Valid(d) = 1..Count(d) /\ address \in URI
  <2>1. d \in Directories
    BY DEF Sorted
  <2> QED
    BY <2>1, UsableIsValid DEF URI
<1>2. S \subseteq 1..Count(d) /\ s \in Seq(S)
  BY <1>1, ListFacts, SequenceOfItsSet
<1>3. d \in U
  BY LaterReflexive DEF Revisions
<1>4. ASSUME NEW e \in U, NEW k \in S PROVE Named(e, k, name, a) \in U
  <2>1. /\ e \in Sorted(K) /\ e \in Later(K, d) /\ e.numbers = d.numbers /\ e.data = d.data
        /\ k \in Valid(d) /\ k \in ToSet(Wrapper(e, address))
    BY <1>1, <1>2 DEF Revisions, Later
  <2>2. k \in Valid(e)
    BY <2>1 DEF Valid, Count
  <2>3. /\ Named(e, k, name, a) \in Later(K, e) /\ Named(e, k, name, a).numbers = e.numbers
        /\ Named(e, k, name, a).data = e.data
    BY <2>1, <2>2, NamedSorted
  <2>4. Named(e, k, name, a) \in Later(K, d)
    BY <1>1, <2>1, <2>3, LaterTransitive
  <2> QED
    BY <2>1, <2>3, <2>4 DEF Revisions
<1> HIDE DEF U, s, S
<1>5. \A e \in U, k \in S : Named(e, k, name, a) \in U
  BY <1>4
<1>6. AllNamed(d, name, a, s) \in U
  BY <1>2, <1>3, <1>5, AllNamedRevise DEF U
<1> QED
  BY <1>6 DEF U, s, Revisions, Usable

\* An object that is listed for u is merged into one that serves u.
LEMMA MergedIntoSame ==
  ASSUME NEW K, NEW d \in Sorted(K), NEW o \in 1..Count(d), NEW u \in URI, NEW a,
         Serves(K, d, o, u, a), NEW e \in Merges(K, d), NEW k \in ToSet(Wrapper(d, u)),
         Usable(e), SameAccount(e, k, o)
  PROVE  LET b == Private(e, o).account
         IN  /\ k \in 1..Count(d) /\ b # None /\ Private(e, k).account = b
             /\ K.C[<<e.numbers[k], b>>] = K.C[<<e.numbers[o], b>>]
             /\ merge(e, k, o) \in Merges(K, d)
<1> DEFINE b == Private(e, o).account
<1>1. /\ e \in Sorted(K) /\ e.numbers = d.numbers
      /\ \A m \in Valid(e) : Private(e, m).account = Private(d, m).account
      /\ Valid(e) = 1..Count(d) /\ Valid(d) = 1..Count(d)
  BY MergesFacts
<1>2. k \in 1..Count(d)
  BY ListFacts DEF Sorted
<1>3. /\ k \in Valid(e) /\ o \in Valid(e) /\ k \in Valid(d) /\ o \in Valid(d)
      /\ b # None /\ Private(e, k).account = b
      /\ Private(d, k).account = b /\ Private(d, o).account = b
  BY <1>1, <1>2 DEF SameAccount
<1> HIDE DEF b
<1>4. K.C[<<d.numbers[k], b>>] = K.C[<<u, b>>]
  <2>1. Fits(K, d.numbers[k], Private(d, k), u)
    BY <1>3, SortedFacts
  <2> QED
    BY <1>3, <2>1 DEF Fits, Prospects
<1>5. K.C[<<d.numbers[o], b>>] = K.C[<<u, b>>]
  BY <1>3 DEF Serves
<1>6. K.C[<<e.numbers[k], b>>] = K.C[<<e.numbers[o], b>>]
  BY <1>1, <1>4, <1>5
<1>7. merge(e, k, o) \in Merges(K, e)
  BY <1>1, <1>3, <1>6, MergeSorted DEF b
<1>8. merge(e, k, o) \in Merges(K, d)
  BY <1>7, MergesTransitive
<1> QED
  BY <1>2, <1>3, <1>6, <1>8 DEF b

LEMMA MergedIntoListed ==
  ASSUME NEW K, NEW d \in Sorted(K), NEW o \in 1..Count(d), NEW u \in URI, NEW a,
         Serves(K, d, o, u, a)
  PROVE  AllMergedInto(d, o, Wrapper(d, u)) \in Merges(K, d)
<1> DEFINE U == Merges(K, d)
           s == Wrapper(d, u)
           S == ToSet(s)
<1>1. d \in Directories
  BY DEF Sorted
<1>2. S \subseteq 1..Count(d) /\ s \in Seq(S)
  BY <1>1, ListFacts, SequenceOfItsSet
<1>3. d \in U /\ \A e \in U, k \in S : MergedInto(e, k, o) \in U
  BY MergedIntoSame, MergesReflexive DEF MergedInto
<1> HIDE DEF U, s, S
<1>4. s \in Seq(S)
  BY <1>2
<1>5. AllMergedInto(d, o, s) \in U
  BY <1>3, <1>4, AllMergedIntoReaches
<1> QED
  BY <1>5 DEF U, s

\* What the two loops of slotRegisteredNameFound() leave, and the object between them.
LEMMA NameFoundFacts ==
  ASSUME NEW K, Classes(K), dir \in Sorted(K), Usable(dir), NEW x \in User,
         NEW a \in RingAccount \cup {None}, slotRegisteredNameFound(x, a)
  PROVE  LET address == [user |-> x, host |-> None]
             name    == [user |-> NameOf[x], host |-> None]
             named   == AllNamed(dir, name, a, Wrapper(dir, address))
         IN  /\ NameOf[x] # None /\ named \in Later(K, dir) /\ Usable(named)
             /\ address \in URI /\ name \in URI /\ Asked(K, address, a)
             /\ \E e \in Later(K, named), o \in Nat :
                  /\ \/ e = getNumber(named, address, a).dir
                        /\ o = getNumber(named, address, a).number
                     \/ e = named /\ o \in ToSet(Wrapper(named, address))
                  /\ o \in 1..Count(e) /\ Serves(K, e, o, name, a)
                  /\ dir' \in {named, AllMergedInto(e, o, Wrapper(e, name))}
<1> DEFINE address == [user |-> x, host |-> None]
           name    == [user |-> NameOf[x], host |-> None]
           named   == AllNamed(dir, name, a, Wrapper(dir, address))
           own     == LastOf(Wrapper(dir, address), Suitable(named, a))
           found   == IF own = None THEN getNumber(named, address, a)
                      ELSE [dir |-> named, number |-> own]
           merged  == AllMergedInto(found.dir, found.number, Wrapper(found.dir, name))
<1>1. /\ NameOf[x] # None
      /\ dir' = IF name \in DOMAIN named.directory THEN merged ELSE named
  BY DEF slotRegisteredNameFound, AllNamed, AllMergedInto
<1>2. /\ address \in URI /\ name \in URI /\ a \in Account \cup {None} /\ dir \in Directories
      /\ address.host = None
  BY <1>1, DirectoryConstants DEF URI, Sorted
<1>3. /\ named \in Later(K, dir) /\ named \in Sorted(K) /\ named.numbers = dir.numbers
      /\ Usable(named)
  <2>1. /\ named \in Later(K, dir) /\ named.numbers = dir.numbers /\ Usable(named)
    BY <1>1, AllNamedSorted
  <2> QED
    BY <2>1 DEF Later
<1>4. Asked(K, address, a)
  BY <1>2 DEF Asked, Classes
<1> HIDE DEF named, merged
<1>5. /\ found \in Answers(K, named, address, a)
      /\ \/ found = getNumber(named, address, a)
         \/ found.dir = named /\ found.number \in ToSet(Wrapper(named, address))
  <2>1. CASE own = None
    BY <1>3, <1>4, <2>1, GetNumberSorted
  <2>2. CASE own # None
    <3>1. /\ own \in 1..Count(dir) /\ own \in ToSet(Wrapper(dir, address))
          /\ own \in Suitable(named, a)
      <4>1. Wrapper(dir, address) \in Seq(1..Count(dir)) /\ Count(dir) \in Nat
        BY <1>2, ListFacts, DirectoryFacts
      <4> QED
        BY <2>2, <4>1, FirstFound
    <3> HIDE DEF own
    <3>2. named \in Directories /\ Valid(named) = 1..Count(named) /\ Count(named) = Count(dir)
      <4>1. named \in Directories /\ Count(named) = Count(dir)
        BY <1>3 DEF Sorted, Count
      <4> QED
        BY <1>3, <4>1, UsableIsValid
    <3>3. own \in Valid(named) \cap ToSet(Wrapper(named, address)) /\ Suits(named, own, a)
      BY <1>2, <1>3, <3>1, <3>2 DEF Later, Suitable
    <3>4. Serves(K, named, own, address, a)
      BY <1>3, <3>3, ListedServes
    <3>5. found \in Answers(K, named, address, a)
      BY <1>3, <2>2, <3>1, <3>2, <3>4, LaterReflexive, AnswersMember
    <3> QED
      BY <2>2, <3>3, <3>5
  <2> QED
    BY <2>1, <2>2
<1> HIDE DEF own, found
<1>6. /\ found.dir \in Later(K, named) /\ found.dir \in Sorted(K)
      /\ found.number \in 1..Count(found.dir)
      /\ Serves(K, found.dir, found.number, address, a)
  BY <1>5 DEF Answers, Later
<1> DEFINE e == found.dir
           o == found.number
<1>7. Serves(K, e, o, name, a)
  <2> SUFFICES ASSUME o \in Valid(e), Private(e, o).account # None
               PROVE  K.C[<<e.numbers[o], Private(e, o).account>>]
                        = K.C[<<name, Private(e, o).account>>]
    BY <1>6 DEF Serves
  <2> DEFINE b == Private(e, o).account
             q == e.numbers[o]
  <2>1. /\ <<q, b>> \in K.P /\ K.C[<<q, b>>] = K.C[<<address, b>>]
        /\ q \in URI /\ b \in Account \cup {None}
    <3>1. Consistent(K, o, q, e.data[o], Private(e, o))
      BY <1>6, SortedFacts
    <3>2. q \in URI /\ Private(e, o) \in Data
      BY <1>6, ValidFacts DEF Sorted
    <3> QED
      BY <1>6, <3>1, <3>2 DEF Consistent, Serves, Data
  <2> HIDE DEF b, q
  <2>2. K.C[<<name, b>>] = K.C[<<q, b>>]
    BY <1>1, <2>1 DEF Classes
  <2> QED
    BY <2>2 DEF b, q
<1>8. dir' \in {named, AllMergedInto(e, o, Wrapper(e, name))}
  BY <1>1 DEF merged
<1>9. o \in Nat
  BY <1>5 DEF Answers
<1> HIDE DEF e, o, address, name
<1>10. \/ e = getNumber(named, address, a).dir /\ o = getNumber(named, address, a).number
       \/ e = named /\ o \in ToSet(Wrapper(named, address))
  BY <1>5 DEF e, o
<1>11. e \in Later(K, named) /\ o \in 1..Count(e)
  BY <1>6 DEF e, o
<1> QED
  BY <1>1, <1>2, <1>3, <1>4, <1>7, <1>8, <1>9, <1>10, <1>11 DEF named, address, name

LEMMA NameFoundSorted ==
  ASSUME NEW K, Classes(K), dir \in Sorted(K), Usable(dir), NEW x \in User,
         NEW a \in RingAccount \cup {None}, slotRegisteredNameFound(x, a)
  PROVE  dir' \in Later(K, dir)
<1> DEFINE address == [user |-> x, host |-> None]
           name    == [user |-> NameOf[x], host |-> None]
           named   == AllNamed(dir, name, a, Wrapper(dir, address))
<1>1. name \in URI /\ named \in Later(K, dir)
  BY NameFoundFacts
<1>2. \E e \in Later(K, named), o \in Nat :
        /\ o \in 1..Count(e) /\ Serves(K, e, o, name, a)
        /\ dir' \in {named, AllMergedInto(e, o, Wrapper(e, name))}
  BY NameFoundFacts
<1> HIDE DEF address, name, named
<1>3. PICK e \in Later(K, named), o \in Nat :
        /\ o \in 1..Count(e) /\ Serves(K, e, o, name, a)
        /\ dir' \in {named, AllMergedInto(e, o, Wrapper(e, name))}
  BY <1>2
<1>4. e \in Sorted(K) /\ e \in Later(K, dir) /\ dir \in Directories
  BY <1>1, LaterTransitive DEF Later, Sorted
<1>5. AllMergedInto(e, o, Wrapper(e, name)) \in Merges(K, e)
  BY <1>1, <1>3, <1>4, MergedIntoListed
<1>6. AllMergedInto(e, o, Wrapper(e, name)) \in Later(K, dir)
  BY <1>4, <1>5, LaterTransitive DEF Merges
<1> QED
  BY <1>1, <1>3, <1>6

-----------------------------------------------------------------------------
(* The steps.                                                              *)

RequestsAsked(K) == \A r \in Request : Asked(K, r[1], r[2])

LEMMA InitSorted ==
  ASSUME NEW K, Init
  PROVE  dir \in Sorted(K) /\ Len(dir.numbers) = 0
<1> DEFINE z == <<>>
<1>1. /\ z \in Seq(URI) /\ z \in Seq(Nat) /\ z \in Seq(Data) /\ Len(z) = 0
      /\ {} \in SUBSET URI /\ 1..0 = {}
  OBVIOUS
<1>2. z \in [{} -> Seq(1..Len(z)) \ {<<>>}]
  OBVIOUS
<1>3. dir = [numbers |-> z, data |-> z, private |-> z, directory |-> z]
  BY DEF Init
<1> HIDE DEF z
<1>3a. dir \in Directories
  BY <1>1, <1>2, <1>3, DirectoryMember
<1>4. Valid(dir) = {} /\ Len(dir.numbers) = 0
  BY DEF Init, Valid, Count
<1> QED
  BY <1>3a, <1>4 DEF Sorted

LEMMA NextSorted ==
  ASSUME NEW K, Classes(K), RequestsAsked(K), dir \in Sorted(K), [Next]_dir
  PROVE  dir' \in Later(K, dir) /\ (Next => Len(dir'.numbers) <= MaxNumbers)
<1>1. CASE UNCHANGED dir /\ ~Next
  BY <1>1, LaterReflexive
<1>2. ASSUME NEW r \in Request, Usable(dir), GetNumber(r[1], r[2])
      PROVE  dir' \in Later(K, dir) /\ Len(dir'.numbers) <= MaxNumbers
  <2>1. Asked(K, r[1], r[2])
    BY DEF RequestsAsked
  <2>2. getNumber(dir, r[1], r[2]) \in Answers(K, dir, r[1], r[2])
    BY <1>2, <2>1, GetNumberSorted
  <2> QED
    BY <1>2, <2>2 DEF GetNumber, Answers
<1>3. ASSUME NEW x \in User, NEW a \in RingAccount \cup {None}, Usable(dir),
             slotRegisteredNameFound(x, a)
      PROVE  dir' \in Later(K, dir) /\ Len(dir'.numbers) <= MaxNumbers
  <2>1. dir' \in Later(K, dir)
    BY <1>3, NameFoundSorted
  <2>2. Len(dir'.numbers) <= MaxNumbers
    BY <1>3 DEF slotRegisteredNameFound
  <2> QED
    BY <2>1, <2>2
<1> QED
  BY <1>1, <1>2, <1>3 DEF Next

-----------------------------------------------------------------------------
(* Types and accounts, for any names and requests: one class for all.      *)

Anything == [C |-> [q \in URI \X (Account \cup {None}) |-> None],
             P |-> URI \X Account,
             N |-> User \X {None}]

LEMMA AnythingClasses == Classes(Anything) /\ RequestsAsked(Anything)
<1> DEFINE K == Anything
<1>1. /\ K.C = [q \in URI \X (Account \cup {None}) |-> None] /\ K.P = URI \X Account
      /\ K.N = User \X {None}
  BY DEF Anything
<1> HIDE DEF K
<1>2. \A u \in URI, a \in Account \cup {None} : K.C[<<u, a>>] = None
  BY <1>1
<1>3. RingAccount \subseteq Account /\ \A x \in User : NameOf[x] \in User \cup {None}
  BY DirectoryConstants
<1>4. \A u \in URI : UserInfo(u) \in URI /\ \A a \in Account : Extended(u, a) \in URI
  BY UserInfoFacts, ExtendedFacts
<1>5. \A x \in User : [user |-> x, host |-> None] \in URI
  BY DEF URI
<1>6. Classes(K)
  <2>1. ASSUME NEW u \in URI, NEW a \in Account
        PROVE  /\ u.host = None => K.C[<<Extended(u, a), a>>] = K.C[<<u, a>>]
               /\ <<u, a>> \in K.P =>
                    /\ K.C[<<UserInfo(u), a>>] = K.C[<<u, a>>]
                    /\ <<Extended(u, a), a>> \in K.P
                    /\ \A p \in User :
                         <<p, K.C[<<u, None>>]>> \in K.N => <<p, K.C[<<u, a>>]>> \in K.N
    BY <1>1, <1>2, <1>4
  <2>2. ASSUME NEW u \in URI, NEW a \in RingAccount, u.host = None PROVE <<u, a>> \in K.P
    BY <1>1, <1>3
  <2>3. ASSUME NEW x \in User, NEW b \in Account \cup {None}, NameOf[x] # None
        PROVE  /\ <<NameOf[x], K.C[<<[user |-> x, host |-> None], b>>]>> \in K.N
               /\ \A u \in URI :
                    (b = None \/ <<u, b>> \in K.P)
                    /\ K.C[<<u, b>>] = K.C[<<[user |-> x, host |-> None], b>>] =>
                         K.C[<<[user |-> NameOf[x], host |-> None], b>>] = K.C[<<u, b>>]
    <3>1. NameOf[x] \in User
      BY <1>3, <2>3
    <3> QED
      BY <1>1, <1>2, <1>5, <3>1
  <2> QED
    BY <2>1, <2>2, <2>3 DEF Classes
<1>7. RequestsAsked(K)
  <2>1. ASSUME NEW r \in Request PROVE Asked(K, r[1], r[2])
    <3>1. r[1] \in URI /\ r[2] \in Account \cup {None}
      BY DirectoryConstants
    <3> QED
      BY <1>1, <3>1 DEF Asked
  <2> QED
    BY <2>1 DEF RequestsAsked
<1> QED
  BY <1>6, <1>7 DEF K

SortedDirectory(K) == dir \in Sorted(K) /\ Len(dir.numbers) <= MaxNumbers

LEMMA InitInvariant ==
  ASSUME NEW K, Init
  PROVE  SortedDirectory(K)
<1>1. MaxNumbers >= 0
  BY DirectoryConstants
<1> QED
  BY <1>1, InitSorted DEF SortedDirectory

LEMMA NextInvariant ==
  ASSUME NEW K, Classes(K), RequestsAsked(K), SortedDirectory(K), [Next]_dir
  PROVE  SortedDirectory(K)' /\ dir' \in Later(K, dir)
<1>1. dir' \in Later(K, dir) /\ (Next => Len(dir'.numbers) <= MaxNumbers)
  BY NextSorted DEF SortedDirectory
<1>2. dir' \in Sorted(K)
  BY <1>1 DEF Later
<1>3. ~Next => Len(dir'.numbers) <= MaxNumbers
  BY DEF SortedDirectory
<1> QED
  BY <1>1, <1>2, <1>3 DEF SortedDirectory

LEMMA StillValid ==
  ASSUME NEW K, NEW d \in Directories, NEW e \in Later(K, d), NEW n \in DOMAIN d.numbers,
         e.data[n] # Deleted
  PROVE  n \in Valid(d) \cap Valid(e)
<1>1. e \in Directories
  BY DEF Later, Sorted
<1>2. /\ n \in 1..Count(d) /\ Count(d) \in Nat /\ Count(e) \in Nat /\ Count(d) <= Count(e)
  BY <1>1, DirectoryFacts DEF Later
<1>3. n \in Valid(e)
  BY <1>2 DEF Valid
<1> QED
  BY <1>2, <1>3 DEF Later

\* The directory keeps its types, however the objects are asked for, named and merged: an
\* object has the data that was made for one of the directory, or data that was deleted.
THEOREM TypeCorrect ==
  Spec => []TypeOK
<1>1. Init => SortedDirectory(Anything)
  BY InitInvariant
<1>2. SortedDirectory(Anything) /\ [Next]_dir => SortedDirectory(Anything)'
  BY NextInvariant, AnythingClasses
<1>3. SortedDirectory(Anything) => TypeOK
  <2> SUFFICES ASSUME SortedDirectory(Anything) PROVE TypeOK
    OBVIOUS
  <2>1. dir \in Directories /\ Len(dir.numbers) <= MaxNumbers
    BY DEF SortedDirectory, Sorted
  <2>2. /\ dir.numbers \in Seq(URI) /\ DOMAIN dir.numbers = 1..Count(dir) /\ Count(dir) \in Nat
        /\ dir.data \in Seq(Nat) /\ Len(dir.data) = Count(dir)
        /\ dir.private \in Seq(Data) /\ Len(dir.private) = Count(dir)
        /\ \A n \in 1..Count(dir) : dir.data[n] \in 0..Count(dir)
        /\ DOMAIN dir.directory \subseteq URI
        /\ \A u \in DOMAIN dir.directory :
             dir.directory[u] \in Seq(1..Count(dir)) /\ dir.directory[u] # <<>>
    BY <2>1, DirectoryFacts
  <2>3. dir.data \in [DOMAIN dir.numbers -> DOMAIN dir.numbers \cup {Deleted}]
    <3>1. 0..Count(dir) = 1..Count(dir) \cup {0}
      BY <2>2
    <3>2. dir.data \in [1..Count(dir) -> Nat]
      BY <2>2
    <3> QED
      BY <2>2, <3>1, <3>2 DEF Deleted
  <2>4. dir.private \in [DOMAIN dir.numbers -> [uri : URI, account : Account \cup {None},
                                                registeredName : User \cup {None}]]
    <3>1. dir.private \in [DOMAIN dir.numbers -> Data]
      BY <2>2
    <3> QED
      BY <3>1 DEF Data
  <2>5. ASSUME NEW u \in DOMAIN dir.directory
        PROVE  Len(dir.directory[u]) > 0 /\ Range(dir.directory[u]) \subseteq DOMAIN dir.numbers
    <3> DEFINE s == dir.directory[u]
               S == 1..Count(dir)
    <3>1. s \in Seq(S) /\ s # <<>>
      BY <2>2
    <3> HIDE DEF s, S
    <3>2. Len(s) > 0 /\ DOMAIN s = 1..Len(s) /\ \A k \in 1..Len(s) : s[k] \in S
      BY <3>1
    <3> QED
      BY <2>2, <3>2 DEF s, S, Range
  <2> QED
    BY <2>1, <2>2, <2>3, <2>4, <2>5 DEF TypeOK
<1> QED
  BY <1>1, <1>2, <1>3, PTL DEF Spec

\* Who has an account keeps it, whatever is asked for and whoever it is merged with.
THEOREM AccountIsKeptCorrect ==
  Spec => AccountIsKept
<1>1. Init => SortedDirectory(Anything)
  BY InitInvariant
<1>2. SortedDirectory(Anything) /\ [Next]_dir => SortedDirectory(Anything)'
  BY NextInvariant, AnythingClasses
<1>3. SortedDirectory(Anything) /\ [Next]_dir =>
        [ \A n \in DOMAIN dir.numbers :
            Private(dir, n).account # None /\ dir'.data[n] # Deleted =>
              Private(dir', n).account = Private(dir, n).account ]_dir
  <2> SUFFICES ASSUME SortedDirectory(Anything), [Next]_dir, NEW n \in DOMAIN dir.numbers,
                      Private(dir, n).account # None, dir'.data[n] # Deleted
               PROVE  Private(dir', n).account = Private(dir, n).account
    OBVIOUS
  <2>1. dir' \in Later(Anything, dir)
    BY NextInvariant, AnythingClasses
  <2>2. dir \in Directories
    BY DEF SortedDirectory, Sorted
  <2>3. n \in Valid(dir) \cap Valid(dir')
    BY <2>1, <2>2, StillValid
  <2> QED
    BY <2>1, <2>3 DEF Later, Keeps
<1> QED
  BY <1>1, <1>2, <1>3, PTL DEF Spec, AccountIsKept

-----------------------------------------------------------------------------
(* Names: a class for each.                                                *)

KnownAs(x) == IF NameOf[x] = None THEN x ELSE NameOf[x]

Names == [C |-> [q \in URI \X (Account \cup {None}) |-> KnownAs(q[1].user)],
          P |-> URI \X Account,
          N |-> {<<x, x>> : x \in User}]

LEMMA NamesClasses ==
  ASSUME PlainNames
  PROVE  Classes(Names) /\ RequestsAsked(Names) /\ Single(Names)
<1> DEFINE K == Names
<1>1. /\ K.C = [q \in URI \X (Account \cup {None}) |-> KnownAs(q[1].user)]
      /\ K.P = URI \X Account /\ K.N = {<<x, x>> : x \in User}
  BY DEF Names
<1> HIDE DEF K
<1>2. \A u \in URI, a \in Account \cup {None} : K.C[<<u, a>>] = KnownAs(u.user)
  BY <1>1
<1>3. RingAccount \subseteq Account /\ \A x \in User : NameOf[x] \in User \cup {None}
  BY DirectoryConstants
<1>4. \A u \in URI : /\ UserInfo(u) \in URI /\ UserInfo(u).user = u.user
                     /\ \A a \in Account : Extended(u, a) \in URI /\ Extended(u, a).user = u.user
  BY UserInfoFacts, ExtendedFacts
<1>5. \A x \in User : [user |-> x, host |-> None] \in URI
  BY DEF URI
<1>6. \A x \in User : KnownAs(x) \in User /\ (NameOf[x] # None => KnownAs(NameOf[x]) = NameOf[x])
  BY <1>3 DEF PlainNames, KnownAs
<1>7. Classes(K)
  <2>1. ASSUME NEW u \in URI, NEW a \in Account
        PROVE  /\ u.host = None => K.C[<<Extended(u, a), a>>] = K.C[<<u, a>>]
               /\ <<u, a>> \in K.P =>
                    /\ K.C[<<UserInfo(u), a>>] = K.C[<<u, a>>]
                    /\ <<Extended(u, a), a>> \in K.P
                    /\ \A p \in User :
                         <<p, K.C[<<u, None>>]>> \in K.N => <<p, K.C[<<u, a>>]>> \in K.N
    BY <1>1, <1>2, <1>4
  <2>2. ASSUME NEW u \in URI, NEW a \in RingAccount, u.host = None PROVE <<u, a>> \in K.P
    BY <1>1, <1>3
  <2>3. ASSUME NEW x \in User, NEW b \in Account \cup {None}, NameOf[x] # None
        PROVE  /\ <<NameOf[x], K.C[<<[user |-> x, host |-> None], b>>]>> \in K.N
               /\ \A u \in URI :
                    (b = None \/ <<u, b>> \in K.P)
                    /\ K.C[<<u, b>>] = K.C[<<[user |-> x, host |-> None], b>>] =>
                         K.C[<<[user |-> NameOf[x], host |-> None], b>>] = K.C[<<u, b>>]
    <3>1. NameOf[x] \in User /\ KnownAs(x) = NameOf[x] /\ KnownAs(NameOf[x]) = NameOf[x]
      BY <1>3, <1>6, <2>3 DEF KnownAs
    <3>2. /\ K.C[<<[user |-> x, host |-> None], b>>] = NameOf[x]
          /\ K.C[<<[user |-> NameOf[x], host |-> None], b>>] = NameOf[x]
      BY <1>2, <1>5, <3>1
    <3>3. <<NameOf[x], NameOf[x]>> \in K.N
      BY <1>1, <3>1
    <3> QED
      BY <3>2, <3>3
  <2> QED
    BY <2>1, <2>2, <2>3 DEF Classes
<1>8. RequestsAsked(K)
  <2>1. ASSUME NEW r \in Request PROVE Asked(K, r[1], r[2])
    <3>1. r[1] \in URI /\ r[2] \in Account \cup {None}
      BY DirectoryConstants
    <3> QED
      BY <1>1, <3>1 DEF Asked
  <2> QED
    BY <2>1 DEF RequestsAsked
<1>9. Single(K)
  <2>1. \A p, c : <<p, c>> \in K.N => p = c
    BY <1>1
  <2> QED
    BY <2>1 DEF Single
<1> QED
  BY <1>7, <1>8, <1>9 DEF K

\* Nor does an object lose its registered name, when no name is itself an identifier that
\* has a name: two objects that are merged have the same name, if both have one.
THEOREM NameIsKeptCorrect ==
  ASSUME PlainNames
  PROVE  Spec => NameIsKept
<1>1. Init => SortedDirectory(Names)
  BY InitInvariant
<1>2. SortedDirectory(Names) /\ [Next]_dir => SortedDirectory(Names)'
  BY NextInvariant, NamesClasses
<1>3. SortedDirectory(Names) /\ [Next]_dir =>
        [ \A n \in DOMAIN dir.numbers :
            Private(dir, n).registeredName # None /\ dir'.data[n] # Deleted =>
              Private(dir', n).registeredName = Private(dir, n).registeredName ]_dir
  <2> SUFFICES ASSUME SortedDirectory(Names), [Next]_dir, NEW n \in DOMAIN dir.numbers,
                      Private(dir, n).registeredName # None, dir'.data[n] # Deleted
               PROVE  Private(dir', n).registeredName = Private(dir, n).registeredName
    OBVIOUS
  <2>1. dir' \in Later(Names, dir)
    BY NextInvariant, NamesClasses
  <2>2. dir \in Directories
    BY DEF SortedDirectory, Sorted
  <2>3. n \in Valid(dir) \cap Valid(dir')
    BY <2>1, <2>2, StillValid
  <2> QED
    BY <2>1, <2>3, NamesClasses DEF Later, Keeps
<1> QED
  BY <1>1, <1>2, <1>3, PTL DEF Spec, NameIsKept

-----------------------------------------------------------------------------
(* Destinations: a class for each.                                         *)

Destinations ==
  [C |-> [q \in URI \X (Account \cup {None}) |->
            IF q[2] = None THEN None ELSE Destination(q[1], q[2])],
   P |-> {q \in URI \X Account :
            /\ q[1].host \in {None, HostOf[q[2]]}
            /\ q[2] \in RingAccount \/ NameOf[q[1].user] = None},
   N |-> User \X (URI \cup {None})]

\* Whom a user part stands for.
LEMMA PersonFacts ==
  ASSUME PlainNames, UniqueNames, NEW x \in User, NEW a
  PROVE  /\ Person(x, a) \in User
         /\ a \notin RingAccount => Person(x, a) = x
         /\ NameOf[x] # None => Person(x, a) = x
         /\ NameOf[x] # None /\ a \in RingAccount => Person(NameOf[x], a) = x
<1>1. \A y \in User : NameOf[y] \in User \cup {None}
  BY DirectoryConstants
<1>2. CASE a \notin RingAccount
  BY <1>2 DEF Person
<1>3. CASE a \in RingAccount
  <2>1. Person(x, a) \in User
    <3>1. (\E y \in User : NameOf[y] = x) => (CHOOSE y \in User : NameOf[y] = x) \in User
      OBVIOUS
    <3> QED
      BY <3>1 DEF Person
  <2>2. NameOf[x] # None => Person(x, a) = x
    <3>1. NameOf[x] # None => ~ \E y \in User : NameOf[y] = x
      BY DirectoryConstants DEF PlainNames
    <3> QED
      BY <3>1 DEF Person
  <2>3. ASSUME NameOf[x] # None PROVE Person(NameOf[x], a) = x
    <3> DEFINE y == CHOOSE z \in User : NameOf[z] = NameOf[x]
    <3>1. \E z \in User : NameOf[z] = NameOf[x]
      OBVIOUS
    <3>2. y \in User /\ NameOf[y] = NameOf[x]
      BY <3>1
    <3>3. Person(NameOf[x], a) = y
      BY <1>3, <3>1 DEF Person
    <3> HIDE DEF y
    <3>4. y = x
      BY <2>3, <3>2 DEF UniqueNames
    <3> QED
      BY <3>3, <3>4
  <2> QED
    BY <1>3, <2>1, <2>2, <2>3
<1> QED
  BY <1>2, <1>3

LEMMA DestinationsClasses ==
  ASSUME PlainNames, UniqueNames, ProperRequests(Request)
  PROVE  Classes(Destinations) /\ RequestsAsked(Destinations)
<1> DEFINE K == Destinations
<1>1. /\ K.C = [q \in URI \X (Account \cup {None}) |->
                  IF q[2] = None THEN None ELSE Destination(q[1], q[2])]
      /\ K.P = {q \in URI \X Account :
                  /\ q[1].host \in {None, HostOf[q[2]]}
                  /\ q[2] \in RingAccount \/ NameOf[q[1].user] = None}
      /\ K.N = User \X (URI \cup {None})
  BY DEF Destinations
<1> HIDE DEF K
<1>2. /\ None \notin Account /\ RingAccount \subseteq Account
      /\ \A x \in User : NameOf[x] \in User \cup {None}
      /\ \A a \in Account : HostOf[a] \in Host
  BY DirectoryConstants
<1>3. /\ \A u \in URI : K.C[<<u, None>>] = None
      /\ \A u \in URI, a \in Account :
           /\ K.C[<<u, a>>] = Destination(u, a)
           /\ <<u, a>> \in K.P <=> /\ u.host \in {None, HostOf[a]}
                                   /\ a \in RingAccount \/ NameOf[u.user] = None
  BY <1>1, <1>2
<1>4. \A u \in URI : /\ UserInfo(u) \in URI /\ UserInfo(u).user = u.user
                     /\ UserInfo(u).host = None
                     /\ \A a \in Account : /\ Extended(u, a) \in URI /\ HostOf[a] # None
                                           /\ Extended(u, a).user = u.user
                                           /\ Extended(u, a).host = HostOf[a]
  BY UserInfoFacts, ExtendedFacts
<1>5. \A x \in User : [user |-> x, host |-> None] \in URI
  BY DEF URI
<1>6. \A u \in URI, a \in Account :
        u.host \in {None, HostOf[a]} =>
          Destination(u, a) = [user |-> Person(u.user, a), host |-> HostOf[a]]
  BY <1>2 DEF Destination
<1>7. \A u \in URI, a \in Account : Destination(u, a) \in URI
  <2> SUFFICES ASSUME NEW u \in URI, NEW a \in Account PROVE Destination(u, a) \in URI
    OBVIOUS
  <2>1. u.user \in User /\ u.host \in Host \cup {None} /\ Person(u.user, a) \in User
    BY PersonFacts DEF URI
  <2> QED
    BY <1>2, <2>1 DEF Destination, URI
<1>8. Classes(K)
  <2>1. ASSUME NEW u \in URI, NEW a \in Account
        PROVE  /\ u.host = None => K.C[<<Extended(u, a), a>>] = K.C[<<u, a>>]
               /\ <<u, a>> \in K.P =>
                    /\ K.C[<<UserInfo(u), a>>] = K.C[<<u, a>>]
                    /\ <<Extended(u, a), a>> \in K.P
                    /\ \A p \in User :
                         <<p, K.C[<<u, None>>]>> \in K.N => <<p, K.C[<<u, a>>]>> \in K.N
    <3>1. u.host = None => K.C[<<Extended(u, a), a>>] = K.C[<<u, a>>]
      BY <1>3, <1>4, <1>6
    <3>2. <<u, a>> \in K.P => /\ K.C[<<UserInfo(u), a>>] = K.C[<<u, a>>]
                              /\ <<Extended(u, a), a>> \in K.P
      BY <1>3, <1>4, <1>6
    <3>3. \A p \in User : <<p, K.C[<<u, a>>]>> \in K.N
      BY <1>1, <1>3, <1>7
    <3> QED
      BY <3>1, <3>2, <3>3
  <2>2. ASSUME NEW u \in URI, NEW a \in RingAccount, u.host = None PROVE <<u, a>> \in K.P
    BY <1>2, <1>3, <2>2
  <2>3. ASSUME NEW x \in User, NEW b \in Account \cup {None}, NameOf[x] # None
        PROVE  /\ <<NameOf[x], K.C[<<[user |-> x, host |-> None], b>>]>> \in K.N
               /\ \A u \in URI :
                    (b = None \/ <<u, b>> \in K.P)
                    /\ K.C[<<u, b>>] = K.C[<<[user |-> x, host |-> None], b>>] =>
                         K.C[<<[user |-> NameOf[x], host |-> None], b>>] = K.C[<<u, b>>]
    <3> DEFINE address == [user |-> x, host |-> None]
               name == [user |-> NameOf[x], host |-> None]
    <3>1. NameOf[x] \in User /\ address \in URI /\ name \in URI
      BY <1>2, <1>5, <2>3
    <3>2. address.user = x /\ address.host = None /\ name.user = NameOf[x] /\ name.host = None
      OBVIOUS
    <3> HIDE DEF address, name
    <3>3. <<NameOf[x], K.C[<<address, b>>]>> \in K.N
      BY <1>1, <1>3, <1>7, <3>1
    <3>4. ASSUME NEW u \in URI, b = None \/ <<u, b>> \in K.P,
                 K.C[<<u, b>>] = K.C[<<address, b>>]
          PROVE  K.C[<<name, b>>] = K.C[<<u, b>>]
      <4>1. CASE b = None
        BY <1>3, <3>1, <4>1
      <4>2. CASE b # None
        <5>1. b \in Account /\ <<u, b>> \in K.P
          BY <3>4, <4>2
        <5>2. /\ K.C[<<address, b>>] = [user |-> Person(x, b), host |-> HostOf[b]]
              /\ K.C[<<name, b>>] = [user |-> Person(NameOf[x], b), host |-> HostOf[b]]
              /\ K.C[<<u, b>>] = [user |-> Person(u.user, b), host |-> HostOf[b]]
          BY <1>3, <1>6, <3>1, <3>2, <5>1
        <5>3. Person(x, b) = x /\ Person(u.user, b) = x
          <6>1. Person(x, b) = x
            BY <2>3, PersonFacts
          <6>2. Person(u.user, b) = Person(x, b)
            BY <3>4, <5>2
          <6> QED
            BY <6>1, <6>2
        <5>4. b \in RingAccount
          <6>1. u.user \in User
            BY DEF URI
          <6>2. b \notin RingAccount => Person(u.user, b) = u.user
            BY <6>1, PersonFacts
          <6> QED
            BY <1>3, <2>3, <5>1, <5>3, <6>2
        <5>5. Person(NameOf[x], b) = x
          BY <2>3, <5>4, PersonFacts
        <5> QED
          BY <5>2, <5>3, <5>5
      <4> QED
        BY <4>1, <4>2
    <3> QED
      BY <3>3, <3>4 DEF address, name
  <2> QED
    BY <2>1, <2>2, <2>3 DEF Classes
<1>9. RequestsAsked(K)
  <2>1. ASSUME NEW r \in Request PROVE Asked(K, r[1], r[2])
    <3>1. r[1] \in URI /\ r[2] \in Account \cup {None}
      BY DirectoryConstants
    <3> QED
      BY <1>3, <3>1 DEF Asked, ProperRequests
  <2> QED
    BY <2>1 DEF RequestsAsked
<1> QED
  BY <1>8, <1>9 DEF K

\* What a class says.
LEMMA DestinationsClass ==
  ASSUME NEW u \in URI, NEW a \in Account
  PROVE  Destinations.C[<<u, a>>] = Destination(u, a)
<1>1. a # None
  BY DirectoryConstants
<1> QED
  BY <1>1 DEF Destinations

\* Objects are only merged when they reach the same peer by the same account, when names
\* are plain and unique and nobody asks for an address of another host than the account's.
THEOREM MergedReachTheSameCorrect ==
  ASSUME PlainNames, UniqueNames, ProperRequests(Request)
  PROVE  Spec => []MergedReachTheSame
<1>1. Init => SortedDirectory(Destinations)
  BY InitInvariant
<1>2. SortedDirectory(Destinations) /\ [Next]_dir => SortedDirectory(Destinations)'
  BY NextInvariant, DestinationsClasses
<1>3. SortedDirectory(Destinations) => MergedReachTheSame
  <2> SUFFICES ASSUME SortedDirectory(Destinations), Usable(dir),
                      NEW n \in DOMAIN dir.numbers, NEW o \in DOMAIN dir.numbers,
                      dir.data[n] = dir.data[o]
               PROVE  Reaches(dir, n) = Reaches(dir, o)
    BY DEF MergedReachTheSame
  <2> DEFINE K == Destinations
             p == Private(dir, n)
  <2>1. dir \in Sorted(K) /\ n \in Valid(dir) /\ o \in Valid(dir)
    <3>1. dir \in Sorted(K) /\ dir \in Directories
      BY DEF SortedDirectory, Sorted
    <3> QED
      BY <3>1, DirectoryFacts, UsableIsValid
  <2>2. /\ Private(dir, o) = p /\ p \in Data
        /\ Consistent(K, n, dir.numbers[n], dir.data[n], p)
        /\ Consistent(K, o, dir.numbers[o], dir.data[o], p)
        /\ dir.numbers[n] \in URI /\ dir.numbers[o] \in URI
    <3>1. Private(dir, o) = p
      BY DEF Private
    <3>2. dir \in Directories
      BY <2>1 DEF Sorted
    <3> QED
      BY <2>1, <3>1, <3>2, SortedFacts, ValidFacts
  <2> HIDE DEF K, p
  <2>3. CASE p.account = None
    BY <2>2, <2>3 DEF Consistent
  <2>4. CASE p.account # None
    <3>1. K.C[<<dir.numbers[n], p.account>>] = K.C[<<dir.numbers[o], p.account>>]
      BY <2>2 DEF Consistent
    <3>2. p.account \in Account
      BY <2>2, <2>4 DEF Data
    <3>3. Destination(dir.numbers[n], p.account) = Destination(dir.numbers[o], p.account)
      BY <2>2, <3>1, <3>2, DestinationsClass DEF K
    <3> QED
      BY <2>2, <3>3 DEF p, Reaches
  <2> QED
    BY <2>3, <2>4
<1> QED
  BY <1>1, <1>2, <1>3, PTL DEF Spec

\* The contact method that is given for an address and an account is one by which a message
\* goes where it was asked for, whatever was asked, named and merged before.
THEOREM SameDestinationCorrect ==
  ASSUME PlainNames, UniqueNames, ProperRequests(Request)
  PROVE  Spec => []SameDestination
<1>1. Init => SortedDirectory(Destinations)
  BY InitInvariant
<1>2. SortedDirectory(Destinations) /\ [Next]_dir => SortedDirectory(Destinations)'
  BY NextInvariant, DestinationsClasses
<1>3. SortedDirectory(Destinations) => SameDestination
  <2> SUFFICES ASSUME SortedDirectory(Destinations), Usable(dir), NEW r \in Request,
                      Usable(getNumber(dir, r[1], r[2]).dir), r[2] # None
               PROVE  Reaches(getNumber(dir, r[1], r[2]).dir, getNumber(dir, r[1], r[2]).number)
                        = Destination(r[1], r[2])
    BY DEF SameDestination
  <2> DEFINE K == Destinations
             found == getNumber(dir, r[1], r[2])
             e == found.dir
             n == found.number
  <2>1. dir \in Sorted(K) /\ Classes(K) /\ Asked(K, r[1], r[2])
    BY DestinationsClasses DEF SortedDirectory, RequestsAsked
  <2>2. found \in Answers(K, dir, r[1], r[2])
    BY <2>1, GetNumberSorted
  <2>3. /\ e \in Sorted(K) /\ e \in Directories /\ n \in 1..Count(e)
        /\ Serves(K, e, n, r[1], r[2]) /\ Usable(e)
    BY <2>2 DEF Answers, Later, Sorted
  <2> HIDE DEF K, found
  <2>4. n \in Valid(e)
    BY <2>3, UsableIsValid
  <2>5. /\ Private(e, n).account = r[2] /\ r[1] \in URI /\ r[2] \in Account
        /\ e.numbers[n] \in URI /\ K.C[<<e.numbers[n], r[2]>>] = K.C[<<r[1], r[2]>>]
    BY <2>1, <2>3, <2>4, ValidFacts DEF Serves, Asked
  <2>6. Destination(e.numbers[n], r[2]) = Destination(r[1], r[2])
    BY <2>5, DestinationsClass DEF K
  <2> QED
    BY <2>5, <2>6 DEF found, Reaches
<1> QED
  BY <1>1, <1>2, <1>3, PTL DEF Spec

-----------------------------------------------------------------------------
(* The order of a list.                                                    *)

Precedes(list, m, n) == \E i, j \in DOMAIN list : i < j /\ list[i] = m /\ list[j] = n

LEMMA PrecedesFacts ==
  ASSUME NEW S, NEW s \in Seq(S)
  PROVE  /\ \A m, n : Precedes(s, m, n) => m \in ToSet(s) /\ n \in ToSet(s)
         /\ \A m, n \in ToSet(s) : m = n \/ Precedes(s, m, n) \/ Precedes(s, n, m)
<1>1. Len(s) \in Nat /\ DOMAIN s = 1..Len(s) /\ ToSet(s) = {s[k] : k \in 1..Len(s)}
  BY DEF ToSet
<1>2. ASSUME NEW i \in 1..Len(s), NEW j \in 1..Len(s)
      PROVE  s[i] = s[j] \/ Precedes(s, s[i], s[j]) \/ Precedes(s, s[j], s[i])
  <2>1. i = j \/ i < j \/ j < i
    BY <1>1
  <2> QED
    BY <1>1, <2>1 DEF Precedes
<1>3. \A m, n : Precedes(s, m, n) => m \in ToSet(s) /\ n \in ToSet(s)
  BY <1>1 DEF Precedes
<1> QED
  BY <1>1, <1>2, <1>3

LEMMA AppendedOrder ==
  ASSUME NEW S, NEW s \in Seq(S), NEW e \in S, NEW m, NEW n
  PROVE  Precedes(Append(s, e), m, n) <=> Precedes(s, m, n) \/ (m \in ToSet(s) /\ n = e)
<1> DEFINE t == Append(s, e)
           c == Len(s)
<1>1. /\ c \in Nat /\ DOMAIN s = 1..c /\ DOMAIN t = 1..(c + 1)
      /\ t[c + 1] = e /\ \A j \in 1..c : t[j] = s[j]
      /\ ToSet(s) = {s[k] : k \in 1..c}
  BY AppendProperties DEF ToSet
<1> HIDE DEF t, c
<1>2. /\ 1..c \subseteq 1..(c + 1) /\ c + 1 \in 1..(c + 1) /\ \A j \in 1..c : j < c + 1
      /\ \A i, j \in 1..(c + 1) : i < j => i \in 1..c /\ (j \in 1..c \/ j = c + 1)
  BY <1>1
<1>3. Precedes(t, m, n) => Precedes(s, m, n) \/ (m \in ToSet(s) /\ n = e)
  <2> SUFFICES ASSUME NEW i \in 1..(c + 1), NEW j \in 1..(c + 1), i < j, t[i] = m, t[j] = n
               PROVE  Precedes(s, m, n) \/ (m \in ToSet(s) /\ n = e)
    BY <1>1 DEF Precedes
  <2>1. i \in 1..c /\ s[i] = m /\ (j \in 1..c \/ j = c + 1)
    BY <1>1, <1>2
  <2>2. CASE j \in 1..c
    <3>1. s[j] = n
      BY <1>1, <2>2
    <3> QED
      BY <1>1, <2>1, <2>2, <3>1 DEF Precedes
  <2>3. CASE j = c + 1
    BY <1>1, <2>1, <2>3
  <2> QED
    BY <2>1, <2>2, <2>3
<1>4. Precedes(s, m, n) => Precedes(t, m, n)
  <2> SUFFICES ASSUME NEW i \in 1..c, NEW j \in 1..c, i < j, s[i] = m, s[j] = n
               PROVE  Precedes(t, m, n)
    BY <1>1 DEF Precedes
  <2>1. i \in DOMAIN t /\ j \in DOMAIN t /\ t[i] = m /\ t[j] = n
    BY <1>1, <1>2
  <2> QED
    BY <2>1 DEF Precedes
<1>5. m \in ToSet(s) /\ n = e => Precedes(t, m, n)
  <2> SUFFICES ASSUME NEW i \in 1..c, s[i] = m, n = e PROVE Precedes(t, m, n)
    BY <1>1
  <2>1. i \in DOMAIN t /\ c + 1 \in DOMAIN t /\ i < c + 1 /\ t[i] = m /\ t[c + 1] = n
    BY <1>1, <1>2
  <2> QED
    BY <2>1 DEF Precedes
<1> QED
  BY <1>3, <1>4, <1>5 DEF t

\* What is found is the first.
LEMMA FirstIsFirst ==
  ASSUME NEW c \in Nat, NEW list \in Seq(1..c), NEW T
  PROVE  LET m == First(list, T)
         IN  /\ m = None => ToSet(list) \cap T = {}
             /\ m # None => /\ m \in ToSet(list) \cap T \cap 1..c
                            /\ \A k \in ToSet(list) \cap T : k = m \/ Precedes(list, m, k)
<1> DEFINE P == Places(list, T)
           m == First(list, T)
<1>1. /\ Len(list) \in Nat /\ DOMAIN list = 1..Len(list)
      /\ \A k \in 1..Len(list) : list[k] \in 1..c
      /\ ToSet(list) = {list[k] : k \in 1..Len(list)}
  BY DEF ToSet
<1>2. /\ P \in SUBSET Nat /\ P = {k \in 1..Len(list) : list[k] \in T}
  BY <1>1 DEF Places
<1> HIDE DEF P
<1>3. P = {} => m = None /\ ToSet(list) \cap T = {}
  BY <1>1, <1>2 DEF First, P
<1>4. ASSUME P # {}
      PROVE  /\ m # None /\ m \in ToSet(list) \cap T \cap 1..c
             /\ \A k \in ToSet(list) \cap T : k = m \/ Precedes(list, m, k)
  <2> DEFINE i == Min(P)
  <2>1. i \in P /\ \A j \in P : i <= j
    BY <1>2, <1>4, LeastNumber
  <2>2. m = list[i]
    BY <1>4 DEF First, P
  <2> HIDE DEF i, m
  <2>3. m \in 1..c /\ m \in T /\ m \in ToSet(list) /\ i \in 1..Len(list)
    BY <1>1, <1>2, <2>1, <2>2
  <2>4. m # None
    BY <2>3, DirectoryConstants
  <2>5. ASSUME NEW k \in ToSet(list) \cap T PROVE k = m \/ Precedes(list, m, k)
    <3>1. PICK j \in 1..Len(list) : list[j] = k
      BY <1>1
    <3>2. j \in P
      BY <1>2, <3>1
    <3>3. i = j \/ i < j
      BY <1>1, <2>1, <2>3, <3>2
    <3> QED
      BY <1>1, <2>2, <2>3, <3>1, <3>3 DEF Precedes
  <2> QED
    BY <2>3, <2>4, <2>5
<1> QED
  BY <1>3, <1>4

-----------------------------------------------------------------------------
(* The order of the objects in a usable directory.                         *)

List(d, u) == ToSet(Wrapper(d, u))
AccountOf(d, n) == Private(d, n).account
Alike(d, n) == {k \in 1..Count(d) : d.data[k] = d.data[n]}
IsName(x) == \E y \in User : NameOf[y] = x

\* What is without an account is the first of a list, was made for its text or, in the
\* list of a name, for whom it names, and is alone in the list of an address with a host.
Fresh(d) ==
  \A u \in URI : \A n \in List(d, u) :
    AccountOf(d, n) = None =>
      /\ \A m \in List(d, u) : ~Precedes(Wrapper(d, u), m, n)
      /\ d.numbers[n] = u \/ (u.host = None /\ IsName(u.user))
      /\ u.host # None => List(d, u) = {n}

\* What is listed for an address with a host and has the same account is merged.
Joined(d) ==
  \A u \in URI : u.host # None =>
    \A m, n \in List(d, u) : AccountOf(d, m) = AccountOf(d, n) => d.data[m] = d.data[n]

\* Without a host, only the first of a list may have the account of a later one; and only
\* in the list of a name if the later one was made for that.
Ranked(d) ==
  \A u \in URI : u.host = None =>
    \A m, n \in List(d, u) : Precedes(Wrapper(d, u), m, n) =>
      /\ AccountOf(d, m) = AccountOf(d, n) =>
           \A k \in List(d, u) : ~Precedes(Wrapper(d, u), k, m)
      /\ d.numbers[n] = u =>
           AccountOf(d, m) \notin {None, AccountOf(d, n)} \/ IsName(u.user)

\* What is listed at all without a host is so for its own user part.
Rooted(d) ==
  \A u \in URI : u.host = None =>
    \A n \in List(d, u) : n \in List(d, UserInfo(d.numbers[n]))

\* What is listed for an address with a host is merged with an object of that user part;
\* if that is a name, and it is merged with another one too, then with one that is listed
\* for the name.
Linked(d) ==
  \A u \in URI : u.host # None =>
    \A n \in List(d, u) :
      /\ \E k \in Alike(d, n) : d.numbers[k].user = u.user
      /\ IsName(u.user) /\ (\E k \in Alike(d, n) : d.numbers[k].user # u.user) =>
           \E k \in Alike(d, n) : k \in List(d, UserInfo(u))

\* The address that objects share is one that an object of them was made for.
Worded(d) ==
  \A n \in 1..Count(d) : \E k \in Alike(d, n) : d.numbers[k] = Private(d, n).uri

Ordered(d) ==
  /\ Fresh(d)
  /\ Joined(d)
  /\ Ranked(d)
  /\ Rooted(d)
  /\ Linked(d)
  /\ Worded(d)

\* The directories that the answers are given from.
Sound(K) == {d \in Sorted(K) : Usable(d)}

LEMMA SoundFacts ==
  ASSUME NEW K, NEW d \in Sound(K)
  PROVE  /\ d \in Sorted(K) /\ d \in Directories /\ Usable(d) /\ Valid(d) = 1..Count(d)
         /\ Count(d) \in Nat
         /\ \A n \in 1..Count(d) :
              /\ d.data[n] \in 1..Count(d) /\ d.numbers[n] \in URI
              /\ Private(d, n) \in Data /\ Private(d, n) = d.private[d.data[n]]
              /\ AccountOf(d, n) \in Account \cup {None} /\ Private(d, n).uri \in URI
              /\ Consistent(K, n, d.numbers[n], d.data[n], Private(d, n))
              /\ \A u : n \in List(d, u) => Fits(K, d.numbers[n], Private(d, n), u)
         /\ \A u : Wrapper(d, u) \in Seq(1..Count(d)) /\ List(d, u) \subseteq 1..Count(d)
<1>1. d \in Sorted(K) /\ d \in Directories /\ Usable(d)
  BY DEF Sound, Sorted
<1>2. Valid(d) = 1..Count(d) /\ Count(d) \in Nat
  BY <1>1, UsableIsValid, DirectoryFacts
<1>3. ASSUME NEW n \in 1..Count(d)
      PROVE  /\ d.data[n] \in 1..Count(d) /\ d.numbers[n] \in URI
             /\ Private(d, n) \in Data /\ Private(d, n) = d.private[d.data[n]]
             /\ AccountOf(d, n) \in Account \cup {None} /\ Private(d, n).uri \in URI
             /\ Consistent(K, n, d.numbers[n], d.data[n], Private(d, n))
             /\ \A u : n \in List(d, u) => Fits(K, d.numbers[n], Private(d, n), u)
  <2>1. n \in Valid(d)
    BY <1>2
  <2>2. /\ d.data[n] \in 1..Count(d) /\ d.numbers[n] \in URI
        /\ Private(d, n) \in Data /\ Private(d, n) = d.private[d.data[n]]
    BY <1>1, <2>1, ValidFacts
  <2>3. /\ AccountOf(d, n) \in Account \cup {None} /\ Private(d, n).uri \in URI
    BY <2>2 DEF Data, AccountOf
  <2>4. /\ Consistent(K, n, d.numbers[n], d.data[n], Private(d, n))
        /\ \A u : n \in List(d, u) => Fits(K, d.numbers[n], Private(d, n), u)
    BY <1>1, <2>1, SortedFacts DEF List
  <2> QED
    BY <2>2, <2>3, <2>4
<1>4. \A u : Wrapper(d, u) \in Seq(1..Count(d)) /\ List(d, u) \subseteq 1..Count(d)
  BY <1>1, ListFacts DEF List
<1> QED
  BY <1>1, <1>2, <1>3, <1>4

LEMMA AloneWithoutAccount ==
  ASSUME NEW K, NEW d \in Sound(K), NEW n \in 1..Count(d), AccountOf(d, n) = None
  PROVE  /\ Alike(d, n) = {n} /\ d.data[n] = n
         /\ Private(d, n).uri = d.numbers[n]
<1>1. ASSUME NEW k \in Alike(d, n) PROVE k = n
  <2>1. k \in 1..Count(d) /\ d.data[k] = d.data[n] /\ Private(d, k) = Private(d, n)
    BY DEF Alike, Private
  <2>2. AccountOf(d, k) = None
    BY <2>1 DEF AccountOf
  <2>3. /\ Consistent(K, k, d.numbers[k], d.data[k], Private(d, k))
        /\ Consistent(K, n, d.numbers[n], d.data[n], Private(d, n))
    BY <2>1, SoundFacts
  <2> QED
    BY <2>1, <2>2, <2>3 DEF Consistent, AccountOf
<1>2. n \in Alike(d, n)
  BY DEF Alike
<1>3. Consistent(K, n, d.numbers[n], d.data[n], Private(d, n))
  BY SoundFacts
<1> QED
  BY <1>1, <1>2, <1>3 DEF Consistent, AccountOf

\* Nothing is said of names.
LEMMA OrderedBySame ==
  ASSUME NEW d, NEW e, e.numbers = d.numbers, e.data = d.data,
         \A u : Wrapper(e, u) = Wrapper(d, u), \A u : List(d, u) \subseteq 1..Count(d),
         \A n \in 1..Count(d) : AccountOf(e, n) = AccountOf(d, n)
                                /\ Private(e, n).uri = Private(d, n).uri,
         Ordered(d)
  PROVE  Ordered(e)
<1>1. Count(e) = Count(d) /\ \A n : Alike(e, n) = Alike(d, n)
  BY DEF Count, Alike
<1>2. \A u : List(e, u) = List(d, u)
  BY DEF List
<1>3. Fresh(e)
  BY <1>2 DEF Ordered, Fresh
<1>4. Joined(e)
  BY <1>2 DEF Ordered, Joined
<1>5. Ranked(e)
  BY <1>2 DEF Ordered, Ranked
<1>6. Rooted(e)
  BY <1>2 DEF Ordered, Rooted
<1>7. Linked(e)
  BY <1>1, <1>2 DEF Ordered, Linked
<1>8. Worded(e)
  BY <1>1 DEF Ordered, Worded
<1> QED
  BY <1>3, <1>4, <1>5, <1>6, <1>7, <1>8 DEF Ordered

-----------------------------------------------------------------------------
(* An object gets an account.                                              *)

LEMMA GivenOrdered ==
  ASSUME NEW K, Classes(K), NEW d \in Sound(K), NEW n \in 1..Count(d),
         NEW a \in Account \cup {None}, AccountOf(d, n) \in {None, a},
         AccountOf(d, n) = None /\ a # None => <<d.numbers[n], a>> \in K.P
  PROVE  LET e == Given(d, n, a)
         IN  /\ e \in Sound(K) /\ e \in Later(K, d) /\ e.numbers = d.numbers
             /\ e.data = d.data /\ Count(e) = Count(d)
             /\ \A u : Wrapper(e, u) = Wrapper(d, u)
             /\ \A k \in 1..Count(d) : k # n => Private(e, k) = Private(d, k)
             /\ AccountOf(e, n) = a /\ Private(e, n).uri = Private(d, n).uri
             /\ AccountOf(d, n) = a => e = d
             /\ Ordered(d) => Ordered(e)
<1> DEFINE e == Given(d, n, a)
<1>1. /\ n \in Valid(d) /\ d \in Sorted(K) /\ Private(d, n).account \in {None, a}
      /\ Private(d, n) \in Data /\ d \in Directories /\ Usable(d) /\ Count(d) \in Nat
      /\ \A u : List(d, u) \subseteq 1..Count(d)
  BY SoundFacts DEF AccountOf
<1>2. /\ e \in Later(K, d) /\ e.numbers = d.numbers /\ e.data = d.data
      /\ e.directory = d.directory
      /\ Private(e, n) = [Private(d, n) EXCEPT !.account = a]
  BY <1>1, GivenSorted DEF AccountOf
<1>3. ASSUME AccountOf(d, n) = a PROVE e = d
  <2> DEFINE r == d.data[n]
             p == [d.private[r] EXCEPT !.account = a]
             f == [d.private EXCEPT ![r] = p]
  <2>1. d.private[r] \in Data /\ d.private[r].account = a
    BY <1>1, <1>3 DEF Private, AccountOf
  <2>2. p = d.private[r]
    BY <2>1 DEF Data
  <2>3. d.private = [k \in DOMAIN d.private |-> d.private[k]]
    <3>1. d.private \in Seq(Data)
      BY <1>1, DirectoryFacts
    <3> QED
      BY <3>1
  <2> HIDE DEF p
  <2>4. f = d.private
    BY <2>2, <2>3
  <2>5. e = [d EXCEPT !.private = f]
    BY DEF Given, p
  <2> HIDE DEF f, e
  <2>6. d = [numbers |-> d.numbers, data |-> d.data, private |-> d.private,
             directory |-> d.directory]
    BY <1>1, DirectoryFacts
  <2> QED
    BY <2>4, <2>5, <2>6
<1> HIDE DEF e
<1>5. /\ Count(e) = Count(d) /\ \A u : Wrapper(e, u) = Wrapper(d, u)
      /\ AccountOf(e, n) = a /\ Private(e, n).uri = Private(d, n).uri
      /\ e \in Sorted(K) /\ Usable(e)
  BY <1>1, <1>2 DEF Count, Wrapper, AccountOf, Data, Later, Usable
<1>6. e \in Sound(K)
  BY <1>5 DEF Sound
<1>7. \A k \in 1..Count(d) : k # n => Private(e, k) = Private(d, k)
  <2>1. CASE AccountOf(d, n) = a
    BY <1>3, <2>1
  <2>2. CASE AccountOf(d, n) = None
    <3> SUFFICES ASSUME NEW k \in 1..Count(d), k # n PROVE Private(e, k) = Private(d, k)
      OBVIOUS
    <3>1. k \notin Alike(d, n)
      BY <2>2, AloneWithoutAccount
    <3>2. d.data[k] # d.data[n]
      BY <3>1 DEF Alike
    <3> DEFINE p == [d.private[d.data[n]] EXCEPT !.account = a]
               f == [d.private EXCEPT ![d.data[n]] = p]
    <3>3. e.private = f
      <4>1. e = [d EXCEPT !.private = f]
        BY DEF Given, e
      <4> HIDE DEF f, e
      <4>2. d = [numbers |-> d.numbers, data |-> d.data, private |-> d.private,
                 directory |-> d.directory]
        BY <1>1, DirectoryFacts
      <4> QED
        BY <4>1, <4>2
    <3> HIDE DEF p
    <3>4. d.data[k] \in DOMAIN d.private
      BY <1>1, SoundFacts, DirectoryFacts
    <3>5. f[d.data[k]] = d.private[d.data[k]]
      BY <3>2, <3>4
    <3> QED
      BY <1>2, <3>3, <3>5 DEF Private
  <2> QED
    BY <1>1, <2>1, <2>2 DEF AccountOf
<1>8. ASSUME Ordered(d) PROVE Ordered(e)
  <2>1. CASE AccountOf(d, n) = a
    BY <1>3, <1>8, <2>1
  <2>2. CASE AccountOf(d, n) = None
    <3>1. /\ \A k \in 1..Count(d) : AccountOf(e, k) = IF k = n THEN a ELSE AccountOf(d, k)
          /\ \A k \in 1..Count(d) : Private(e, k).uri = Private(d, k).uri
      BY <1>5, <1>7 DEF AccountOf
    <3>2. /\ \A k : Alike(e, k) = Alike(d, k)
          /\ \A u : List(e, u) = List(d, u) /\ Wrapper(e, u) = Wrapper(d, u)
      BY <1>2, <1>5 DEF Alike, List
    <3>3. \A u \in URI : n \in List(d, u) =>
             /\ \A m \in List(d, u) : ~Precedes(Wrapper(d, u), m, n)
             /\ d.numbers[n] = u \/ (u.host = None /\ IsName(u.user))
             /\ u.host # None => List(d, u) = {n}
      BY <1>8, <2>2 DEF Ordered, Fresh
    <3>4. Fresh(e)
      <4> SUFFICES ASSUME NEW u \in URI, NEW k \in List(d, u), AccountOf(e, k) = None
                   PROVE  /\ \A m \in List(d, u) : ~Precedes(Wrapper(d, u), m, k)
                          /\ d.numbers[k] = u \/ (u.host = None /\ IsName(u.user))
                          /\ u.host # None => List(d, u) = {k}
        BY <1>2, <3>2 DEF Fresh
      <4>1. AccountOf(d, k) = None
        BY <1>1, <2>2, <3>1
      <4> QED
        BY <1>8, <4>1 DEF Ordered, Fresh
    <3>5. Joined(e)
      <4> SUFFICES ASSUME NEW u \in URI, u.host # None, NEW j \in List(d, u), NEW k \in List(d, u),
                          AccountOf(e, j) = AccountOf(e, k)
                   PROVE  d.data[j] = d.data[k]
        BY <1>2, <3>2 DEF Joined
      <4>1. CASE j = n \/ k = n
        BY <3>3, <4>1
      <4>2. CASE j # n /\ k # n
        <5>1. AccountOf(d, j) = AccountOf(d, k)
          BY <1>1, <3>1, <4>2
        <5> QED
          BY <1>8, <5>1 DEF Ordered, Joined
      <4> QED
        BY <4>1, <4>2
    <3>6. Ranked(e)
      <4> SUFFICES ASSUME NEW u \in URI, u.host = None, NEW j \in List(d, u), NEW k \in List(d, u),
                          Precedes(Wrapper(d, u), j, k)
                   PROVE  /\ AccountOf(e, j) = AccountOf(e, k) =>
                               \A m \in List(d, u) : ~Precedes(Wrapper(d, u), m, j)
                          /\ d.numbers[k] = u =>
                               AccountOf(e, j) \notin {None, AccountOf(e, k)} \/ IsName(u.user)
        BY <1>2, <3>2 DEF Ranked
      <4>1. k # n
        BY <3>3
      <4>2. /\ AccountOf(e, k) = AccountOf(d, k)
            /\ AccountOf(d, j) = AccountOf(d, k) =>
                 \A m \in List(d, u) : ~Precedes(Wrapper(d, u), m, j)
            /\ d.numbers[k] = u =>
                 AccountOf(d, j) \notin {None, AccountOf(d, k)} \/ IsName(u.user)
        BY <1>1, <1>8, <3>1, <4>1 DEF Ordered, Ranked
      <4>3. CASE j = n
        BY <2>2, <3>3, <4>2, <4>3
      <4>4. CASE j # n
        <5>1. AccountOf(e, j) = AccountOf(d, j)
          BY <1>1, <3>1, <4>4
        <5> QED
          BY <4>2, <5>1
      <4> QED
        BY <4>3, <4>4
    <3>7. Rooted(e)
      BY <1>2, <1>8, <3>2 DEF Ordered, Rooted
    <3>8. Linked(e)
      BY <1>2, <1>8, <3>2 DEF Ordered, Linked
    <3>9. Worded(e)
      BY <1>2, <1>5, <1>8, <3>1, <3>2 DEF Ordered, Worded
    <3> QED
      BY <3>4, <3>5, <3>6, <3>7, <3>8, <3>9 DEF Ordered
  <2> QED
    BY <1>1, <2>1, <2>2 DEF AccountOf
<1> QED
  BY <1>2, <1>3, <1>5, <1>6, <1>7, <1>8 DEF e

-----------------------------------------------------------------------------
(* Two objects are merged.                                                 *)

\* What is left of a usable directory: only an object that has its data for itself can
\* give it up.
LEMMA MergeUsable ==
  ASSUME NEW K, NEW d \in Sound(K), NEW n \in 1..Count(d), NEW o \in 1..Count(d),
         AccountOf(d, n) # None, AccountOf(d, n) = AccountOf(d, o),
         K.C[<<d.numbers[n], AccountOf(d, n)>>] = K.C[<<d.numbers[o], AccountOf(d, n)>>],
         d.data[n] # d.data[o], Usable(merge(d, n, o))
  PROVE  LET e == merge(d, n, o)
         IN  /\ e \in Sound(K) /\ e \in Merges(K, d) /\ e.numbers = d.numbers
             /\ e.directory = d.directory /\ Count(e) = Count(d)
             /\ \A u : Wrapper(e, u) = Wrapper(d, u)
             /\ Alike(d, n) = {n}
             /\ \A k \in 1..Count(d) :
                  /\ e.data[k] = IF k = n THEN d.data[o] ELSE d.data[k]
                  /\ Private(e, k) = IF k = n \/ k \in Alike(d, o) THEN Both(d, n, o)
                                     ELSE Private(d, k)
                  /\ AccountOf(e, k) = AccountOf(d, k)
                  /\ Alike(e, k) = IF k = n \/ k \in Alike(d, o) THEN Alike(d, o) \cup {n}
                                   ELSE Alike(d, k)
             /\ Private(e, n).uri \in {Private(d, n).uri, Private(d, o).uri}
<1> DEFINE e == merge(d, n, o)
<1>1. /\ d \in Sorted(K) /\ d \in Directories /\ n \in Valid(d) /\ o \in Valid(d)
      /\ Valid(d) = 1..Count(d) /\ Count(d) \in Nat
      /\ Private(d, n).account # None /\ Private(d, n).account = Private(d, o).account
      /\ d.data[n] \in 1..Count(d) /\ d.data[o] \in 1..Count(d)
  BY SoundFacts DEF AccountOf
<1>2. e \in Merges(K, d)
  <2>1. K.C[<<d.numbers[n], Private(d, n).account>>]
          = K.C[<<d.numbers[o], Private(d, n).account>>]
    BY DEF AccountOf
  <2> QED
    BY <1>1, <2>1, MergeSorted
<1>3. /\ e.numbers = d.numbers /\ e.directory = d.directory
      /\ \A k \in Valid(e) :
           /\ k \in Valid(d)
           /\ e.data[k] = IF d.data[k] = d.data[n] THEN d.data[o] ELSE d.data[k]
           /\ Private(e, k) = IF d.data[k] \in {d.data[n], d.data[o]} THEN Both(d, n, o)
                              ELSE Private(d, k)
  BY <1>1, MergeFields
<1>4. \A k \in 1..Count(d) : d.data[k] = d.data[n] /\ k # d.data[n] => e.data[k] = Deleted
  <2> DEFINE old  == d.data[n]
             new  == d.data[o]
             this == d.private[old]
             that == d.private[new]
             both == [that EXCEPT !.uri = IF size(this.uri) > size(that.uri) THEN this.uri
                                          ELSE that.uri,
                                  !.registeredName = IF that.registeredName = None
                                                       THEN this.registeredName ELSE @]
             g == [k \in DOMAIN d.data |->
                     IF d.data[k] # old THEN d.data[k] ELSE IF k = old THEN new ELSE Deleted]
  <2>1. e = [d EXCEPT !.data = g, !.private[new] = both]
    BY <1>1 DEF merge, Private
  <2> HIDE DEF g, both, e
  <2>2. d = [numbers |-> d.numbers, data |-> d.data, private |-> d.private,
             directory |-> d.directory]
    BY <1>1, DirectoryFacts
  <2>3. e.data = g
    BY <2>1, <2>2
  <2> QED
    BY <1>1, <2>3, DirectoryFacts DEF g
<1> HIDE DEF e
<1>5. /\ e \in Sorted(K) /\ Count(e) = Count(d) /\ e \in Directories
      /\ \A k \in Valid(e) : Private(e, k).account = Private(d, k).account
      /\ Valid(e) = 1..Count(d) /\ Usable(e)
  BY <1>1, <1>2, MergesFacts DEF e
<1>6. Alike(d, n) = {n}
  <2>1. \A k \in 1..Count(d) : e.data[k] # Deleted
    BY <1>5 DEF Valid
  <2>2. \A k \in 1..Count(d) : d.data[k] = d.data[n] => k = d.data[n]
    BY <1>4, <2>1
  <2> QED
    BY <2>2 DEF Alike
<1>7. \A k \in 1..Count(d) : d.data[k] = d.data[n] <=> k = n
  BY <1>6 DEF Alike
<1>8. \A k \in 1..Count(d) : e.data[k] = IF k = n THEN d.data[o] ELSE d.data[k]
  BY <1>3, <1>5, <1>7
<1>9. \A k \in 1..Count(d) : Private(e, k) = IF k = n \/ k \in Alike(d, o) THEN Both(d, n, o)
                                             ELSE Private(d, k)
  BY <1>3, <1>5, <1>7 DEF Alike
<1>10. \A k \in 1..Count(d) :
         Alike(e, k) = IF k = n \/ k \in Alike(d, o) THEN Alike(d, o) \cup {n} ELSE Alike(d, k)
  <2> SUFFICES ASSUME NEW k \in 1..Count(d)
               PROVE  Alike(e, k) = IF k = n \/ k \in Alike(d, o) THEN Alike(d, o) \cup {n}
                                    ELSE Alike(d, k)
    OBVIOUS
  <2>1. ASSUME NEW j \in 1..Count(d)
        PROVE  j \in Alike(e, k) <=>
                 (IF j = n THEN d.data[o] ELSE d.data[j]) = (IF k = n THEN d.data[o] ELSE d.data[k])
    BY <1>5, <1>8 DEF Alike
  <2>2. CASE k = n \/ k \in Alike(d, o)
    BY <1>5, <2>1, <2>2 DEF Alike
  <2>3. CASE ~(k = n \/ k \in Alike(d, o))
    <3>1. d.data[k] # d.data[o] /\ k # n /\ d.data[k] # d.data[n]
      BY <1>7, <2>3 DEF Alike
    <3> QED
      BY <1>5, <2>1, <3>1 DEF Alike
  <2> QED
    BY <2>2, <2>3
<1>11. Private(e, n).uri \in {Private(d, n).uri, Private(d, o).uri}
  BY <1>9 DEF Both
<1>12. e \in Sound(K)
  BY <1>5 DEF Sound
<1>13. /\ \A u : Wrapper(e, u) = Wrapper(d, u)
       /\ \A k \in 1..Count(d) : AccountOf(e, k) = AccountOf(d, k)
  BY <1>3, <1>5 DEF Wrapper, AccountOf
<1> QED
  BY <1>2, <1>3, <1>5, <1>6, <1>8, <1>9, <1>10, <1>11, <1>12, <1>13 DEF e

\* What n is merged into has to do with the user part that n is listed for, or is listed
\* for its own one, or for none that is a name.
Bridged(d, n, o) ==
  \E v, w \in URI :
    /\ v.host = None /\ n \in List(d, v) /\ o \in List(d, w)
    /\ w.host = None \/ w.user = v.user \/ ~IsName(w.user)

LEMMA UserInfoSame ==
  ASSUME NEW u \in URI, NEW v \in URI, u.user = v.user
  PROVE  /\ UserInfo(u) = UserInfo(v)
         /\ v.host = None => UserInfo(u) = v
<1>1. /\ UserInfo(u) = [user |-> u.user, host |-> None]
      /\ UserInfo(v) = [user |-> v.user, host |-> None]
      /\ v = [user |-> v.user, host |-> v.host]
  BY DEF URI, UserInfo
<1> QED
  BY <1>1

LEMMA MergeOrdered ==
  ASSUME NEW K, NEW d \in Sound(K), Ordered(d), NEW n \in 1..Count(d), NEW o \in 1..Count(d),
         AccountOf(d, n) # None, AccountOf(d, n) = AccountOf(d, o),
         K.C[<<d.numbers[n], AccountOf(d, n)>>] = K.C[<<d.numbers[o], AccountOf(d, n)>>],
         Bridged(d, n, o), Usable(merge(d, n, o))
  PROVE  Ordered(merge(d, n, o))
<1>1. CASE d.data[n] = d.data[o]
  <2>1. merge(d, n, o) = d
    BY <1>1 DEF merge
  <2> QED
    BY <2>1
<1>2. CASE d.data[n] # d.data[o]
  <2> DEFINE e == merge(d, n, o)
             U == Alike(d, o) \cup {n}
  <2>1. /\ e.numbers = d.numbers /\ Count(e) = Count(d)
        /\ \A u : Wrapper(e, u) = Wrapper(d, u) /\ List(e, u) = List(d, u)
        /\ Alike(d, n) = {n}
        /\ \A k \in 1..Count(d) :
             /\ e.data[k] = IF k = n THEN d.data[o] ELSE d.data[k]
             /\ Private(e, k) = IF k \in U THEN Both(d, n, o) ELSE Private(d, k)
             /\ AccountOf(e, k) = AccountOf(d, k)
             /\ Alike(e, k) = IF k \in U THEN U ELSE Alike(d, k)
        /\ Private(e, n).uri \in {Private(d, n).uri, Private(d, o).uri}
    BY <1>2, MergeUsable DEF List
  <2> HIDE DEF e
  <2>2. /\ \A k \in 1..Count(d) : k \in Alike(d, k) /\ Alike(d, k) \subseteq Alike(e, k)
        /\ n \in U /\ o \in U /\ Alike(d, n) \subseteq U /\ Alike(d, o) \subseteq U
        /\ \A k \in Alike(d, o) : Alike(d, k) = Alike(d, o)
        /\ U \subseteq 1..Count(d)
    <3>1. /\ \A k \in 1..Count(d) : k \in Alike(d, k)
          /\ \A k \in Alike(d, o) : Alike(d, k) = Alike(d, o)
          /\ Alike(d, o) \subseteq 1..Count(d)
      BY DEF Alike
    <3>2. n \in U /\ o \in U /\ Alike(d, n) \subseteq U /\ Alike(d, o) \subseteq U
      BY <2>1, <3>1
    <3> QED
      BY <2>1, <3>1, <3>2
  <2> HIDE DEF U
  <2>3. \A u : List(d, u) \subseteq 1..Count(d)
    BY SoundFacts
  <2>4. Fresh(e)
    <3> SUFFICES ASSUME NEW u \in URI, NEW k \in List(d, u), AccountOf(e, k) = None
                 PROVE  /\ \A m \in List(d, u) : ~Precedes(Wrapper(d, u), m, k)
                        /\ d.numbers[k] = u \/ (u.host = None /\ IsName(u.user))
                        /\ u.host # None => List(d, u) = {k}
      BY <2>1 DEF Fresh
    <3>1. AccountOf(d, k) = None
      BY <2>1, <2>3
    <3> QED
      BY <3>1 DEF Ordered, Fresh
  <2>5. Joined(e)
    <3> SUFFICES ASSUME NEW u \in URI, u.host # None, NEW j \in List(d, u), NEW k \in List(d, u),
                        AccountOf(e, j) = AccountOf(e, k)
                 PROVE  e.data[j] = e.data[k]
      BY <2>1 DEF Joined
    <3>1. AccountOf(d, j) = AccountOf(d, k) /\ j \in 1..Count(d) /\ k \in 1..Count(d)
      BY <2>1, <2>3
    <3>2. d.data[j] = d.data[k]
      BY <3>1 DEF Ordered, Joined
    <3>3. j \in Alike(d, n) <=> k \in Alike(d, n)
      BY <3>1, <3>2 DEF Alike
    <3> QED
      BY <2>1, <3>1, <3>2, <3>3
  <2>6. Ranked(e)
    <3> SUFFICES ASSUME NEW u \in URI, u.host = None, NEW j \in List(d, u), NEW k \in List(d, u),
                        Precedes(Wrapper(d, u), j, k)
                 PROVE  /\ AccountOf(e, j) = AccountOf(e, k) =>
                             \A m \in List(d, u) : ~Precedes(Wrapper(d, u), m, j)
                        /\ d.numbers[k] = u =>
                             AccountOf(e, j) \notin {None, AccountOf(e, k)} \/ IsName(u.user)
      BY <2>1 DEF Ranked
    <3>1. AccountOf(e, j) = AccountOf(d, j) /\ AccountOf(e, k) = AccountOf(d, k)
      BY <2>1, <2>3
    <3> QED
      BY <3>1 DEF Ordered, Ranked
  <2>7. Rooted(e)
    BY <2>1 DEF Ordered, Rooted
  <2>8. Linked(e)
    <3> SUFFICES ASSUME NEW u \in URI, u.host # None, NEW m \in List(d, u)
                 PROVE  /\ \E k \in Alike(e, m) : d.numbers[k].user = u.user
                        /\ IsName(u.user) /\ (\E k \in Alike(e, m) : d.numbers[k].user # u.user) =>
                             \E k \in Alike(e, m) : k \in List(d, UserInfo(u))
      BY <2>1 DEF Linked
    <3>1. /\ m \in 1..Count(d)
          /\ \E k \in Alike(d, m) : d.numbers[k].user = u.user
          /\ IsName(u.user) /\ (\E k \in Alike(d, m) : d.numbers[k].user # u.user) =>
               \E k \in Alike(d, m) : k \in List(d, UserInfo(u))
      BY <2>3 DEF Ordered, Linked
    <3>2. \E k \in Alike(e, m) : d.numbers[k].user = u.user
      BY <2>2, <3>1
    <3>3. ASSUME IsName(u.user), NEW p \in Alike(e, m), d.numbers[p].user # u.user
          PROVE  \E k \in Alike(e, m) : k \in List(d, UserInfo(u))
      <4>1. CASE m \notin U
        BY <2>1, <3>1, <3>3, <4>1
      <4>2. CASE m \in U
        <5>1. Alike(e, m) = U /\ p \in U
          BY <2>1, <3>1, <3>3, <4>2
        <5>2. PICK v \in URI, w \in URI :
                /\ v.host = None /\ n \in List(d, v) /\ o \in List(d, w)
                /\ w.host = None \/ w.user = v.user \/ ~IsName(w.user)
          BY DEF Bridged
        <5>3. \A k \in 1..Count(d) : d.numbers[k] \in URI
          BY SoundFacts
        <5>4. CASE m = n
          <6>1. CASE d.numbers[n].user # u.user
            <7>1. \E k \in Alike(d, n) : k \in List(d, UserInfo(u))
              BY <2>2, <3>1, <3>3, <5>4, <6>1
            <7> QED
              BY <2>2, <5>1, <7>1
          <6>2. CASE d.numbers[n].user = u.user
            <7>1. n \in List(d, UserInfo(d.numbers[n]))
              BY <5>2 DEF Ordered, Rooted
            <7>2. UserInfo(d.numbers[n]) = UserInfo(u)
              BY <5>3, <6>2, UserInfoSame
            <7> QED
              BY <2>2, <5>1, <7>1, <7>2
          <6> QED
            BY <6>1, <6>2
        <5>5. CASE m # n
          <6>1. m \in Alike(d, o) /\ Alike(d, m) = Alike(d, o)
            BY <2>2, <4>2, <5>5 DEF U
          <6>2. CASE \E k \in Alike(d, o) : d.numbers[k].user # u.user
            <7>1. \E k \in Alike(d, o) : k \in List(d, UserInfo(u))
              BY <3>1, <3>3, <6>1, <6>2
            <7> QED
              BY <2>2, <5>1, <7>1
          <6>3. CASE \A k \in Alike(d, o) : d.numbers[k].user = u.user
            <7>1. d.numbers[o].user = u.user
              BY <2>2, <6>3
            <7>2. CASE w.host = None
              <8>1. o \in List(d, UserInfo(d.numbers[o]))
                BY <5>2, <7>2 DEF Ordered, Rooted
              <8>2. UserInfo(d.numbers[o]) = UserInfo(u)
                BY <5>3, <7>1, UserInfoSame
              <8> QED
                BY <2>2, <5>1, <8>1, <8>2
            <7>3. CASE w.host # None
              <8>1. \E k \in Alike(d, o) : d.numbers[k].user = w.user
                BY <5>2, <7>3 DEF Ordered, Linked
              <8>2. w.user = u.user
                BY <6>3, <8>1
              <8>3. v.user = u.user
                BY <3>3, <5>2, <7>3, <8>2
              <8>4. UserInfo(u) = v
                BY <5>2, <8>3, UserInfoSame
              <8> QED
                BY <2>2, <5>1, <5>2, <8>4
            <7> QED
              BY <7>2, <7>3
          <6> QED
            BY <6>2, <6>3
        <5> QED
          BY <5>4, <5>5
      <4> QED
        BY <4>1, <4>2
    <3> QED
      BY <3>2, <3>3
  <2>9. Worded(e)
    <3> SUFFICES ASSUME NEW m \in 1..Count(d)
                 PROVE  \E k \in Alike(e, m) : d.numbers[k] = Private(e, m).uri
      BY <2>1 DEF Worded
    <3>1. \A j \in 1..Count(d) : \E k \in Alike(d, j) : d.numbers[k] = Private(d, j).uri
      BY DEF Ordered, Worded
    <3>2. CASE m \in U
      <4>1. Private(e, m).uri = Private(e, n).uri /\ Alike(e, m) = U
        BY <2>1, <2>2, <3>2
      <4> QED
        BY <2>1, <2>2, <3>1, <4>1
    <3>3. CASE m \notin U
      BY <2>1, <3>1, <3>3
    <3> QED
      BY <3>2, <3>3
  <2> QED
    BY <2>4, <2>5, <2>6, <2>7, <2>8, <2>9 DEF Ordered, e
<1> QED
  BY <1>1, <1>2

-----------------------------------------------------------------------------
(* A list gets an object, in order.                                        *)

\* The object n may be the last in the list of u.
Listable(d, u, n) ==
  /\ AccountOf(d, n) = None =>
       List(d, u) = {} /\ (d.numbers[n] = u \/ (u.host = None /\ IsName(u.user)))
  /\ u.host # None =>
       /\ \A m \in List(d, u) :
            /\ AccountOf(d, m) # None
            /\ AccountOf(d, m) = AccountOf(d, n) => d.data[m] = d.data[n]
       /\ \E k \in Alike(d, n) : d.numbers[k].user = u.user
       /\ IsName(u.user) /\ (\E k \in Alike(d, n) : d.numbers[k].user # u.user) =>
            \E k \in Alike(d, n) : k \in List(d, UserInfo(u))
  /\ u.host = None =>
       /\ \A m \in List(d, u) :
            /\ AccountOf(d, m) # AccountOf(d, n)
            /\ d.numbers[n] = u => AccountOf(d, m) # None \/ IsName(u.user)
       /\ UserInfo(d.numbers[n]) = u \/ n \in List(d, UserInfo(d.numbers[n]))

LEMMA ListedOrdered ==
  ASSUME NEW K, NEW d \in Sound(K), NEW u \in URI, NEW n \in 1..Count(d),
         n \notin List(d, u) => Fits(K, d.numbers[n], Private(d, n), u),
         n \notin List(d, u) => Listable(d, u, n)
  PROVE  LET e == Listed(d, u, n)
         IN  /\ e \in Sound(K) /\ e \in Later(K, d) /\ e.numbers = d.numbers
             /\ e.data = d.data /\ e.private = d.private /\ Count(e) = Count(d)
             /\ \A v : v # u => Wrapper(e, v) = Wrapper(d, v)
             /\ List(e, u) = List(d, u) \cup {n}
             /\ \A k : Private(e, k) = Private(d, k) /\ Alike(e, k) = Alike(d, k)
             /\ Ordered(d) => Ordered(e)
<1> DEFINE e == Listed(d, u, n)
<1>1. d \in Sorted(K) /\ n \in Valid(d) /\ Usable(d) /\ d \in Directories
  BY SoundFacts
<1>2. Fits(K, d.numbers[n], Private(d, n), u)
  BY SoundFacts
<1>3. /\ e \in Later(K, d) /\ e.numbers = d.numbers /\ e.data = d.data
      /\ e.private = d.private /\ \A v : v # u => Wrapper(e, v) = Wrapper(d, v)
  BY <1>1, <1>2, ListedSorted
<1>4. n \in List(d, u) => e = d
  BY DEF Listed, List
<1>5. n \notin List(d, u) => Wrapper(e, u) = Append(Wrapper(d, u), n)
  <2> SUFFICES ASSUME n \notin List(d, u) PROVE Wrapper(e, u) = Append(Wrapper(d, u), n)
    OBVIOUS
  <2> DEFINE list == Append(Wrapper(d, u), n)
  <2>1. e = Entered(d, u, list)
    BY DEF List, Listed
  <2>2. list \in Seq(1..Count(d)) /\ list # <<>>
    BY <1>1, ListFacts, AppendProperties
  <2> HIDE DEF list, e
  <2>3. \A v : Wrapper(Entered(d, u, list), v) = IF v = u THEN list ELSE Wrapper(d, v)
    BY <1>1, <2>2, EnteredFacts
  <2>4. Wrapper(e, u) = list
    BY <2>1, <2>3
  <2> QED
    BY <2>4 DEF list
<1> HIDE DEF e
<1>6. /\ e \in Sound(K) /\ Count(e) = Count(d)
      /\ \A k : Private(e, k) = Private(d, k) /\ Alike(e, k) = Alike(d, k)
                /\ AccountOf(e, k) = AccountOf(d, k)
  BY <1>1, <1>3 DEF Sound, Later, Usable, Count, Private, Alike, AccountOf
<1>7. n \notin List(d, u) =>
        /\ List(e, u) = List(d, u) \cup {n}
        /\ \A j, k : Precedes(Wrapper(e, u), j, k) <=>
                       Precedes(Wrapper(d, u), j, k) \/ (j \in List(d, u) /\ k = n)
  <2> DEFINE s == Wrapper(d, u)
             S == 1..Count(d)
  <2>1. s \in Seq(S) /\ n \in S
    BY SoundFacts
  <2> HIDE DEF s, S
  <2>2. ToSet(Append(s, n)) = ToSet(s) \cup {n}
    BY <2>1, AppendedSet
  <2>3. ASSUME NEW j, NEW k
        PROVE  Precedes(Append(s, n), j, k) <=> Precedes(s, j, k) \/ (j \in ToSet(s) /\ k = n)
    BY <2>1, AppendedOrder, Zenon
  <2> QED
    BY <1>5, <2>2, <2>3 DEF List, s
<1>8. List(e, u) = List(d, u) \cup {n}
  BY <1>4, <1>7
<1>9. \A v : v # u => List(e, v) = List(d, v)
  BY <1>3 DEF List
<1>10. ASSUME Ordered(d), n \notin List(d, u) PROVE Ordered(e)
  <2>1. Listable(d, u, n)
    BY <1>10
  <2>2. \A k \in List(d, u) : k # n
    BY <1>10
  <2>3. \A j, k : Precedes(Wrapper(d, u), j, k) => j \in List(d, u) /\ k \in List(d, u)
    <3>1. Wrapper(d, u) \in Seq(1..Count(d))
      BY SoundFacts
    <3> QED
      BY <3>1, PrecedesFacts DEF List
  <2>4. Fresh(e)
    <3> SUFFICES ASSUME NEW v \in URI, NEW k \in List(e, v), AccountOf(d, k) = None
                 PROVE  /\ \A m \in List(e, v) : ~Precedes(Wrapper(e, v), m, k)
                        /\ d.numbers[k] = v \/ (v.host = None /\ IsName(v.user))
                        /\ v.host # None => List(e, v) = {k}
      BY <1>3, <1>6 DEF Fresh
    <3>1. CASE v # u
      BY <1>3, <1>9, <3>1, <1>10 DEF Ordered, Fresh
    <3>2. CASE v = u /\ k = n
      <4>1. List(d, u) = {} /\ (d.numbers[n] = u \/ (u.host = None /\ IsName(u.user)))
        BY <2>1, <3>2 DEF Listable
      <4> QED
        BY <1>7, <1>10, <2>3, <3>2, <4>1
    <3>3. CASE v = u /\ k # n
      <4>1. /\ k \in List(d, u)
            /\ \A m \in List(d, u) : ~Precedes(Wrapper(d, u), m, k)
            /\ d.numbers[k] = u \/ (u.host = None /\ IsName(u.user))
        BY <1>8, <1>10, <3>3 DEF Ordered, Fresh
      <4>2. u.host = None
        BY <2>1, <4>1 DEF Listable
      <4> QED
        BY <1>7, <1>10, <2>3, <3>3, <4>1, <4>2
    <3> QED
      BY <3>1, <3>2, <3>3
  <2>5. Joined(e)
    <3> SUFFICES ASSUME NEW v \in URI, v.host # None, NEW j \in List(e, v), NEW k \in List(e, v),
                        AccountOf(d, j) = AccountOf(d, k)
                 PROVE  d.data[j] = d.data[k]
      BY <1>3, <1>6 DEF Joined
    <3>1. CASE v # u
      BY <1>9, <1>10, <3>1 DEF Ordered, Joined
    <3>2. CASE v = u
      <4>1. \A m \in List(d, u) : AccountOf(d, m) = AccountOf(d, n) => d.data[m] = d.data[n]
        BY <2>1, <3>2 DEF Listable
      <4>2. \A l, m \in List(d, u) : AccountOf(d, l) = AccountOf(d, m) => d.data[l] = d.data[m]
        BY <1>10, <3>2 DEF Ordered, Joined
      <4> QED
        BY <1>8, <3>2, <4>1, <4>2
    <3> QED
      BY <3>1, <3>2
  <2>6. Ranked(e)
    <3> SUFFICES ASSUME NEW v \in URI, v.host = None, NEW j \in List(e, v), NEW k \in List(e, v),
                        Precedes(Wrapper(e, v), j, k)
                 PROVE  /\ AccountOf(d, j) = AccountOf(d, k) =>
                             \A m \in List(e, v) : ~Precedes(Wrapper(e, v), m, j)
                        /\ d.numbers[k] = v =>
                             AccountOf(d, j) \notin {None, AccountOf(d, k)} \/ IsName(v.user)
      BY <1>3, <1>6 DEF Ranked
    <3>1. CASE v # u
      BY <1>3, <1>9, <1>10, <3>1 DEF Ordered, Ranked
    <3>2. CASE v = u /\ k = n
      <4>1. j \in List(d, u)
        BY <1>7, <1>10, <2>3, <3>2
      <4> QED
        BY <2>1, <3>2, <4>1 DEF Listable
    <3>3. CASE v = u /\ k # n
      <4>1. Precedes(Wrapper(d, u), j, k) /\ j \in List(d, u) /\ k \in List(d, u)
        BY <1>7, <1>10, <2>3, <3>3
      <4>2. /\ AccountOf(d, j) = AccountOf(d, k) =>
                 \A m \in List(d, u) : ~Precedes(Wrapper(d, u), m, j)
            /\ d.numbers[k] = u =>
                 AccountOf(d, j) \notin {None, AccountOf(d, k)} \/ IsName(u.user)
        BY <1>10, <3>3, <4>1 DEF Ordered, Ranked
      <4>3. \A m : Precedes(Wrapper(e, u), m, j) =>
                     m \in List(d, u) /\ Precedes(Wrapper(d, u), m, j)
        BY <1>7, <1>10, <2>2, <2>3, <4>1
      <4> QED
        BY <3>3, <4>2, <4>3
    <3> QED
      BY <3>1, <3>2, <3>3
  <2>7. \A v : List(d, v) \subseteq List(e, v)
    BY <1>8, <1>9
  <2>8. Rooted(e)
    <3> SUFFICES ASSUME NEW v \in URI, v.host = None, NEW k \in List(e, v)
                 PROVE  k \in List(e, UserInfo(d.numbers[k]))
      BY <1>3 DEF Rooted
    <3>1. CASE k \in List(d, v)
      BY <1>10, <2>7, <3>1 DEF Ordered, Rooted
    <3>2. CASE k \notin List(d, v)
      <4>1. v = u /\ k = n
        BY <1>8, <1>9, <3>2
      <4> QED
        BY <1>8, <2>1, <2>7, <4>1 DEF Listable
    <3> QED
      BY <3>1, <3>2
  <2>9. Linked(e)
    <3> SUFFICES ASSUME NEW v \in URI, v.host # None, NEW m \in List(e, v)
                 PROVE  /\ \E k \in Alike(d, m) : d.numbers[k].user = v.user
                        /\ IsName(v.user) /\ (\E k \in Alike(d, m) : d.numbers[k].user # v.user) =>
                             \E k \in Alike(d, m) : k \in List(e, UserInfo(v))
      BY <1>3, <1>6 DEF Linked
    <3>1. CASE m \in List(d, v)
      BY <1>10, <2>7, <3>1 DEF Ordered, Linked
    <3>2. CASE m \notin List(d, v)
      <4>1. v = u /\ m = n
        BY <1>8, <1>9, <3>2
      <4> QED
        BY <2>1, <2>7, <4>1 DEF Listable
    <3> QED
      BY <3>1, <3>2
  <2>10. Worded(e)
    BY <1>3, <1>6, <1>10 DEF Ordered, Worded
  <2> QED
    BY <2>4, <2>5, <2>6, <2>8, <2>9, <2>10 DEF Ordered
<1> QED
  BY <1>3, <1>4, <1>6, <1>8, <1>10 DEF e

-----------------------------------------------------------------------------
(* An object is created, in order.                                         *)

LEMMA MadeOrdered ==
  ASSUME NEW K, NEW d \in Sound(K), NEW u \in URI, NEW a \in Account \cup {None},
         a # None => <<u, a>> \in K.P
  PROVE  LET e == Made(d, u, a)
             n == Count(d) + 1
         IN  /\ e \in Sound(K) /\ e \in Later(K, d) /\ Count(e) = n /\ n \in 1..n
             /\ 1..Count(d) \subseteq 1..n
             /\ \A v : Wrapper(e, v) = Wrapper(d, v) /\ n \notin List(d, v)
             /\ e.directory = d.directory
             /\ \A k \in 1..Count(d) : /\ e.numbers[k] = d.numbers[k] /\ e.data[k] = d.data[k]
                                       /\ Private(e, k) = Private(d, k)
                                       /\ Alike(e, k) = Alike(d, k)
             /\ e.numbers[n] = u /\ Alike(e, n) = {n} /\ e.data[n] = n
             /\ Private(e, n) = [uri |-> u, account |-> a, registeredName |-> None]
             /\ Ordered(d) => Ordered(e)
<1> DEFINE e == Made(d, u, a)
           n == Count(d) + 1
<1>1. /\ d \in Sorted(K) /\ Valid(d) = 1..Count(d) /\ Count(d) \in Nat /\ d \in Directories
      /\ \A k \in 1..Count(d) : d.data[k] \in 1..Count(d)
      /\ \A v : List(d, v) \subseteq 1..Count(d)
  BY SoundFacts
<1>2. /\ e \in Later(K, d) /\ e.numbers[n] = u /\ e.directory = d.directory /\ Count(e) = n
      /\ Private(e, n) = [uri |-> u, account |-> a, registeredName |-> None]
      /\ e.data[n] = n /\ \A k \in 1..Count(d) : e.data[k] = d.data[k]
      /\ \A k \in 1..Count(d) : Private(e, k) = Private(d, k)
  BY <1>1, MadeSorted
<1> HIDE DEF e
<1>3. /\ \A k \in 1..n : k \in 1..Count(d) \/ k = n
      /\ n \in 1..n /\ n \notin 1..Count(d) /\ 1..Count(d) \subseteq 1..n /\ n # 0
      /\ \A k \in 1..Count(d) : k # 0
  BY <1>1
<1>4. /\ \A v : Wrapper(e, v) = Wrapper(d, v) /\ n \notin List(d, v)
  BY <1>1, <1>2, <1>3 DEF Wrapper
<1>5. \A k \in 1..Count(d) : e.numbers[k] = d.numbers[k]
  BY <1>2 DEF Later
<1>6. e \in Sorted(K) /\ e \in Directories
  BY <1>2 DEF Later, Sorted
<1>7. Usable(e)
  <2>1. \A k \in 1..n : e.data[k] # 0
    BY <1>1, <1>2, <1>3
  <2>2. Valid(e) = 1..n
    BY <1>2, <2>1 DEF Valid, Deleted
  <2> QED
    BY <1>2, <1>6, <2>2, UsableIsValid
<1>8. /\ \A k \in 1..Count(d) : Alike(e, k) = Alike(d, k)
      /\ Alike(e, n) = {n}
  <2>1. \A k \in 1..Count(d) : e.data[k] \in 1..Count(d) /\ e.data[k] # n
    BY <1>1, <1>2, <1>3
  <2> HIDE DEF n
  <2> QED
    BY <1>2, <1>3, <2>1 DEF Alike
<1> HIDE DEF n
<1>9. ASSUME Ordered(d) PROVE Ordered(e)
  <2>1. /\ \A v : List(e, v) = List(d, v)
        /\ \A v : \A k \in List(d, v) :
             /\ k \in 1..Count(d) /\ AccountOf(e, k) = AccountOf(d, k)
             /\ e.numbers[k] = d.numbers[k] /\ e.data[k] = d.data[k]
             /\ Alike(e, k) = Alike(d, k)
             /\ \A j \in Alike(d, k) : e.numbers[j] = d.numbers[j]
    <3>1. \A v : List(e, v) = List(d, v)
      BY <1>4 DEF List
    <3>2. \A k : Alike(d, k) \subseteq 1..Count(d)
      BY DEF Alike
    <3>3. \A k \in 1..Count(d) : AccountOf(e, k) = AccountOf(d, k)
      BY <1>2 DEF AccountOf
    <3> QED
      BY <1>1, <1>2, <1>5, <1>8, <3>1, <3>2, <3>3
  <2>2. Fresh(e)
    <3> SUFFICES ASSUME NEW v \in URI, NEW k \in List(d, v), AccountOf(d, k) = None
                 PROVE  /\ \A m \in List(d, v) : ~Precedes(Wrapper(d, v), m, k)
                        /\ d.numbers[k] = v \/ (v.host = None /\ IsName(v.user))
                        /\ v.host # None => List(d, v) = {k}
      BY <1>4, <2>1 DEF Fresh
    <3> QED
      BY <1>9 DEF Ordered, Fresh
  <2>3. Joined(e)
    <3> SUFFICES ASSUME NEW v \in URI, v.host # None, NEW j \in List(d, v), NEW k \in List(d, v),
                        AccountOf(d, j) = AccountOf(d, k)
                 PROVE  d.data[j] = d.data[k]
      BY <2>1 DEF Joined
    <3> QED
      BY <1>9 DEF Ordered, Joined
  <2>4. Ranked(e)
    <3> SUFFICES ASSUME NEW v \in URI, v.host = None, NEW j \in List(d, v), NEW k \in List(d, v),
                        Precedes(Wrapper(d, v), j, k)
                 PROVE  /\ AccountOf(d, j) = AccountOf(d, k) =>
                             \A m \in List(d, v) : ~Precedes(Wrapper(d, v), m, j)
                        /\ d.numbers[k] = v =>
                             AccountOf(d, j) \notin {None, AccountOf(d, k)} \/ IsName(v.user)
      BY <1>4, <2>1 DEF Ranked
    <3> QED
      BY <1>9 DEF Ordered, Ranked
  <2>5. Rooted(e)
    BY <1>9, <2>1 DEF Ordered, Rooted
  <2>6. Linked(e)
    BY <1>9, <2>1 DEF Ordered, Linked
  <2>7. Worded(e)
    <3> SUFFICES ASSUME NEW m \in 1..n PROVE \E k \in Alike(e, m) : e.numbers[k] = Private(e, m).uri
      BY <1>2 DEF Worded
    <3>1. CASE m = n
      BY <1>2, <1>8, <3>1
    <3>2. CASE m \in 1..Count(d)
      <4>1. PICK k \in Alike(d, m) : d.numbers[k] = Private(d, m).uri
        BY <1>9, <3>2 DEF Ordered, Worded
      <4>2. k \in 1..Count(d)
        BY DEF Alike
      <4> QED
        BY <1>2, <1>5, <1>8, <3>2, <4>1, <4>2
    <3> QED
      BY <1>3, <3>1, <3>2
  <2> QED
    BY <2>2, <2>3, <2>4, <2>5, <2>6, <2>7 DEF Ordered
<1>10. e \in Sound(K)
  BY <1>6, <1>7 DEF Sound
<1> QED
  BY <1>2, <1>3, <1>4, <1>5, <1>8, <1>9, <1>10 DEF e, n

-----------------------------------------------------------------------------

\* Nothing of the directory is an answer for u and a.
Unanswered(d, u, a) ==
  /\ \A m \in List(d, u) : ~Compatible(d, m, u, a) /\ ~Suits(d, m, a)
  /\ a # None /\ u.host # None => \A m \in List(d, UserInfo(u)) : AccountOf(d, m) # a

LEMMA UnansweredFacts ==
  ASSUME NEW K, NEW d \in Sound(K), Ordered(d), NEW u \in URI, NEW a, Unanswered(d, u, a),
         NEW m \in List(d, u)
  PROVE  /\ a # None /\ AccountOf(d, m) # a
         /\ AccountOf(d, m) = None => u.host = None /\ IsName(u.user)
<1>1. m \in 1..Count(d) /\ ~Compatible(d, m, u, a) /\ ~Suits(d, m, a)
  BY SoundFacts DEF Unanswered
<1>2. a # None /\ AccountOf(d, m) # a
  BY <1>1 DEF Suits, AccountOf
<1>3. ASSUME AccountOf(d, m) = None, d.numbers[m] = u PROVE FALSE
  <2>1. Private(d, m).uri = u /\ Private(d, m).account = None
    BY <1>1, <1>3, AloneWithoutAccount DEF AccountOf
  <2> QED
    BY <1>1, <2>1 DEF Compatible
<1>4. AccountOf(d, m) = None => d.numbers[m] = u \/ (u.host = None /\ IsName(u.user))
  BY DEF Ordered, Fresh
<1> QED
  BY <1>2, <1>3, <1>4

LEMMA ListedGrows ==
  ASSUME NEW K, NEW d \in Sound(K), NEW u \in URI, NEW n \in 1..Count(d)
  PROVE  \A v : List(d, v) \subseteq List(Listed(d, u, n), v)
<1>1. CASE n \in List(d, u)
  BY <1>1 DEF Listed, List
<1>2. CASE n \notin List(d, u)
  <2> DEFINE s == Wrapper(d, u)
             S == 1..Count(d)
             list == Append(s, n)
  <2>1. s \in Seq(S) /\ n \in S /\ d \in Directories
    BY SoundFacts
  <2> HIDE DEF s, S
  <2>2. list \in Seq(S) /\ list # <<>> /\ ToSet(list) = ToSet(s) \cup {n}
    BY <2>1, AppendProperties, AppendedSet
  <2> HIDE DEF list
  <2>3. \A v : Wrapper(Entered(d, u, list), v) = IF v = u THEN list ELSE Wrapper(d, v)
    BY <2>1, <2>2, EnteredFacts DEF S
  <2>4. Listed(d, u, n) = Entered(d, u, list)
    BY <1>2 DEF Listed, List, list, s
  <2> QED
    BY <2>2, <2>3, <2>4 DEF List, s
<1> QED
  BY <1>1, <1>2

LEMMA CreateOrdered ==
  ASSUME NEW K, Classes(K), NEW d \in Sound(K), Ordered(d), NEW u, NEW a, Asked(K, u, a),
         Unanswered(d, u, a)
  PROVE  LET e == Create(d, u, a)
             n == Count(d) + 1
         IN  /\ e \in Sound(K) /\ Ordered(e) /\ Count(e) = n /\ n \in 1..n
             /\ e.numbers[n] = u /\ e.data[n] = n /\ Alike(e, n) = {n}
             /\ Private(e, n).uri = u /\ AccountOf(e, n) = a
             /\ \A k \in 1..Count(d) : Private(e, k) = Private(d, k)
             /\ List(e, u) = List(d, u) \cup {n}
             /\ List(e, UserInfo(u)) \subseteq List(d, UserInfo(u)) \cup {n}
             /\ \A v : v \notin {u, UserInfo(u)} => Wrapper(e, v) = Wrapper(d, v)
<1> DEFINE n == Count(d) + 1
           w == UserInfo(u)
           made == Made(d, u, a)
           named == Listed(made, w, n)
           most == IF a # None /\ u \notin DOMAIN d.directory THEN named ELSE made
           e == Listed(most, u, n)
<1>1. /\ u \in URI /\ a \in Account \cup {None} /\ (a # None => <<u, a>> \in K.P)
      /\ w \in URI /\ w.host = None /\ w.user = u.user
      /\ u.host = None => w = u
  <2>1. /\ u \in URI /\ a \in Account \cup {None} /\ (a # None => <<u, a>> \in K.P)
    BY DEF Asked
  <2> QED
    BY <2>1, UserInfoFacts, UserInfoSame
<1>2. e = Create(d, u, a) /\ Count(d) \in Nat
  <2>1. Create(d, u, a) = e
    BY DEF Create, Made, Count
  <2> QED
    BY <2>1, SoundFacts
<1>3. /\ made \in Sound(K) /\ Ordered(made) /\ Count(made) = n /\ n \in 1..n
      /\ 1..Count(d) \subseteq 1..n
      /\ \A v : Wrapper(made, v) = Wrapper(d, v) /\ n \notin List(d, v)
      /\ \A k \in 1..Count(d) : /\ made.numbers[k] = d.numbers[k]
                                /\ Private(made, k) = Private(d, k)
      /\ made.numbers[n] = u /\ Alike(made, n) = {n} /\ made.data[n] = n
      /\ Private(made, n) = [uri |-> u, account |-> a, registeredName |-> None]
      /\ made.directory = d.directory
  BY <1>1, MadeOrdered
<1> HIDE DEF n, made
<1>4. /\ \A v : List(made, v) = List(d, v) /\ List(d, v) \subseteq 1..Count(d)
      /\ \A k \in 1..Count(d) : AccountOf(made, k) = AccountOf(d, k)
      /\ AccountOf(made, n) = a
  <2>1. \A v : List(d, v) \subseteq 1..Count(d)
    BY SoundFacts
  <2> QED
    BY <1>3, <2>1 DEF List, AccountOf
<1>5. u \notin DOMAIN d.directory => List(d, u) = {}
  BY SoundFacts, ListFacts DEF List
<1>6. /\ most \in Sound(K) /\ Ordered(most) /\ Count(most) = n
      /\ most.numbers = made.numbers /\ most.data = made.data /\ most.private = made.private
      /\ \A v : v # w => Wrapper(most, v) = Wrapper(d, v)
      /\ List(most, w) \subseteq List(d, w) \cup {n}
      /\ n \in List(most, u) => u = w /\ most = named
  <2>1. CASE most = named /\ a # None /\ u \notin DOMAIN d.directory
    <3>1. Fits(K, made.numbers[n], Private(made, n), w)
      <4>1. K.C[<<w, a>>] = K.C[<<u, a>>]
        BY <1>1, <2>1 DEF Classes
      <4> QED
        BY <1>3, <2>1, <4>1 DEF Fits, Prospects
    <3>2. Listable(made, w, n)
      <4>1. \A m \in List(d, w) : AccountOf(d, m) # a
        BY <1>1, <1>5, <2>1 DEF Unanswered
      <4>2. u = w => List(d, w) = {}
        BY <1>5, <2>1
      <4>3. UserInfo(made.numbers[n]) = w
        BY <1>3
      <4> HIDE DEF w
      <4> QED
        BY <1>1, <1>3, <1>4, <2>1, <4>1, <4>2, <4>3 DEF Listable
    <3>3. /\ named \in Sound(K) /\ named.numbers = made.numbers
          /\ named.data = made.data /\ named.private = made.private /\ Count(named) = Count(made)
          /\ \A v : v # w => Wrapper(named, v) = Wrapper(made, v)
          /\ List(named, w) = List(made, w) \cup {n}
          /\ Ordered(made) => Ordered(named)
      <4> HIDE DEF w
      <4> QED
        BY <1>1, <1>3, <3>1, <3>2, ListedOrdered
    <3> HIDE DEF named, most, w
    <3> QED
      BY <1>3, <1>4, <2>1, <3>3 DEF List
  <2>2. CASE most = made
    <3> HIDE DEF named, most, w
    <3> QED
      BY <1>3, <1>4, <2>2 DEF List
  <2> QED
    BY <2>1, <2>2
<1>11. List(d, u) \subseteq List(most, u)
  <2>1. List(made, u) \subseteq List(named, u)
    BY <1>1, <1>3, ListedGrows
  <2>2. most = made \/ most = named
    OBVIOUS
  <2> HIDE DEF named, most
  <2> QED
    BY <1>4, <2>1, <2>2
<1> HIDE DEF most, named
<1>7. /\ \A k : Alike(most, k) = Alike(made, k) /\ Private(most, k) = Private(made, k)
                /\ AccountOf(most, k) = AccountOf(made, k)
  BY <1>6 DEF Alike, Private, AccountOf, Count
<1>8. Fits(K, most.numbers[n], Private(most, n), u)
  BY <1>3, <1>6, <1>7 DEF Fits
<1>9. n \notin List(most, u) => Listable(most, u, n)
  <2> SUFFICES ASSUME n \notin List(most, u) PROVE Listable(most, u, n)
    OBVIOUS
  <2>1. List(most, u) = List(d, u)
    <3>1. CASE u # w
      BY <1>6, <3>1 DEF List
    <3>2. CASE u = w
      <4>1. List(most, u) \subseteq List(d, u)
        BY <1>6, <3>2
      <4> QED
        BY <1>11, <4>1
    <3> QED
      BY <3>1, <3>2
  <2>2. \A m \in List(d, u) :
          /\ a # None /\ AccountOf(most, m) # a
          /\ AccountOf(most, m) = None => u.host = None /\ IsName(u.user)
    <3> SUFFICES ASSUME NEW m \in List(d, u)
                 PROVE  /\ a # None /\ AccountOf(most, m) # a
                        /\ AccountOf(most, m) = None => u.host = None /\ IsName(u.user)
      OBVIOUS
    <3>1. AccountOf(most, m) = AccountOf(d, m)
      BY <1>4, <1>7
    <3> QED
      BY <1>1, <3>1, UnansweredFacts
  <2>3. most.numbers[n] = u /\ AccountOf(most, n) = a /\ Alike(most, n) = {n}
    BY <1>3, <1>4, <1>6, <1>7
  <2>4. u.host = None => UserInfo(most.numbers[n]) = u
    BY <1>1, <2>3
  <2> QED
    BY <2>1, <2>2, <2>3, <2>4 DEF Listable
<1>10. /\ e \in Sound(K) /\ e.numbers = most.numbers
       /\ e.data = most.data /\ e.private = most.private /\ Count(e) = Count(most)
       /\ \A v : v # u => Wrapper(e, v) = Wrapper(most, v)
       /\ List(e, u) = List(most, u) \cup {n}
       /\ \A k : Private(e, k) = Private(most, k) /\ Alike(e, k) = Alike(most, k)
       /\ Ordered(e)
  <2>1. n \in 1..Count(most)
    BY <1>3, <1>6
  <2> QED
    BY <1>1, <1>6, <1>8, <1>9, <2>1, ListedOrdered
<1> HIDE DEF e
<1>15. List(e, u) = List(d, u) \cup {n}
  <2>1. CASE u # w
    BY <1>6, <1>10, <2>1 DEF List
  <2>2. CASE u = w
    BY <1>6, <1>10, <1>11, <2>2
  <2> QED
    BY <2>1, <2>2
<1>12. List(e, w) \subseteq List(d, w) \cup {n}
  <2>1. CASE u # w
    BY <1>6, <1>10, <2>1 DEF List
  <2> QED
    BY <1>15, <2>1
<1>13. \A v : v \notin {u, w} => Wrapper(e, v) = Wrapper(d, v)
  BY <1>6, <1>10
<1>14. \A k \in 1..Count(d) : Private(e, k) = Private(d, k)
  BY <1>3, <1>7, <1>10
<1>16. Private(e, n).uri = u /\ AccountOf(e, n) = a
  BY <1>3, <1>7, <1>10 DEF AccountOf
<1> QED
  BY <1>2, <1>3, <1>6, <1>7, <1>10, <1>15, <1>12, <1>13, <1>14, <1>16 DEF n

-----------------------------------------------------------------------------
(* An object gets an account, and is merged with what is listed, in order. *)

\* Those of S that have account a are merged, and D are those of them that n is not
\* merged with.
Apart(K, d, n, a, S, D) ==
  /\ d \in Sound(K) /\ n \in 1..Count(d) /\ a # None /\ AccountOf(d, n) = a
  /\ S \subseteq 1..Count(d) /\ D \subseteq S
  /\ \A k \in S : k \in D <=> AccountOf(d, k) = a /\ d.data[n] # d.data[k]
  /\ \A j, k \in S : AccountOf(d, j) = a /\ AccountOf(d, k) = a => d.data[j] = d.data[k]
  /\ \A k \in S : AccountOf(d, k) = a => K.C[<<d.numbers[n], a>>] = K.C[<<d.numbers[k], a>>]

\* Then n is merged with one of D, if there is any.
LEMMA AllMergedWithOne ==
  ASSUME NEW K, NEW d, NEW n, NEW a, NEW S, NEW D, Apart(K, d, n, a, S, D), NEW s \in Seq(S)
  PROVE  \/ AllMergedWith(d, n, a, s) = d /\ \A k \in 1..Len(s) : s[k] \notin D
         \/ \E k \in D : AllMergedWith(d, n, a, s) = merge(d, n, k)
<1> USE DEF Apart
<1> DEFINE U == {d} \cup {merge(d, n, k) : k \in D}
           G == [i \in 0..Len(s) |-> {x \in U : x = d => \A j \in 1..i : s[j] \notin D}]
<1>1. /\ Len(s) \in Nat /\ \A k \in 1..Len(s) : s[k] \in S
      /\ D \subseteq S /\ D \subseteq 1..Count(d)
  <2>1. Len(s) \in Nat /\ \A k \in 1..Len(s) : s[k] \in S
    OBVIOUS
  <2> QED
    BY <2>1
<1>2. \A k \in 1..Count(d) : d.data[n] = d.data[k] => merge(d, n, k) = d
  BY DEF merge
<1>3. ASSUME NEW k \in D, Usable(merge(d, n, k))
      PROVE  LET e == merge(d, n, k)
             IN  /\ e # d
                 /\ \A j \in 1..Count(d) :
                      /\ e.data[j] = IF j = n THEN d.data[k] ELSE d.data[j]
                      /\ AccountOf(e, j) = AccountOf(d, j)
  <2> DEFINE e == merge(d, n, k)
  <2>2. /\ d.data[n] # d.data[k] /\ k \in 1..Count(d) /\ AccountOf(d, k) = a
        /\ K.C[<<d.numbers[n], a>>] = K.C[<<d.numbers[k], a>>]
    BY <1>1
  <2>1. \A j \in 1..Count(d) :
          /\ e.data[j] = IF j = n THEN d.data[k] ELSE d.data[j]
          /\ AccountOf(e, j) = AccountOf(d, j)
    BY <1>3, <2>2, MergeUsable
  <2>3. e.data[n] # d.data[n]
    BY <2>1, <2>2
  <2> HIDE DEF e
  <2>4. e # d
    BY <2>3
  <2> QED
    BY <2>1, <2>4 DEF e
<1>4. ASSUME NEW k \in D PROVE merge(d, n, k) # d
  <2>1. Usable(d)
    BY SoundFacts
  <2> QED
    BY <1>3, <2>1
<1>5. ASSUME NEW k \in S
      PROVE  /\ MergedWith(d, k, n, a) \in U
             /\ MergedWith(d, k, n, a) = d => k \notin D
  <2>1. Usable(d) /\ k \in 1..Count(d)
    BY SoundFacts
  <2>2. CASE k \in D
    <3>1. k # n
      BY <2>2
    <3>2. MergedWith(d, k, n, a) = merge(d, n, k)
      BY <2>1, <2>2, <3>1 DEF MergedWith, AccountOf
    <3> QED
      BY <1>4, <2>2, <3>2
  <2>3. CASE k \notin D
    <3>1. MergedWith(d, k, n, a) = d
      BY <1>2, <2>1, <2>3 DEF MergedWith, AccountOf
    <3> QED
      BY <2>3, <3>1
  <2> QED
    BY <2>2, <2>3
<1>6. ASSUME NEW m \in D, NEW k \in S
      PROVE  MergedWith(merge(d, n, m), k, n, a) = merge(d, n, m)
  <2> DEFINE e == merge(d, n, m)
  <2>1. SUFFICES ASSUME Usable(e), k # n, Private(e, k).account = a
                 PROVE  merge(e, n, k) = e
    BY DEF MergedWith
  <2>2. /\ e.data[n] = d.data[m] /\ e.data[k] = d.data[k] /\ AccountOf(d, k) = a
    BY <1>3, <2>1 DEF AccountOf
  <2>3. d.data[m] = d.data[k]
    BY <2>2
  <2> HIDE DEF e
  <2> QED
    BY <2>2, <2>3 DEF merge
<1>7. d \in U /\ \A x \in U, k \in S : MergedWith(x, k, n, a) \in U
  BY <1>5, <1>6
<1>8. \A i \in 0..Len(s) : G[i] = {x \in U : x = d => \A j \in 1..i : s[j] \notin D}
  OBVIOUS
<1>9. \A x \in U : x # d => \E m \in D : x = merge(d, n, m)
  OBVIOUS
<1> HIDE DEF G, U
<1>10. d \in G[0]
  BY <1>1, <1>7, <1>8
<1>11. ASSUME NEW x \in U, NEW i \in 1..Len(s), x \in G[i - 1]
       PROVE  MergedWith(x, s[i], n, a) \in G[i]
  <2> DEFINE y == MergedWith(x, s[i], n, a)
  <2>1. /\ i - 1 \in 0..Len(s) /\ i \in 0..Len(s)
        /\ \A j \in 1..i : j = i \/ j \in 1..(i - 1)
    BY <1>1
  <2>2. y \in U /\ s[i] \in S
    BY <1>1, <1>7
  <2>3. ASSUME y = d PROVE \A j \in 1..i : s[j] \notin D
    <3>1. x = d
      <4>1. SUFFICES ASSUME x # d PROVE FALSE
        OBVIOUS
      <4>2. PICK m \in D : x = merge(d, n, m)
        BY <1>9, <4>1
      <4>3. y = merge(d, n, m)
        BY <1>6, <2>2, <4>2
      <4> HIDE DEF y
      <4> QED
        BY <1>4, <2>3, <4>3
    <3>2. s[i] \notin D
      BY <1>5, <2>2, <2>3, <3>1
    <3>3. \A j \in 1..(i - 1) : s[j] \notin D
      BY <1>8, <1>11, <2>1, <3>1
    <3> QED
      BY <2>1, <3>2, <3>3
  <2> QED
    BY <1>8, <2>1, <2>2, <2>3
<1>12. AllMergedWith(d, n, a, s) \in G[Len(s)]
  BY <1>7, <1>10, <1>11, AllMergedWithAdvances
<1>13. Len(s) \in 0..Len(s)
  BY <1>1
<1> QED
  BY <1>8, <1>9, <1>12, <1>13

-----------------------------------------------------------------------------

LEMMA SetAccountOrdered ==
  ASSUME NEW K, Classes(K), NEW d \in Sound(K), Ordered(d), NEW n \in 1..Count(d),
         NEW a \in Account, AccountOf(d, n) \in {None, a},
         AccountOf(d, n) = None => <<d.numbers[n], a>> \in K.P,
         NEW u \in URI, u.host = None, Private(d, n).uri = u, n \in List(d, u),
         \A m \in List(d, Extended(u, a)) : AccountOf(d, m) # None,
         Usable(setAccount(d, n, a))
  PROVE  LET e == setAccount(d, n, a)
             v == Extended(u, a)
         IN  /\ e \in Sound(K) /\ Ordered(e) /\ e.numbers = d.numbers /\ Count(e) = Count(d)
             /\ \A w : w # v => Wrapper(e, w) = Wrapper(d, w)
             /\ List(e, v) = List(d, v) \cup {n}
             /\ \A k \in 1..Count(d) : AccountOf(e, k) = IF k = n THEN a ELSE AccountOf(d, k)
             /\ \A j, k \in 1..Count(d) : d.data[j] = d.data[k] => e.data[j] = e.data[k]
             /\ \/ Private(e, n).uri = u
                \/ \E k \in List(d, v) :
                     /\ k # n /\ AccountOf(d, k) = a /\ e.data[k] = e.data[n]
                     /\ d.data[k] # d.data[n] /\ Alike(d, n) = {n}
                     /\ Private(e, n).uri = Private(d, k).uri
<1> DEFINE v == Extended(u, a)
           g == Given(d, n, a)
           S == List(d, v)
           D == {k \in S : AccountOf(g, k) = a /\ g.data[n] # g.data[k]}
           f == AllMergedWith(g, n, a, Wrapper(d, v))
           e == setAccount(d, n, a)
<1>1. /\ a # None /\ v \in URI /\ v.host # None /\ v.user = u.user /\ UserInfo(v) = u
  <2>1. a # None /\ v \in URI /\ v.host # None /\ v.user = u.user
    BY ExtendedFacts, DirectoryConstants
  <2> QED
    BY <2>1, UserInfoSame
<1>2. e = Listed(f, v, n)
  BY DEF setAccount, Given, AllMergedWith
<1>3. /\ g \in Sound(K) /\ Ordered(g) /\ g.numbers = d.numbers /\ g.data = d.data
      /\ Count(g) = Count(d) /\ \A w : Wrapper(g, w) = Wrapper(d, w)
      /\ \A k \in 1..Count(d) : k # n => Private(g, k) = Private(d, k)
      /\ AccountOf(g, n) = a /\ Private(g, n).uri = u
  BY GivenOrdered
<1> HIDE DEF g, v, e
<1>4. /\ \A w : List(g, w) = List(d, w)
      /\ \A k : Alike(g, k) = Alike(d, k)
      /\ \A k \in 1..Count(d) : AccountOf(g, k) = IF k = n THEN a ELSE AccountOf(d, k)
  BY <1>3 DEF List, Alike, AccountOf
<1>5. /\ S \subseteq 1..Count(d) /\ Wrapper(d, v) \in Seq(S) /\ n \in 1..Count(g)
      /\ g \in Sorted(K) /\ n \in Valid(g)
  <2>1. S \subseteq 1..Count(d) /\ n \in 1..Count(g) /\ g \in Sorted(K) /\ n \in Valid(g)
    BY <1>3, SoundFacts
  <2>2. Wrapper(d, v) \in Seq(1..Count(d))
    BY SoundFacts
  <2> QED
    BY <2>1, <2>2, SequenceOfItsSet DEF List
<1>6. K.C[<<g.numbers[n], a>>] = K.C[<<v, a>>]
  <2>1. Consistent(K, n, g.numbers[n], g.data[n], Private(g, n))
    BY <1>3, <1>5, SoundFacts
  <2>2. K.C[<<g.numbers[n], a>>] = K.C[<<u, a>>]
    BY <1>3, <2>1 DEF Consistent, AccountOf
  <2>3. K.C[<<v, a>>] = K.C[<<u, a>>]
    BY DEF Classes, v
  <2> QED
    BY <2>2, <2>3
<1>7. ASSUME NEW k \in S, AccountOf(g, k) = a
      PROVE  /\ k \in 1..Count(g) /\ K.C[<<g.numbers[n], a>>] = K.C[<<g.numbers[k], a>>]
             /\ \A j \in S : AccountOf(g, j) = a => g.data[j] = g.data[k]
  <2>1. k \in 1..Count(g) /\ k \in List(g, v)
    BY <1>3, <1>4, <1>5
  <2>2. Fits(K, g.numbers[k], Private(g, k), v)
    BY <1>3, <2>1, SoundFacts
  <2>3. K.C[<<g.numbers[k], a>>] = K.C[<<v, a>>]
    BY <1>1, <1>7, <2>2 DEF Fits, Prospects, AccountOf
  <2>4. \A j \in S : AccountOf(g, j) = a => g.data[j] = g.data[k]
    BY <1>1, <1>3, <1>4, <1>7 DEF Ordered, Joined
  <2> QED
    BY <1>6, <2>1, <2>3, <2>4
<1>8. \/ f = g /\ \A k \in S : k \notin D
      \/ \E k \in D : f = merge(g, n, k)
  <2> DEFINE s == Wrapper(d, v)
  <2>1. /\ S \subseteq 1..Count(g) /\ s \in Seq(S)
        /\ \A j, k \in S : AccountOf(g, j) = a /\ AccountOf(g, k) = a => g.data[j] = g.data[k]
        /\ \A k \in S : AccountOf(g, k) = a => K.C[<<g.numbers[n], a>>] = K.C[<<g.numbers[k], a>>]
    BY <1>3, <1>5, <1>7
  <2>2. \A k \in S : \E j \in 1..Len(s) : s[j] = k
    <3>1. S = {s[j] : j \in DOMAIN s} /\ DOMAIN s = 1..Len(s)
      BY <1>5 DEF List, ToSet
    <3> HIDE DEF s
    <3> QED
      BY <3>1
  <2> HIDE DEF s, S, D
  <2>4. D \in SUBSET S /\ \A k \in S : k \in D <=> AccountOf(g, k) = a /\ g.data[n] # g.data[k]
    BY DEF D
  <2>3. \/ AllMergedWith(g, n, a, s) = g /\ \A k \in 1..Len(s) : s[k] \notin D
        \/ \E k \in D : AllMergedWith(g, n, a, s) = merge(g, n, k)
    <3>1. a # None /\ g \in Sound(K) /\ n \in 1..Count(g) /\ AccountOf(g, n) = a
      BY <1>1, <1>3, <1>5
    <3>2. Apart(K, g, n, a, S, D)
      BY <2>1, <2>4, <3>1 DEF Apart
    <3> QED
      BY <2>1, <3>2, AllMergedWithOne
  <2> QED
    BY <2>2, <2>3 DEF s
<1>9. f \in Sorted(K) /\ Count(f) = Count(g) /\ Usable(f)
  <2>1. AllMergedWith(g, n, a, Wrapper(g, v)) \in Merges(K, g)
    <3>1. Private(g, n).account = a
      BY <1>3 DEF AccountOf
    <3> QED
      BY <1>1, <1>5, <1>6, <3>1, MergedWithListed
  <2>2. f \in Merges(K, g)
    BY <1>3, <2>1
  <2> HIDE DEF f
  <2>3. /\ f \in Sorted(K) /\ f.numbers = g.numbers /\ Count(f) = Count(g)
        /\ \A k \in Valid(f) : Private(f, k).account = Private(g, k).account
    BY <1>5, <2>2, MergesFacts
  <2>4. n \in Valid(f) => Fits(K, f.numbers[n], Private(f, n), v)
    <3> SUFFICES ASSUME n \in Valid(f) PROVE Fits(K, f.numbers[n], Private(f, n), v)
      OBVIOUS
    <3>1. Private(f, n).account = a
      BY <1>3, <2>3 DEF AccountOf
    <3> QED
      BY <1>1, <1>6, <2>3, <3>1 DEF Fits, Prospects
  <2>5. e.data = f.data
    <3>1. n \in 1..Count(f)
      BY <1>5, <2>3
    <3> QED
      BY <1>1, <1>2, <2>3, <2>4, <3>1, ListedSorted
  <2>6. Usable(e)
    BY DEF e
  <2> QED
    BY <2>3, <2>5, <2>6 DEF Usable
<1>10. /\ f \in Sound(K) /\ Ordered(f) /\ f.numbers = g.numbers
       /\ \A w : Wrapper(f, w) = Wrapper(g, w)
       /\ \A k \in 1..Count(g) : AccountOf(f, k) = AccountOf(g, k)
       /\ \A j, k \in 1..Count(g) : g.data[j] = g.data[k] => f.data[j] = f.data[k]
       /\ Alike(g, n) \subseteq Alike(f, n)
       /\ \A k \in S : AccountOf(g, k) = a => f.data[k] = f.data[n]
       /\ \/ Private(f, n).uri = u
          \/ \E k \in D : /\ f.data[k] = f.data[n] /\ Alike(g, n) = {n}
                          /\ Private(f, n).uri = Private(g, k).uri
  <2>1. CASE f = g /\ \A k \in S : k \notin D
    <3>1. \A k \in S : AccountOf(g, k) = a => g.data[k] = g.data[n]
      BY <2>1
    <3> HIDE DEF f, S, D
    <3> QED
      BY <1>3, <2>1, <3>1
  <2>2. CASE \E k \in D : f = merge(g, n, k)
    <3> PICK k \in D : f = merge(g, n, k)
      BY <2>2
    <3>1. /\ k \in S /\ AccountOf(g, k) = a /\ g.data[n] # g.data[k] /\ k # n
          /\ k \in 1..Count(g) /\ K.C[<<g.numbers[n], a>>] = K.C[<<g.numbers[k], a>>]
          /\ \A j \in S : AccountOf(g, j) = a => g.data[j] = g.data[k]
      BY <1>7
    <3> HIDE DEF f, S, D
    <3>2. Bridged(g, n, k)
      <4>1. n \in List(g, u) /\ k \in List(g, v)
        BY <1>4, <3>1 DEF S
      <4> QED
        BY <1>1, <4>1 DEF Bridged
    <3>3. Ordered(f)
      BY <1>1, <1>3, <1>5, <1>9, <3>1, <3>2, MergeOrdered
    <3>4. /\ f \in Sound(K) /\ f.numbers = g.numbers
          /\ \A w : Wrapper(f, w) = Wrapper(g, w)
          /\ Alike(g, n) = {n}
          /\ \A j \in 1..Count(g) :
               /\ f.data[j] = IF j = n THEN g.data[k] ELSE g.data[j]
               /\ AccountOf(f, j) = AccountOf(g, j)
          /\ n \in Alike(f, n)
          /\ Private(f, n).uri \in {Private(g, n).uri, Private(g, k).uri}
      <4>1. /\ f \in Sound(K) /\ f.numbers = g.numbers
            /\ \A w : Wrapper(f, w) = Wrapper(g, w)
            /\ Alike(g, n) = {n}
            /\ \A j \in 1..Count(g) :
                 /\ f.data[j] = IF j = n THEN g.data[k] ELSE g.data[j]
                 /\ AccountOf(f, j) = AccountOf(g, j)
            /\ Private(f, n).uri \in {Private(g, n).uri, Private(g, k).uri}
        BY <1>1, <1>3, <1>5, <1>9, <3>1, MergeUsable
      <4> QED
        BY <1>5, <1>9, <4>1 DEF Alike
    <3>5. \A j \in 1..Count(g) : g.data[j] = g.data[n] => j = n
      BY <3>4 DEF Alike
    <3>6. \A i, j \in 1..Count(g) : g.data[i] = g.data[j] => f.data[i] = f.data[j]
      BY <3>4, <3>5
    <3>7. \A j \in S : AccountOf(g, j) = a => f.data[j] = f.data[n]
      BY <1>3, <1>5, <3>1, <3>4
    <3>8. f.data[k] = f.data[n]
      BY <1>5, <3>1, <3>4
    <3>9. \/ Private(f, n).uri = u
          \/ \E j \in D : /\ f.data[j] = f.data[n] /\ Alike(g, n) = {n}
                          /\ Private(f, n).uri = Private(g, j).uri
      BY <1>3, <3>4, <3>8
    <3> QED
      BY <3>3, <3>4, <3>6, <3>7, <3>9
  <2> QED
    BY <1>8, <2>1, <2>2
<1>11. \A k \in D : /\ k \in S /\ k # n /\ AccountOf(d, k) = a /\ d.data[k] # d.data[n]
                    /\ Private(g, k) = Private(d, k)
  <2> SUFFICES ASSUME NEW k \in D
               PROVE  /\ k \in S /\ k # n /\ AccountOf(d, k) = a /\ d.data[k] # d.data[n]
                      /\ Private(g, k) = Private(d, k)
    OBVIOUS
  <2>1. k \in S /\ AccountOf(g, k) = a /\ d.data[k] # d.data[n] /\ k \in 1..Count(d)
    BY <1>3, <1>5
  <2> QED
    BY <1>3, <1>4, <2>1
<1> HIDE DEF D, f
<1>12. Fits(K, f.numbers[n], Private(f, n), v) /\ Listable(f, v, n)
  <2>1. AccountOf(f, n) = a /\ Count(f) = Count(d)
    BY <1>3, <1>5, <1>9, <1>10
  <2>2. Fits(K, f.numbers[n], Private(f, n), v)
    BY <1>1, <1>6, <1>10, <2>1 DEF Fits, Prospects, AccountOf
  <2>3. \A w : List(f, w) = List(d, w)
    BY <1>3, <1>10 DEF List
  <2>4. \A m \in S : AccountOf(f, m) # None /\ (AccountOf(f, m) = a => f.data[m] = f.data[n])
    <3> SUFFICES ASSUME NEW m \in S
                 PROVE  AccountOf(f, m) # None /\ (AccountOf(f, m) = a => f.data[m] = f.data[n])
      OBVIOUS
    <3>1. m \in 1..Count(g) /\ AccountOf(d, m) # None
      BY <1>3, <1>5 DEF v
    <3> QED
      BY <1>1, <1>3, <1>4, <1>10, <3>1
  <2>5. \E k \in Alike(f, n) : f.numbers[k].user = v.user
    <3>1. \E k \in Alike(g, n) : g.numbers[k] = u
      BY <1>3, <1>5 DEF Ordered, Worded
    <3> QED
      BY <1>1, <1>10, <3>1
  <2>6. \E k \in Alike(f, n) : k \in List(f, UserInfo(v))
    BY <1>1, <1>9, <1>5, <2>3 DEF Alike
  <2> QED
    BY <1>1, <2>1, <2>2, <2>3, <2>4, <2>5, <2>6 DEF Listable, S
<1>13. /\ e \in Sound(K) /\ e.numbers = f.numbers
       /\ e.data = f.data /\ e.private = f.private /\ Count(e) = Count(f)
       /\ \A w : w # v => Wrapper(e, w) = Wrapper(f, w)
       /\ List(e, v) = List(f, v) \cup {n}
       /\ \A k : Private(e, k) = Private(f, k)
       /\ Ordered(e)
  <2>1. n \in 1..Count(f)
    BY <1>5, <1>9
  <2> QED
    BY <1>1, <1>2, <1>10, <1>12, <2>1, ListedOrdered
<1>14. /\ \A w : w # v => Wrapper(e, w) = Wrapper(d, w)
       /\ List(e, v) = List(d, v) \cup {n}
  BY <1>3, <1>10, <1>13 DEF List
<1>15. \A k \in 1..Count(d) : AccountOf(e, k) = IF k = n THEN a ELSE AccountOf(d, k)
  BY <1>3, <1>4, <1>10, <1>13 DEF AccountOf
<1>16. \A j, k \in 1..Count(d) : d.data[j] = d.data[k] => e.data[j] = e.data[k]
  BY <1>3, <1>10, <1>13
<1>17. \/ Private(e, n).uri = u
       \/ \E k \in S :
            /\ k # n /\ AccountOf(d, k) = a /\ e.data[k] = e.data[n]
            /\ d.data[k] # d.data[n] /\ Alike(d, n) = {n}
            /\ Private(e, n).uri = Private(d, k).uri
  BY <1>4, <1>10, <1>11, <1>13
<1> QED
  BY <1>3, <1>9, <1>10, <1>13, <1>14, <1>15, <1>16, <1>17 DEF S, v, e

-----------------------------------------------------------------------------
(* The answers, one by one.                                                *)

\* Nobody asks with an account for an address of another host.
Homed(K) == \A q \in K.P : q[1].host \in {None, HostOf[q[2]]}

LEMMA HomedFacts ==
  ASSUME NEW K, Homed(K), NEW u, NEW a, Asked(K, u, a), a # None
  PROVE  /\ a \in Account /\ u \in URI /\ u.host \in {None, HostOf[a]}
         /\ u.host # None => Extended(u, a) = u
         /\ u.host = None => Extended(u, a) # u
<1>1. a \in Account /\ u \in URI /\ <<u, a>> \in K.P
  BY DEF Asked
<1>2. u.host \in {None, HostOf[a]}
  BY <1>1 DEF Homed
<1>3. Extended(u, a).host = HostOf[a] /\ HostOf[a] # None
  BY <1>1, ExtendedFacts
<1>4. u.host = HostOf[a] => Extended(u, a) = u
  BY <1>1 DEF Extended, URI
<1> QED
  BY <1>1, <1>2, <1>3, <1>4

LEMMA FirstCandidate ==
  ASSUME NEW K, NEW d \in Sound(K), NEW u, NEW a
  PROVE  LET n == Candidate(d, u, a)
         IN  /\ n # None => n \in List(d, u) /\ Compatible(d, n, u, a)
             /\ n = None => \A m \in List(d, u) : ~Compatible(d, m, u, a)
<1> DEFINE T == {n \in DOMAIN d.data : Compatible(d, n, u, a)}
           n == First(Wrapper(d, u), T)
<1>1. /\ Wrapper(d, u) \in Seq(1..Count(d)) /\ Count(d) \in Nat
      /\ List(d, u) \subseteq 1..Count(d) /\ DOMAIN d.data = 1..Count(d)
  <2>1. /\ Wrapper(d, u) \in Seq(1..Count(d)) /\ Count(d) \in Nat /\ d \in Directories
        /\ List(d, u) \subseteq 1..Count(d)
    BY SoundFacts
  <2> QED
    BY <2>1, DirectoryFacts
<1>2. \A k : k \in T <=> k \in 1..Count(d) /\ Compatible(d, k, u, a)
  BY <1>1
<1> HIDE DEF T
<1>3. /\ n = None => List(d, u) \cap T = {}
      /\ n # None => n \in List(d, u) \cap T
  BY <1>1, FirstIsFirst DEF List
<1>4. n = Candidate(d, u, a)
  BY DEF Candidate, T
<1> HIDE DEF n
<1> QED
  BY <1>1, <1>2, <1>3, <1>4

LEMMA FirstSuitable ==
  ASSUME NEW K, NEW d \in Sound(K), NEW u, NEW a
  PROVE  LET n == First(Wrapper(d, u), Suitable(d, a))
         IN  /\ n # None =>
                  /\ n \in List(d, u) /\ Suits(d, n, a)
                  /\ \A k \in List(d, u) : Suits(d, k, a) => k = n \/ Precedes(Wrapper(d, u), n, k)
             /\ n = None => \A k \in List(d, u) : ~Suits(d, k, a)
<1> DEFINE T == Suitable(d, a)
           n == First(Wrapper(d, u), T)
<1>1. /\ Wrapper(d, u) \in Seq(1..Count(d)) /\ Count(d) \in Nat
      /\ List(d, u) \subseteq 1..Count(d) /\ DOMAIN d.data = 1..Count(d)
  <2>1. /\ Wrapper(d, u) \in Seq(1..Count(d)) /\ Count(d) \in Nat /\ d \in Directories
        /\ List(d, u) \subseteq 1..Count(d)
    BY SoundFacts
  <2> QED
    BY <2>1, DirectoryFacts
<1>2. \A k : k \in T <=> k \in 1..Count(d) /\ Suits(d, k, a)
  BY <1>1 DEF Suitable
<1> HIDE DEF T
<1>3. /\ n = None => List(d, u) \cap T = {}
      /\ n # None => /\ n \in List(d, u) \cap T
                     /\ \A k \in List(d, u) \cap T : k = n \/ Precedes(Wrapper(d, u), n, k)
  BY <1>1, FirstIsFirst DEF List
<1> HIDE DEF n
<1> QED
  BY <1>1, <1>2, <1>3 DEF n, T

\* The object n is an answer for the address u with a host.
Hosted(K, d, u, a, n) ==
  /\ Classes(K) /\ d \in Sound(K) /\ Ordered(d) /\ Asked(K, u, a)
  /\ a # None /\ u.host # None /\ n \in List(d, u) /\ Compatible(d, n, u, a)

\* It gets the account, and is not merged with anything.
LEMMA FillHosted ==
  ASSUME NEW K, NEW d, NEW u, NEW a, NEW n, Hosted(K, d, u, a, n)
  PROVE  LET e == Given(d, n, a)
         IN  /\ n \in 1..Count(d) /\ a \in Account
             /\ fillDetails(d, n, a) = e
             /\ e \in Sound(K) /\ Ordered(e) /\ e.numbers = d.numbers
             /\ e.data = d.data /\ Count(e) = Count(d)
             /\ \A v : Wrapper(e, v) = Wrapper(d, v) /\ List(e, v) = List(d, v)
             /\ AccountOf(e, n) = a /\ Private(e, n).uri = Private(d, n).uri
             /\ Compatible(e, n, u, a)
<1> USE DEF Hosted
<1>1. /\ n \in 1..Count(d) /\ u \in URI /\ a \in Account /\ <<u, a>> \in K.P
      /\ AccountOf(d, n) \in {None, a}
  BY SoundFacts DEF Asked, Compatible, AccountOf
<1>2. /\ AccountOf(d, n) = None => <<d.numbers[n], a>> \in K.P
      /\ fillDetails(d, n, a) = Given(d, n, a)
  <2>1. CASE Private(d, n).uri = u
    <3>1. fillDetails(d, n, a) = Given(d, n, a)
      BY <2>1 DEF fillDetails, setAccount, Given
    <3>2. AccountOf(d, n) = None => d.numbers[n] = u
      BY <1>1, <2>1, AloneWithoutAccount
    <3> QED
      BY <1>1, <3>1, <3>2
  <2>2. CASE Private(d, n).uri # u
    <3>1. AccountOf(d, n) = a /\ Extended(Private(d, n).uri, a) = u
      BY <1>1, <2>2 DEF Compatible, AccountOf
    <3>2. Given(d, n, a) = d
      BY <1>1, <3>1, GivenOrdered
    <3> DEFINE S == List(d, u)
               D == {}
               s == Wrapper(d, u)
               f == AllMergedWith(d, n, a, s)
    <3>3. setAccount(d, n, a) \in {d, Listed(f, u, n)}
      BY <3>1, <3>2 DEF setAccount, AllMergedWith, Given
    <3>4. s \in Seq(S)
      <4>1. Wrapper(d, u) \in Seq(1..Count(d))
        BY SoundFacts
      <4> QED
        BY <4>1, SequenceOfItsSet DEF List
    <3>5. Apart(K, d, n, a, S, D)
      <4>1. S \subseteq 1..Count(d) /\ n \in S
        BY SoundFacts
      <4>2. \A j, k \in S : AccountOf(d, j) = a /\ AccountOf(d, k) = a => d.data[j] = d.data[k]
        BY <1>1 DEF Ordered, Joined
      <4>3. \A k \in S : AccountOf(d, k) = a => K.C[<<d.numbers[k], a>>] = K.C[<<u, a>>]
        <5> SUFFICES ASSUME NEW k \in S, AccountOf(d, k) = a
                     PROVE  K.C[<<d.numbers[k], a>>] = K.C[<<u, a>>]
          OBVIOUS
        <5>1. Fits(K, d.numbers[k], Private(d, k), u)
          BY <4>1, SoundFacts
        <5> QED
          BY <5>1 DEF Fits, Prospects, AccountOf
      <4>4. K.C[<<d.numbers[n], a>>] = K.C[<<u, a>>]
        BY <3>1, <4>1, <4>3
      <4> HIDE DEF S
      <4> QED
        BY <1>1, <3>1, <4>1, <4>2, <4>3, <4>4 DEF Apart
    <3> HIDE DEF S, s
    <3>6. f = d
      BY <3>4, <3>5, AllMergedWithOne
    <3>7. Listed(d, u, n) = d
      BY DEF Listed, List
    <3>8. setAccount(d, n, a) = d
      BY <3>3, <3>6, <3>7
    <3>9. fillDetails(d, n, a) = Given(d, n, a)
      BY <3>2, <3>8 DEF fillDetails
    <3> QED
      BY <1>1, <3>1, <3>9
  <2> QED
    BY <2>1, <2>2
<1> DEFINE e == Given(d, n, a)
<1>3. /\ e \in Sound(K) /\ e.numbers = d.numbers /\ e.data = d.data /\ Count(e) = Count(d)
      /\ \A v : Wrapper(e, v) = Wrapper(d, v)
      /\ AccountOf(e, n) = a /\ Private(e, n).uri = Private(d, n).uri /\ Ordered(e)
      /\ AccountOf(d, n) = a => e = d
  BY <1>1, <1>2, GivenOrdered
<1> HIDE DEF e
<1>4. Compatible(e, n, u, a)
  BY <1>3 DEF Compatible, AccountOf
<1>5. \A v : List(e, v) = List(d, v)
  BY <1>3 DEF List
<1> QED
  BY <1>1, <1>2, <1>3, <1>4, <1>5 DEF e

-----------------------------------------------------------------------------

\* What is listed for the address without a host, and suits.
Short(d, u, a) == First(Wrapper(d, UserInfo(u)), Suitable(d, a))

\* The answer f is listed for the address with the host of the account.
ByHost(d, u, a, f) ==
  /\ u.host = None /\ a # None
  /\ f.number \in List(d, Extended(u, a)) /\ Compatible(d, f.number, Extended(u, a), a)
  /\ f.dir = Given(d, f.number, a)

NoneByHost(d, u, a) ==
  u.host = None /\ a # None =>
    \A m \in List(d, Extended(u, a)) : ~Compatible(d, m, Extended(u, a), a)

\* It is listed for the text.
ByText(d, u, a, f) ==
  /\ u.host = None /\ a # None /\ NoneByHost(d, u, a)
  /\ f.number \in List(d, u) /\ Compatible(d, f.number, u, a)
  /\ f.dir = setAccount(d, f.number, a)

ByAddress(d, u, a, f) ==
  LET e == Given(d, f.number, a)
  IN  /\ u.host # None /\ a # None
      /\ f.number \in List(d, u) /\ Compatible(d, f.number, u, a)
      /\ f.dir = IF Short(e, u, a) = None THEN e ELSE merge(e, Short(e, u, a), f.number)

Unmatched(d, u, a) == \A m \in List(d, u) : ~Compatible(d, m, u, a)

\* Nothing changes.
ByShort(d, u, a, f) ==
  /\ u.host # None /\ a # None /\ Unmatched(d, u, a)
  /\ f.number = Short(d, u, a) /\ f.number # None /\ f.dir = d

ByAny(d, u, a, f) ==
  /\ a # None /\ NoneByHost(d, u, a) /\ Unmatched(d, u, a)
  /\ u.host # None => Short(d, u, a) = None
  /\ f.number = First(Wrapper(d, u), Suitable(d, a)) /\ f.number # None /\ f.dir = d

Plain(d, u, a, f) == a = None /\ f.dir = d /\ f.number \in List(d, u)

ByCreation(d, u, a, f) ==
  /\ NoneByHost(d, u, a) /\ Unanswered(d, u, a)
  /\ f.dir = Create(d, u, a) /\ f.number = Count(d) + 1

LEMMA AnswerCases ==
  ASSUME NEW K, Classes(K), Homed(K), NEW d \in Sound(K), Ordered(d), NEW u, NEW a,
         Asked(K, u, a)
  PROVE  LET f == getNumber(d, u, a)
         IN  \/ ByHost(d, u, a, f) \/ ByText(d, u, a, f) \/ ByAddress(d, u, a, f)
             \/ ByShort(d, u, a, f) \/ ByAny(d, u, a, f) \/ Plain(d, u, a, f)
             \/ ByCreation(d, u, a, f)
<1> DEFINE host   == IF u.host = None /\ a # None THEN Candidate(d, Extended(u, a), a) ELSE None
           exact  == Candidate(d, u, a)
           filled == IF exact = None THEN d ELSE fillDetails(d, exact, a)
           short  == IF a # None /\ u = Extended(u, a) /\ Usable(filled)
                       THEN First(Wrapper(filled, UserInfo(u)), Suitable(filled, a)) ELSE None
           any    == First(Wrapper(d, u), Suitable(d, a))
           f      == getNumber(d, u, a)
<1>1. /\ host # None => f.dir = fillDetails(d, host, a) /\ f.number = host
      /\ host = None /\ exact # None =>
           /\ f.dir = IF short = None THEN filled ELSE merge(filled, short, exact)
           /\ f.number = exact
      /\ host = None /\ exact = None /\ short # None => f.dir = d /\ f.number = short
      /\ host = None /\ exact = None /\ short = None /\ any # None =>
           f.dir = d /\ f.number = any
      /\ host = None /\ exact = None /\ short = None /\ any = None =>
           f.dir = Create(d, u, a) /\ f.number = Count(d) + 1
  BY DEF getNumber, Count
<1> HIDE DEF f
<1>2. /\ u \in URI /\ a \in Account \cup {None} /\ (a # None => <<u, a>> \in K.P)
      /\ Usable(d)
  BY SoundFacts DEF Asked
<1>3. /\ u.host = None /\ a # None =>
           \/ host # None /\ host \in List(d, Extended(u, a))
              /\ Compatible(d, host, Extended(u, a), a)
           \/ host = None /\ NoneByHost(d, u, a)
      /\ ~(u.host = None /\ a # None) => host = None /\ NoneByHost(d, u, a)
  BY FirstCandidate DEF NoneByHost
<1>4. \/ exact # None /\ exact \in List(d, u) /\ Compatible(d, exact, u, a)
      \/ exact = None /\ \A m \in List(d, u) : ~Compatible(d, m, u, a)
  BY FirstCandidate
<1>5. \/ any # None /\ any \in List(d, u)
      \/ any = None /\ \A m \in List(d, u) : ~Suits(d, m, a)
  BY FirstSuitable
<1>6. Short(d, u, a) = None => \A m \in List(d, UserInfo(u)) : ~Suits(d, m, a)
  BY FirstSuitable DEF Short
<1>7. a # None => (u = Extended(u, a) <=> u.host # None)
  BY HomedFacts
<1>8. ASSUME host # None PROVE ByHost(d, u, a, f)
  <2>1. /\ u.host = None /\ a # None /\ host \in List(d, Extended(u, a))
        /\ Compatible(d, host, Extended(u, a), a)
    BY <1>3, <1>8
  <2> DEFINE v == Extended(u, a)
  <2>2. Asked(K, v, a) /\ v.host # None
    <3>1. v \in URI /\ v.host # None
      BY <1>2, <2>1, ExtendedFacts
    <3>2. <<v, a>> \in K.P
      BY <1>2, <2>1 DEF Classes
    <3> QED
      BY <1>2, <3>1, <3>2 DEF Asked
  <2>4. a # None /\ host \in List(d, v) /\ Compatible(d, host, v, a)
    BY <2>1
  <2> HIDE DEF v, host, exact, filled, short, any
  <2>3. fillDetails(d, host, a) = Given(d, host, a)
    <3>1. Hosted(K, d, v, a, host)
      BY <2>2, <2>4 DEF Hosted
    <3> QED
      BY <3>1, FillHosted
  <2> QED
    BY <1>1, <1>8, <2>1, <2>3 DEF ByHost
<1>9. ASSUME host = None, exact # None, a # None
      PROVE  ByText(d, u, a, f) \/ ByAddress(d, u, a, f)
  <2>1. exact \in List(d, u) /\ Compatible(d, exact, u, a) /\ filled = fillDetails(d, exact, a)
    BY <1>4, <1>9
  <2>2. CASE u.host = None
    <3>1. short = None /\ fillDetails(d, exact, a) = setAccount(d, exact, a)
      BY <1>7, <1>9, <2>2 DEF fillDetails
    <3>2. NoneByHost(d, u, a)
      BY <1>3, <1>9
    <3>3. f.dir = setAccount(d, exact, a) /\ f.number = exact
      BY <1>1, <1>9, <2>1, <3>1
    <3> HIDE DEF exact, filled, short, host, any
    <3> QED
      BY <1>9, <2>1, <2>2, <3>2, <3>3 DEF ByText
  <2>3. CASE u.host # None
    <3> HIDE DEF exact, filled
    <3>5. Hosted(K, d, u, a, exact)
      BY <1>9, <2>1, <2>3 DEF Hosted
    <3>1. filled = Given(d, exact, a)
      BY <2>1, <3>5, FillHosted
    <3>2. Usable(filled)
      <4>1. Given(d, exact, a) \in Sound(K)
        BY <3>5, FillHosted
      <4> QED
        BY <3>1, <4>1, SoundFacts
    <3>3. short = Short(filled, u, a)
      BY <1>7, <1>9, <2>3, <3>2 DEF Short
    <3>4. /\ f.dir = IF short = None THEN filled ELSE merge(filled, short, exact)
          /\ f.number = exact
      BY <1>1, <1>9
    <3> HIDE DEF short, host, any
    <3> QED
      BY <1>9, <2>1, <2>3, <3>1, <3>3, <3>4 DEF ByAddress
  <2> QED
    BY <2>2, <2>3
<1>10. ASSUME host = None, exact # None, a = None PROVE Plain(d, u, a, f)
  <2>1. filled = d /\ short = None /\ exact \in List(d, u)
    BY <1>4, <1>10 DEF fillDetails
  <2> QED
    BY <1>1, <1>10, <2>1 DEF Plain
<1>11. ASSUME host = None, exact = None
       PROVE  /\ a # None /\ u.host # None => short = Short(d, u, a)
              /\ ~(a # None /\ u.host # None) => short = None
  BY <1>2, <1>7, <1>11 DEF Short
<1>12. ASSUME host = None, exact = None, short # None PROVE ByShort(d, u, a, f)
  <2>1. Unmatched(d, u, a)
    BY <1>4, <1>12 DEF Unmatched
  <2> HIDE DEF host, exact, filled, short, any
  <2> QED
    BY <1>1, <1>11, <1>12, <2>1 DEF ByShort
<1>13. ASSUME host = None, exact = None, short = None, any # None
       PROVE  ByAny(d, u, a, f) \/ Plain(d, u, a, f)
  <2>1. f.dir = d /\ f.number = any /\ any \in List(d, u) /\ NoneByHost(d, u, a)
    BY <1>1, <1>3, <1>5, <1>13
  <2>2. a # None /\ u.host # None => Short(d, u, a) = None
    BY <1>11, <1>13
  <2>3. Unmatched(d, u, a)
    BY <1>4, <1>13 DEF Unmatched
  <2> QED
    BY <1>13, <2>1, <2>2, <2>3 DEF ByAny, Plain
<1>14. ASSUME host = None, exact = None, short = None, any = None
       PROVE  ByCreation(d, u, a, f)
  <2>1. f.dir = Create(d, u, a) /\ f.number = Count(d) + 1 /\ NoneByHost(d, u, a)
    BY <1>1, <1>3, <1>14
  <2>2. \A m \in List(d, u) : ~Compatible(d, m, u, a) /\ ~Suits(d, m, a)
    BY <1>4, <1>5, <1>14
  <2>3. a # None /\ u.host # None => \A m \in List(d, UserInfo(u)) : AccountOf(d, m) # a
    <3> SUFFICES ASSUME a # None, u.host # None, NEW m \in List(d, UserInfo(u))
                 PROVE  AccountOf(d, m) # a
      OBVIOUS
    <3>1. ~Suits(d, m, a)
      BY <1>6, <1>11, <1>14
    <3> QED
      BY <3>1 DEF Suits, AccountOf
  <2> HIDE DEF host, exact, filled, short, any
  <2> QED
    BY <2>1, <2>2, <2>3 DEF ByCreation, Unanswered
<1> HIDE DEF host, exact, filled, short, any
<1> QED
  BY <1>8, <1>9, <1>10, <1>12, <1>13, <1>14 DEF f

-----------------------------------------------------------------------------
(* What an answer leaves, in order.                                        *)

\* The object n is an answer for the address u without a host.
Unhosted(K, d, u, a, n) ==
  /\ Classes(K) /\ Homed(K) /\ d \in Sound(K) /\ Ordered(d) /\ Asked(K, u, a)
  /\ a # None /\ u.host = None /\ NoneByHost(d, u, a)
  /\ n \in List(d, u) /\ Compatible(d, n, u, a)

LEMMA UnhostedFacts ==
  ASSUME NEW K, NEW d, NEW u, NEW a, NEW n, Unhosted(K, d, u, a, n)
  PROVE  /\ n \in 1..Count(d) /\ a \in Account /\ u \in URI
         /\ AccountOf(d, n) \in {None, a} /\ Private(d, n).uri = u
         /\ \A m \in List(d, Extended(u, a)) : AccountOf(d, m) # None
<1> USE DEF Unhosted
<1>1. /\ n \in 1..Count(d) /\ a \in Account /\ u \in URI
      /\ AccountOf(d, n) \in {None, a} /\ AccountOf(d, n) = Private(d, n).account
      /\ Private(d, n).uri \in URI
  BY SoundFacts DEF Asked, Compatible, AccountOf
<1>2. Private(d, n).uri = u
  <2>1. SUFFICES ASSUME AccountOf(d, n) = a, Extended(Private(d, n).uri, a) = u PROVE FALSE
    BY <1>1 DEF Compatible
  <2>2. u.host = HostOf[a] /\ HostOf[a] # None
    BY <1>1, <2>1, ExtendedFacts
  <2> QED
    BY <2>2
<1>3. ASSUME NEW m \in List(d, Extended(u, a)), AccountOf(d, m) = None PROVE FALSE
  <2> DEFINE v == Extended(u, a)
  <2>1. v \in URI /\ v.host # None /\ m \in 1..Count(d)
    BY <1>1, ExtendedFacts, SoundFacts
  <2>2. d.numbers[m] = v
    BY <1>3, <2>1 DEF Ordered, Fresh
  <2>3. Private(d, m).uri = v /\ Private(d, m).account = None
    BY <1>3, <2>1, <2>2, AloneWithoutAccount DEF AccountOf
  <2>4. Compatible(d, m, v, a)
    BY <2>3 DEF Compatible
  <2> QED
    BY <1>3, <2>4 DEF NoneByHost
<1> QED
  BY <1>1, <1>2, <1>3

LEMMA FillUnhosted ==
  ASSUME NEW K, NEW d, NEW u, NEW a, NEW n, Unhosted(K, d, u, a, n),
         Usable(setAccount(d, n, a))
  PROVE  LET e == setAccount(d, n, a)
             v == Extended(u, a)
         IN  /\ e \in Sound(K) /\ Ordered(e) /\ e.numbers = d.numbers /\ Count(e) = Count(d)
             /\ \A w : w # v => Wrapper(e, w) = Wrapper(d, w) /\ List(e, w) = List(d, w)
             /\ List(e, v) = List(d, v) \cup {n}
             /\ \A k \in 1..Count(d) : AccountOf(e, k) = IF k = n THEN a ELSE AccountOf(d, k)
             /\ \A j, k \in 1..Count(d) : d.data[j] = d.data[k] => e.data[j] = e.data[k]
             /\ \/ Private(e, n).uri = u
                \/ \E k \in List(d, v) :
                     /\ k # n /\ AccountOf(d, k) = a /\ e.data[k] = e.data[n]
                     /\ d.data[k] # d.data[n] /\ Alike(d, n) = {n}
                     /\ Private(e, n).uri = Private(d, k).uri
<1>1. /\ n \in 1..Count(d) /\ a \in Account /\ u \in URI
      /\ AccountOf(d, n) \in {None, a} /\ Private(d, n).uri = u
      /\ \A m \in List(d, Extended(u, a)) : AccountOf(d, m) # None
  BY UnhostedFacts
<1>2. /\ Classes(K) /\ d \in Sound(K) /\ Ordered(d) /\ u.host = None /\ n \in List(d, u)
  BY DEF Unhosted
<1>3. AccountOf(d, n) = None => <<d.numbers[n], a>> \in K.P
  <2>1. AccountOf(d, n) = None => d.numbers[n] = u
    BY <1>1, <1>2, AloneWithoutAccount
  <2> QED
    BY <2>1 DEF Unhosted, Asked
<1> DEFINE e == setAccount(d, n, a)
           v == Extended(u, a)
<1>4. /\ e \in Sound(K) /\ Ordered(e) /\ e.numbers = d.numbers /\ Count(e) = Count(d)
      /\ \A w : w # v => Wrapper(e, w) = Wrapper(d, w)
      /\ List(e, v) = List(d, v) \cup {n}
      /\ \A k \in 1..Count(d) : AccountOf(e, k) = IF k = n THEN a ELSE AccountOf(d, k)
      /\ \A j, k \in 1..Count(d) : d.data[j] = d.data[k] => e.data[j] = e.data[k]
      /\ \/ Private(e, n).uri = u
         \/ \E k \in List(d, v) :
              /\ k # n /\ AccountOf(d, k) = a /\ e.data[k] = e.data[n]
              /\ d.data[k] # d.data[n] /\ Alike(d, n) = {n}
              /\ Private(e, n).uri = Private(d, k).uri
  BY <1>1, <1>2, <1>3, SetAccountOrdered
<1> HIDE DEF e, v
<1>5. \A w : w # v => List(e, w) = List(d, w)
  BY <1>4 DEF List
<1> QED
  BY <1>4, <1>5 DEF e, v

\* The object s is listed for the address u without its host, and o for u.
Twins(K, d, u, a, s, o) ==
  /\ Classes(K) /\ d \in Sound(K) /\ Ordered(d) /\ Asked(K, u, a) /\ a # None
  /\ s \in List(d, UserInfo(u)) /\ o \in List(d, u)
  /\ AccountOf(d, s) = a /\ AccountOf(d, o) = a

LEMMA TwinsMerged ==
  ASSUME NEW K, NEW d, NEW u, NEW a, NEW s, NEW o, Twins(K, d, u, a, s, o),
         Usable(merge(d, s, o))
  PROVE  LET e == merge(d, s, o)
         IN  /\ e \in Sound(K) /\ Ordered(e) /\ e.numbers = d.numbers /\ Count(e) = Count(d)
             /\ \A w : Wrapper(e, w) = Wrapper(d, w) /\ List(e, w) = List(d, w)
             /\ \A k \in 1..Count(d) : AccountOf(e, k) = AccountOf(d, k)
             /\ \A j, k \in 1..Count(d) : d.data[j] = d.data[k] => e.data[j] = e.data[k]
             /\ e.data[s] = e.data[o]
<1> DEFINE e == merge(d, s, o)
           v == UserInfo(u)
<1>1. /\ Classes(K) /\ d \in Sound(K) /\ Ordered(d) /\ u \in URI /\ a \in Account
      /\ <<u, a>> \in K.P /\ a # None /\ s \in 1..Count(d) /\ o \in 1..Count(d)
      /\ AccountOf(d, s) = a /\ AccountOf(d, o) = a /\ s \in List(d, v) /\ o \in List(d, u)
      /\ v \in URI /\ v.host = None /\ v.user = u.user
  <2>1. /\ Classes(K) /\ d \in Sound(K) /\ Ordered(d) /\ u \in URI /\ a \in Account
        /\ <<u, a>> \in K.P /\ a # None /\ AccountOf(d, s) = a /\ AccountOf(d, o) = a
        /\ s \in List(d, v) /\ o \in List(d, u)
    BY DEF Twins, Asked
  <2>2. v \in URI /\ v.host = None /\ v.user = u.user
    BY <2>1, UserInfoFacts
  <2>3. \A w : List(d, w) \subseteq 1..Count(d)
    BY <2>1, SoundFacts
  <2> QED
    BY <2>1, <2>2, <2>3
<1>2. K.C[<<d.numbers[s], a>>] = K.C[<<d.numbers[o], a>>]
  <2>1. Fits(K, d.numbers[s], Private(d, s), v) /\ Fits(K, d.numbers[o], Private(d, o), u)
    BY <1>1, SoundFacts
  <2>2. /\ K.C[<<d.numbers[s], a>>] = K.C[<<v, a>>]
        /\ K.C[<<d.numbers[o], a>>] = K.C[<<u, a>>]
    BY <1>1, <2>1 DEF Fits, Prospects, AccountOf
  <2>3. K.C[<<v, a>>] = K.C[<<u, a>>]
    BY <1>1 DEF Classes
  <2> QED
    BY <2>2, <2>3
<1>3. Bridged(d, s, o)
  BY <1>1 DEF Bridged
<1>4. Ordered(e)
  BY <1>1, <1>2, <1>3, MergeOrdered
<1>5. CASE d.data[s] = d.data[o]
  <2>1. e = d
    BY <1>5 DEF merge
  <2> HIDE DEF e
  <2> QED
    BY <1>1, <1>5, <2>1 DEF e
<1>6. CASE d.data[s] # d.data[o]
  <2>1. /\ e \in Sound(K) /\ e.numbers = d.numbers /\ Count(e) = Count(d)
        /\ \A w : Wrapper(e, w) = Wrapper(d, w)
        /\ Alike(d, s) = {s}
        /\ \A k \in 1..Count(d) :
             /\ e.data[k] = IF k = s THEN d.data[o] ELSE d.data[k]
             /\ AccountOf(e, k) = AccountOf(d, k)
    BY <1>1, <1>2, <1>6, MergeUsable
  <2> HIDE DEF e
  <2>2. \A k \in 1..Count(d) : d.data[k] = d.data[s] => k = s
    BY <2>1 DEF Alike
  <2>3. \A j, k \in 1..Count(d) : d.data[j] = d.data[k] => e.data[j] = e.data[k]
    BY <2>1, <2>2
  <2>4. e.data[s] = e.data[o]
    BY <1>1, <2>1
  <2>5. \A w : List(e, w) = List(d, w)
    BY <2>1 DEF List
  <2> QED
    BY <1>4, <2>1, <2>3, <2>4, <2>5 DEF e
<1> QED
  BY <1>5, <1>6

\* An answer leaves a directory in order, and is listed for the user part.
LEMMA GetNumberOrdered ==
  ASSUME NEW K, Classes(K), Homed(K), NEW d \in Sound(K), Ordered(d), NEW u, NEW a,
         Asked(K, u, a), Usable(getNumber(d, u, a).dir)
  PROVE  LET f == getNumber(d, u, a)
         IN  /\ f.dir \in Sound(K) /\ Ordered(f.dir)
             /\ \E w \in URI : w.user = u.user /\ f.number \in List(f.dir, w)
<1> DEFINE f == getNumber(d, u, a)
           v == UserInfo(u)
<1>1. /\ u \in URI /\ v \in URI /\ v.user = u.user
  BY UserInfoFacts DEF Asked
<1> HIDE DEF f, v
<1>2. CASE ByHost(d, u, a, f)
  <2> DEFINE w == Extended(u, a)
  <2>1. a \in Account /\ w \in URI /\ w.user = u.user /\ w.host # None /\ a # None
        /\ <<w, a>> \in K.P
    <3>1. a \in Account /\ a # None
      BY <1>2 DEF Asked, ByHost
    <3>2. <<w, a>> \in K.P
      BY <3>1 DEF Asked, Classes
    <3> QED
      BY <1>1, <3>1, <3>2, ExtendedFacts
  <2>2. Hosted(K, d, w, a, f.number) /\ f.dir = Given(d, f.number, a)
    BY <1>2, <2>1 DEF Hosted, ByHost, Asked
  <2> HIDE DEF w
  <2>4. f.number \in List(d, w)
    BY <2>2 DEF Hosted
  <2>3. f.dir \in Sound(K) /\ Ordered(f.dir) /\ f.number \in List(f.dir, w)
    BY <2>2, <2>4, FillHosted
  <2> QED
    BY <2>1, <2>3 DEF f
<1>3. CASE ByText(d, u, a, f)
  <2>1. Unhosted(K, d, u, a, f.number) /\ f.dir = setAccount(d, f.number, a)
    BY <1>3 DEF Unhosted, ByText
  <2>2. Usable(setAccount(d, f.number, a)) /\ Extended(u, a) # u /\ f.number \in List(d, u)
    BY <1>3, <2>1, HomedFacts DEF f, ByText
  <2>3. f.dir \in Sound(K) /\ Ordered(f.dir) /\ f.number \in List(f.dir, u)
    BY <2>1, <2>2, FillUnhosted
  <2> QED
    BY <1>1, <2>3 DEF f
<1>4. CASE ByAddress(d, u, a, f)
  <2> DEFINE e == Given(d, f.number, a)
             s == Short(e, u, a)
  <2>1. Hosted(K, d, u, a, f.number) /\ a # None
    BY <1>4 DEF Hosted, ByAddress
  <2>2. /\ e \in Sound(K) /\ Ordered(e) /\ f.number \in List(e, u) /\ AccountOf(e, f.number) = a
    <3>1. f.number \in List(d, u)
      BY <2>1 DEF Hosted
    <3> QED
      BY <2>1, <3>1, FillHosted
  <2>3. f.dir = IF s = None THEN e ELSE merge(e, s, f.number)
    BY <1>4 DEF ByAddress
  <2> HIDE DEF e
  <2>4. CASE s = None
    BY <1>1, <2>2, <2>3, <2>4 DEF f
  <2>5. CASE s # None
    <3>1. s \in List(e, v) /\ AccountOf(e, s) = a
      BY <2>1, <2>2, <2>5, FirstSuitable DEF Short, v, Suits, AccountOf
    <3> HIDE DEF s
    <3>2. Twins(K, e, u, a, s, f.number)
      BY <2>1, <2>2, <3>1 DEF Twins, v
    <3>3. f.dir = merge(e, s, f.number) /\ Usable(merge(e, s, f.number))
      BY <2>3, <2>5 DEF f
    <3>4. f.dir \in Sound(K) /\ Ordered(f.dir) /\ f.number \in List(f.dir, u)
      BY <2>2, <3>2, <3>3, TwinsMerged
    <3> QED
      BY <1>1, <3>4 DEF f
  <2> QED
    BY <2>4, <2>5
<1>5. CASE ByShort(d, u, a, f)
  <2>1. f.dir = d /\ f.number \in List(d, v)
    BY <1>5, FirstSuitable DEF ByShort, Short, v
  <2> QED
    BY <1>1, <2>1 DEF f
<1>6. CASE ByAny(d, u, a, f)
  <2>1. f.dir = d /\ f.number \in List(d, u)
    BY <1>6, FirstSuitable DEF ByAny
  <2> QED
    BY <1>1, <2>1 DEF f
<1>7. CASE Plain(d, u, a, f)
  BY <1>1, <1>7 DEF f, Plain
<1>8. CASE ByCreation(d, u, a, f)
  <2>1. f.dir = Create(d, u, a) /\ f.number = Count(d) + 1 /\ Unanswered(d, u, a)
    BY <1>8 DEF ByCreation
  <2>2. f.dir \in Sound(K) /\ Ordered(f.dir) /\ f.number \in List(f.dir, u)
    BY <2>1, CreateOrdered
  <2> QED
    BY <1>1, <2>2 DEF f
<1> QED
  BY <1>2, <1>3, <1>4, <1>5, <1>6, <1>7, <1>8, AnswerCases DEF f

-----------------------------------------------------------------------------
(* The objects of an address get its name, in order.                       *)

\* Nothing is said of names.
LEMMA OrderedWhenNamed ==
  ASSUME NEW K, NEW d \in Sound(K), Ordered(d), NEW e, e.numbers = d.numbers, e.data = d.data,
         e.directory = d.directory,
         \A r \in 1..Count(d) : /\ e.private[r].account = d.private[r].account
                               /\ e.private[r].uri = d.private[r].uri
  PROVE  Ordered(e)
<1>1. \A u : Wrapper(e, u) = Wrapper(d, u) /\ List(d, u) \subseteq 1..Count(d)
  BY SoundFacts DEF Wrapper
<1>2. \A n \in 1..Count(d) : AccountOf(e, n) = AccountOf(d, n)
                             /\ Private(e, n).uri = Private(d, n).uri
  BY SoundFacts DEF AccountOf, Private
<1> QED
  BY <1>1, <1>2, OrderedBySame

LEMMA NamedOrdered ==
  ASSUME NEW K, Classes(K), NEW d \in Sound(K), Ordered(d), NEW x \in User, NameOf[x] # None,
         NEW a \in RingAccount \cup {None}, NEW address, address = [user |-> x, host |-> None],
         NEW name, name = [user |-> NameOf[x], host |-> None],
         NEW n \in List(d, address)
  PROVE  LET e == Named(d, n, name, a)
         IN  /\ e \in Sound(K) /\ Ordered(e) /\ e \in Later(K, d)
             /\ e.numbers = d.numbers /\ e.data = d.data
<1> DEFINE e == Named(d, n, name, a)
           given == IF Private(d, n).account = None THEN Given(d, n, a) ELSE d
           r == d.data[n]
           f == [given.private EXCEPT ![r].registeredName = IF @ = None THEN name.user ELSE @]
           known == [given EXCEPT !.private = f]
<1>1. /\ address \in URI /\ name \in URI /\ address.host = None /\ name.host = None
      /\ IsName(name.user) /\ a \in Account \cup {None}
      /\ n \in 1..Count(d) /\ AccountOf(d, n) = Private(d, n).account
      /\ d \in Sorted(K) /\ n \in Valid(d) \cap ToSet(Wrapper(d, address))
  <2>1. NameOf[x] \in User /\ RingAccount \subseteq Account
    BY DirectoryConstants
  <2>2. n \in 1..Count(d) /\ d \in Sorted(K) /\ n \in Valid(d) \cap ToSet(Wrapper(d, address))
    BY SoundFacts DEF List
  <2> QED
    BY <2>1, <2>2 DEF URI, IsName, AccountOf
<1>2. e \in Later(K, d) /\ e.numbers = d.numbers /\ e.data = d.data
  BY <1>1, NamedSorted
<1>3. e \in Sound(K)
  BY <1>2, SoundFacts DEF Sound, Later, Usable
<1> SUFFICES Ordered(e)
  BY <1>2, <1>3
<1>4. /\ given \in Sound(K) /\ Ordered(given) /\ given.numbers = d.numbers
      /\ given.data = d.data /\ Count(given) = Count(d)
      /\ \A u : Wrapper(given, u) = Wrapper(d, u) /\ List(given, u) = List(d, u)
  <2>1. CASE AccountOf(d, n) = None
    <3>1. a # None => <<d.numbers[n], a>> \in K.P
      <4>1. Fits(K, d.numbers[n], Private(d, n), address) /\ d.numbers[n] \in URI
        BY <1>1, SoundFacts
      <4>2. d.numbers[n].host = None
        BY <1>1, <2>1, <4>1 DEF Fits
      <4> QED
        BY <1>1, <4>1, <4>2 DEF Classes
    <3> DEFINE g == Given(d, n, a)
    <3>2. /\ g \in Sound(K) /\ Ordered(g) /\ g.numbers = d.numbers
          /\ g.data = d.data /\ Count(g) = Count(d)
          /\ \A u : Wrapper(g, u) = Wrapper(d, u)
      BY <1>1, <2>1, <3>1, GivenOrdered
    <3>3. given = g
      BY <1>1, <2>1
    <3> HIDE DEF g, given
    <3> QED
      BY <3>2, <3>3 DEF List
  <2>2. CASE AccountOf(d, n) # None
    BY <1>1, <2>2
  <2> QED
    BY <2>1, <2>2
<1>5. e = IF ~Suits(given, n, a) THEN given
          ELSE IF name \in DOMAIN d.directory THEN known ELSE Listed(known, name, n)
  BY DEF Named, Given
<1> HIDE DEF e, given
<1>6. /\ given \in Directories /\ r \in 1..Count(given)
      /\ given = [numbers |-> given.numbers, data |-> given.data, private |-> given.private,
                  directory |-> given.directory]
      /\ DOMAIN given.private = 1..Count(given)
      /\ \A k \in 1..Count(given) : given.private[k] \in Data
  <2>1. given \in Directories /\ r \in 1..Count(given)
    BY <1>1, <1>4, SoundFacts
  <2> QED
    BY <2>1, DirectoryFacts
<1>7. \A k \in 1..Count(given) :
        f[k].account = given.private[k].account /\ f[k].uri = given.private[k].uri
  BY <1>6 DEF Data
<1> HIDE DEF f
<1>8. CASE ~Suits(given, n, a)
  BY <1>4, <1>5, <1>8
<1>9. CASE Suits(given, n, a) /\ name \in DOMAIN d.directory
  <2>1. /\ known.numbers = given.numbers /\ known.data = given.data
        /\ known.directory = given.directory /\ known.private = f
    BY <1>6
  <2> HIDE DEF known
  <2>2. Ordered(known)
    BY <1>4, <1>7, <2>1, OrderedWhenNamed
  <2> QED
    BY <1>5, <1>9, <2>2
<1>10. CASE Suits(given, n, a) /\ name \notin DOMAIN d.directory
  <2> DEFINE h == Listed(given, name, n)
  <2>1. Wrapper(given, name) = <<>> /\ List(given, name) = {} /\ Wrapper(known, name) = <<>>
    <3>1. Wrapper(d, name) = <<>>
      BY <1>10 DEF Wrapper
    <3>2. ToSet(Wrapper(d, name)) = {}
      BY <1>1, <1>10, ListFacts, SoundFacts
    <3>3. known.directory = given.directory
      BY <1>6
    <3>4. Wrapper(known, name) = Wrapper(given, name)
      BY <3>3 DEF Wrapper
    <3> QED
      BY <1>4, <3>1, <3>2, <3>4 DEF List
  <2> DEFINE list == Append(<<>>, n)
  <2>2. h = Entered(given, name, list) /\ Listed(known, name, n) = Entered(known, name, list)
    BY <2>1 DEF Listed, List
  <2>3. Listed(known, name, n) = [h EXCEPT !.private = f]
    <3> HIDE DEF list
    <3> DEFINE index == [v \in DOMAIN given.directory \cup {name} |->
                           IF v = name THEN list ELSE given.directory[v]]
    <3>1. Entered(given, name, list) = [given EXCEPT !.directory = index]
      BY DEF Entered
    <3>2. known.directory = given.directory
      BY <1>6
    <3>3. Entered(known, name, list) = [known EXCEPT !.directory = index]
      BY <3>2 DEF Entered
    <3> HIDE DEF index, h
    <3>4. known = [numbers |-> given.numbers, data |-> given.data, private |-> f,
                   directory |-> given.directory]
      BY <1>6
    <3> HIDE DEF known
    <3>5. h = [numbers |-> given.numbers, data |-> given.data, private |-> given.private,
               directory |-> index]
      BY <1>6, <2>2, <3>1
    <3>6. Listed(known, name, n) = [numbers |-> given.numbers, data |-> given.data,
                                    private |-> f, directory |-> index]
      BY <2>2, <3>3, <3>4
    <3> QED
      BY <3>5, <3>6
  <2>4. Listable(given, name, n)
    <3>1. n \in List(d, UserInfo(d.numbers[n]))
      BY <1>1 DEF Ordered, Rooted
    <3> QED
      BY <1>1, <1>4, <2>1, <3>1 DEF Listable
  <2>5. Fits(K, given.numbers[n], Private(given, n), name)
    <3>1. n \in List(e, name) /\ AccountOf(e, n) = AccountOf(given, n)
      <4>0. e = [h EXCEPT !.private = f]
        BY <1>5, <1>10, <2>3
      <4>1. /\ h \in Directories /\ h.data = given.data /\ Wrapper(h, name) = list
        <5>1. list \in Seq(1..Count(given)) /\ list # <<>>
          BY <1>1, <1>4
        <5> HIDE DEF list, h
        <5> QED
          BY <1>1, <1>6, <2>2, <5>1, EnteredFacts
      <4>2. h = [numbers |-> h.numbers, data |-> h.data, private |-> h.private,
                 directory |-> h.directory]
        BY <4>1, DirectoryFacts
      <4>3. e.data = given.data /\ e.private = f /\ e.directory = h.directory
        BY <4>0, <4>1, <4>2
      <4> HIDE DEF h
      <4>4. Wrapper(e, name) = list
        BY <4>1, <4>3 DEF Wrapper
      <4>5. n \in ToSet(list)
        BY DEF ToSet
      <4>6. AccountOf(e, n) = AccountOf(given, n)
        BY <1>4, <1>6, <1>7, <4>3 DEF AccountOf, Private
      <4> QED
        BY <4>4, <4>5, <4>6 DEF List
    <3>2. Fits(K, e.numbers[n], Private(e, n), name)
      <4>1. n \in 1..Count(e)
        BY <1>1, <1>2 DEF Count
      <4> QED
        BY <1>3, <3>1, <4>1, SoundFacts
    <3> QED
      BY <1>2, <1>4, <3>1, <3>2 DEF Fits, Prospects, AccountOf
  <2>6. /\ h \in Sound(K) /\ Ordered(h) /\ h.private = given.private /\ Count(h) = Count(given)
    BY <1>1, <1>4, <2>4, <2>5, ListedOrdered
  <2> HIDE DEF h, known
  <2>7. e = [h EXCEPT !.private = f]
    BY <1>5, <1>10, <2>3
  <2>8. h = [numbers |-> h.numbers, data |-> h.data, private |-> h.private,
             directory |-> h.directory]
    BY <2>6, SoundFacts, DirectoryFacts
  <2>9. /\ e.numbers = h.numbers /\ e.data = h.data /\ e.directory = h.directory
        /\ e.private = f
    BY <2>7, <2>8
  <2> QED
    BY <1>7, <2>6, <2>9, OrderedWhenNamed
<1> QED
  BY <1>8, <1>9, <1>10

-----------------------------------------------------------------------------

LEMMA AllNamedOrdered ==
  ASSUME NEW K, Classes(K), NEW d \in Sound(K), Ordered(d), NEW x \in User, NameOf[x] # None,
         NEW a \in RingAccount \cup {None}, NEW address \in {[user |-> x, host |-> None]},
         NEW name \in {[user |-> NameOf[x], host |-> None]}
  PROVE  Ordered(AllNamed(d, name, a, Wrapper(d, address)))
<1> DEFINE U == {e \in Revisions(K, d) : e \in Sound(K) /\ Ordered(e)}
           s == Wrapper(d, address)
           S == List(d, address)
<1>1. /\ d \in Sorted(K) /\ d \in Directories /\ s \in Seq(S) /\ address \in URI
      /\ S \subseteq 1..Count(d)
  <2>1. d \in Sorted(K) /\ d \in Directories /\ s \in Seq(1..Count(d)) /\ S \subseteq 1..Count(d)
    BY SoundFacts
  <2> QED
    BY <2>1, SequenceOfItsSet DEF List, URI
<1>2. d \in U
  BY <1>1, LaterReflexive DEF Revisions
<1>3. ASSUME NEW e \in U, NEW k \in S PROVE Named(e, k, name, a) \in U
  <2>1. e \in Later(K, d) /\ e.numbers = d.numbers /\ e.data = d.data
    BY DEF Revisions
  <2>2. k \in List(e, address)
    BY <1>1, <2>1 DEF Later, List
  <2> DEFINE f == Named(e, k, name, a)
  <2>3. /\ f \in Sound(K) /\ Ordered(f) /\ f \in Later(K, e)
        /\ f.numbers = e.numbers /\ f.data = e.data
    BY <2>2, NamedOrdered
  <2> HIDE DEF f
  <2>4. f \in Later(K, d)
    BY <1>1, <2>1, <2>3, LaterTransitive
  <2>5. f \in U
    BY <2>1, <2>3, <2>4 DEF Revisions
  <2> QED
    BY <2>5 DEF f
<1>4. \A e \in U : Ordered(e)
  OBVIOUS
<1> HIDE DEF U, s, S
<1>5. s \in Seq(S) /\ d \in U /\ \A e \in U, k \in S : Named(e, k, name, a) \in U
  BY <1>1, <1>2, <1>3
<1>6. AllNamed(d, name, a, s) \in U
  BY <1>5, AllNamedReaches
<1> QED
  BY <1>4, <1>6 DEF s

\* What has a name is not itself the name of something.
LEMMA NamedIsNoName ==
  ASSUME PlainNames, NEW x \in User, NameOf[x] # None
  PROVE  ~IsName(x)
<1> SUFFICES ASSUME NEW y \in User, NameOf[y] = x PROVE FALSE
  BY DEF IsName
<1>1. NameOf[y] # None
  BY DirectoryConstants
<1> QED
  BY <1>1 DEF PlainNames

\* The objects of the name of x are merged into o, in order.
LEMMA MergedIntoOrdered ==
  ASSUME PlainNames, NEW K, NEW d \in Sound(K), Ordered(d), NEW o \in 1..Count(d),
         NEW x \in User, NameOf[x] # None, NEW name \in URI, name.host = None, NEW a,
         Serves(K, d, o, name, a),
         NEW w \in URI, w.user = x, o \in List(d, w),
         Usable(AllMergedInto(d, o, Wrapper(d, name)))
  PROVE  Ordered(AllMergedInto(d, o, Wrapper(d, name)))
<1> DEFINE U == {e \in Merges(K, d) : Usable(e) => Ordered(e)}
           s == Wrapper(d, name)
           S == List(d, name)
<1>1. d \in Sorted(K) /\ s \in Seq(S) /\ S = ToSet(Wrapper(d, name))
  <2>1. d \in Sorted(K) /\ s \in Seq(1..Count(d))
    BY SoundFacts
  <2> QED
    BY <2>1, SequenceOfItsSet DEF List
<1>2. d \in U
  BY <1>1, MergesReflexive
<1>3. ASSUME NEW e \in U, NEW k \in S, Usable(e), SameAccount(e, k, o), Usable(merge(e, k, o))
      PROVE  Ordered(merge(e, k, o))
  <2> DEFINE b == Private(e, o).account
  <2>1. /\ k \in 1..Count(d) /\ b # None /\ Private(e, k).account = b
        /\ K.C[<<e.numbers[k], b>>] = K.C[<<e.numbers[o], b>>]
    <3>1. e \in Merges(K, d) /\ k \in ToSet(Wrapper(d, name)) /\ d \in Sorted(K)
      BY <1>1
    <3> HIDE DEF U, s, S
    <3> QED
      BY <1>3, <3>1, MergedIntoSame
  <2>2. /\ e \in Sorted(K) /\ Count(e) = Count(d) /\ e.directory = d.directory
    BY <1>1, MergesFacts
  <2>3. e \in Sound(K) /\ Ordered(e)
    BY <1>3, <2>2 DEF Sound
  <2>4. \A u : List(e, u) = List(d, u)
    BY <2>2 DEF List, Wrapper
  <2>5. Bridged(e, k, o)
    <3>1. ~IsName(w.user)
      BY NamedIsNoName
    <3> QED
      BY <2>4, <3>1 DEF Bridged
  <2>6. AccountOf(e, k) = b /\ AccountOf(e, o) = b
    BY <2>1 DEF AccountOf
  <2> HIDE DEF b
  <2>7. K.C[<<e.numbers[k], AccountOf(e, k)>>] = K.C[<<e.numbers[o], AccountOf(e, k)>>]
    BY <2>1, <2>6
  <2> QED
    BY <1>3, <2>1, <2>2, <2>3, <2>5, <2>6, <2>7, MergeOrdered
<1>4. \A e \in U, k \in S : Usable(e) /\ SameAccount(e, k, o) => merge(e, k, o) \in Merges(K, d)
  BY <1>1, MergedIntoSame
<1>5. \A e \in U, k \in S : MergedInto(e, k, o) \in U
  BY <1>3, <1>4 DEF MergedInto
<1>6. \A e \in U : Usable(e) => Ordered(e)
  OBVIOUS
<1> HIDE DEF U, s, S
<1>7. AllMergedInto(d, o, s) \in U
  BY <1>1, <1>2, <1>5, AllMergedIntoReaches
<1> QED
  BY <1>6, <1>7 DEF s

\* What the name service answers leaves a directory in order.
LEMMA NameFoundOrdered ==
  ASSUME PlainNames, NEW K, Classes(K), Homed(K), dir \in Sound(K), Ordered(dir), NEW x \in User,
         NEW a \in RingAccount \cup {None}, slotRegisteredNameFound(x, a), Usable(dir')
  PROVE  Ordered(dir')
<1> DEFINE address == [user |-> x, host |-> None]
           name    == [user |-> NameOf[x], host |-> None]
           named   == AllNamed(dir, name, a, Wrapper(dir, address))
<1>1. dir \in Sorted(K) /\ Usable(dir) /\ address.user = x /\ name.host = None
  BY SoundFacts
<1>2. /\ NameOf[x] # None /\ named \in Later(K, dir) /\ Usable(named)
      /\ address \in URI /\ name \in URI /\ Asked(K, address, a)
  BY <1>1, NameFoundFacts
<1>3. \E e \in Later(K, named), o \in Nat :
        /\ \/ e = getNumber(named, address, a).dir
              /\ o = getNumber(named, address, a).number
           \/ e = named /\ o \in ToSet(Wrapper(named, address))
        /\ o \in 1..Count(e) /\ Serves(K, e, o, name, a)
        /\ dir' \in {named, AllMergedInto(e, o, Wrapper(e, name))}
  BY <1>1, NameFoundFacts
<1>4. Ordered(named)
  BY <1>2, AllNamedOrdered
<1> HIDE DEF named, name, address
<1>5. named \in Sound(K)
  BY <1>2 DEF Sound, Later
<1>6. PICK e \in Later(K, named), o \in Nat :
        /\ \/ e = getNumber(named, address, a).dir
              /\ o = getNumber(named, address, a).number
           \/ e = named /\ o \in ToSet(Wrapper(named, address))
        /\ o \in 1..Count(e) /\ Serves(K, e, o, name, a)
        /\ dir' \in {named, AllMergedInto(e, o, Wrapper(e, name))}
  BY <1>3
<1> DEFINE merged == AllMergedInto(e, o, Wrapper(e, name))
<1>7. SUFFICES ASSUME Usable(merged) PROVE Ordered(merged)
  BY <1>4, <1>6
<1>8. e \in Sorted(K) /\ Usable(e)
  <2>1. e \in Sorted(K)
    BY DEF Later
  <2>2. merged \in Merges(K, e)
    BY <1>2, <1>6, <2>1, MergedIntoListed
  <2> HIDE DEF merged
  <2>3. Valid(e) = 1..Count(e)
    BY <1>7, <2>1, <2>2, MergesFacts
  <2> QED
    BY <2>1, <2>3, UsableIsValid DEF Sorted
<1>9. e \in Sound(K) /\ Ordered(e) /\ \E w \in URI : w.user = x /\ o \in List(e, w)
  <2>1. CASE e = named /\ o \in ToSet(Wrapper(named, address))
    BY <1>1, <1>2, <1>4, <1>5, <2>1 DEF List
  <2>2. CASE e = getNumber(named, address, a).dir /\ o = getNumber(named, address, a).number
    BY <1>1, <1>2, <1>4, <1>5, <1>8, <2>2, GetNumberOrdered
  <2> QED
    BY <1>6, <2>1, <2>2
<1>10. PICK w \in URI : w.user = x /\ o \in List(e, w)
  BY <1>9
<1> QED
  BY <1>1, <1>2, <1>6, <1>7, <1>9, <1>10, MergedIntoOrdered

-----------------------------------------------------------------------------
(* The steps, in order.                                                    *)

OrderedDirectory(K) == SortedDirectory(K) /\ (Usable(dir) => Ordered(dir))

LEMMA InitOrdered ==
  ASSUME NEW K, Init
  PROVE  OrderedDirectory(K)
<1>1. SortedDirectory(K) /\ Count(dir) = 0
  BY InitInvariant, InitSorted DEF Count
<1>2. \A u : List(dir, u) = {}
  BY DEF Init, List, Wrapper, ToSet
<1>3. Ordered(dir)
  BY <1>1, <1>2 DEF Ordered, Fresh, Joined, Ranked, Rooted, Linked, Worded
<1> QED
  BY <1>1, <1>3 DEF OrderedDirectory

LEMMA NextOrdered ==
  ASSUME PlainNames, NEW K, Classes(K), Homed(K), RequestsAsked(K), OrderedDirectory(K),
         [Next]_dir
  PROVE  OrderedDirectory(K)'
<1>1. SortedDirectory(K)'
  BY NextInvariant DEF OrderedDirectory
<1>2. ASSUME Usable(dir') PROVE Ordered(dir')
  <2>1. CASE UNCHANGED dir
    BY <1>2, <2>1 DEF OrderedDirectory
  <2>2. CASE Next
    <3>1. dir \in Sound(K) /\ Ordered(dir)
      BY <2>2 DEF OrderedDirectory, SortedDirectory, Sound, Next
    <3>2. ASSUME NEW r \in Request, GetNumber(r[1], r[2]) PROVE Ordered(dir')
      <4>1. Asked(K, r[1], r[2])
        BY DEF RequestsAsked
      <4>2. dir' = getNumber(dir, r[1], r[2]).dir
        BY <3>2 DEF GetNumber
      <4> QED
        BY <1>2, <3>1, <4>1, <4>2, GetNumberOrdered
    <3>3. ASSUME NEW x \in User, NEW a \in RingAccount \cup {None},
                 slotRegisteredNameFound(x, a)
          PROVE  Ordered(dir')
      BY <1>2, <3>1, <3>3, NameFoundOrdered
    <3> QED
      BY <2>2, <3>2, <3>3 DEF Next
  <2> QED
    BY <2>1, <2>2
<1> QED
  BY <1>1, <1>2 DEF OrderedDirectory

-----------------------------------------------------------------------------
(* The answer to what is asked again.                                      *)

\* The directories and requests whose answers are compared.
Asking(K, d, u, a) ==
  Classes(K) /\ Homed(K) /\ d \in Sound(K) /\ Ordered(d) /\ Asked(K, u, a)

\* The object n is listed for u with account a.
Has(d, u, a, n) == a # None /\ n \in List(d, u) /\ AccountOf(d, n) = a

LEMMA AskingFacts ==
  ASSUME NEW K, NEW d, NEW u, NEW a, Asking(K, d, u, a)
  PROVE  /\ Classes(K) /\ Homed(K) /\ d \in Sound(K) /\ Ordered(d) /\ Asked(K, u, a)
         /\ u \in URI /\ a \in Account \cup {None}
BY DEF Asking, Asked

LEMMA AskingWithHost ==
  ASSUME NEW K, NEW d, NEW u, NEW a, Asking(K, d, u, a), a # None, u.host = None
  PROVE  LET v == Extended(u, a)
         IN  /\ Asking(K, d, v, a) /\ v \in URI /\ v.host # None /\ v # u
             /\ v.user = u.user /\ UserInfo(v) = u
<1> DEFINE v == Extended(u, a)
<1>1. /\ Classes(K) /\ Asked(K, u, a) /\ u \in URI /\ a \in Account /\ <<u, a>> \in K.P
  BY DEF Asking, Asked
<1>2. v \in URI /\ v.host # None /\ v.user = u.user
  BY <1>1, ExtendedFacts
<1>3. <<v, a>> \in K.P
  BY <1>1 DEF Classes
<1> HIDE DEF v
<1>4. UserInfo(v) = u
  BY <1>1, <1>2, UserInfoSame
<1>5. Asking(K, d, v, a)
  BY <1>1, <1>2, <1>3 DEF Asking, Asked
<1> QED
  BY <1>2, <1>4, <1>5 DEF v

\* Two objects with an account that are listed for an address with a host have the same data.
LEMMA HostedSame ==
  ASSUME NEW K, NEW d, NEW u, NEW a, Asking(K, d, u, a), u.host # None, NEW n, Has(d, u, a, n),
         NEW m \in List(d, u), AccountOf(d, m) \in {None, a}
  PROVE  d.data[m] = d.data[n]
<1>1. d \in Sound(K) /\ Ordered(d) /\ u \in URI /\ n \in List(d, u) /\ AccountOf(d, n) = a
  BY AskingFacts DEF Has
<1>2. CASE AccountOf(d, m) = None
  <2>1. List(d, u) = {m}
    BY <1>1, <1>2 DEF Ordered, Fresh
  <2> QED
    BY <1>1, <2>1
<1>3. CASE AccountOf(d, m) = a
  BY <1>1, <1>3 DEF Ordered, Joined
<1> QED
  BY <1>2, <1>3

\* Only what nothing is an answer for makes an object.
LEMMA AnswersKeepNumbers ==
  ASSUME NEW K, NEW d, NEW u, NEW a, Asking(K, d, u, a),
         ~ByCreation(d, u, a, getNumber(d, u, a))
  PROVE  getNumber(d, u, a).dir.numbers = d.numbers
<1> DEFINE g == getNumber(d, u, a)
<1>1. /\ Classes(K) /\ Homed(K) /\ d \in Sound(K) /\ Ordered(d) /\ Asked(K, u, a) /\ u \in URI
      /\ a \in Account \cup {None} /\ d \in Directories
  BY AskingFacts, SoundFacts
<1>2. \/ ByHost(d, u, a, g) \/ ByText(d, u, a, g) \/ ByAddress(d, u, a, g)
      \/ ByShort(d, u, a, g) \/ ByAny(d, u, a, g) \/ Plain(d, u, a, g)
  BY <1>1, AnswerCases
<1> HIDE DEF g
<1>3. CASE ByHost(d, u, a, g)
  <2> DEFINE v == Extended(u, a)
  <2>1. Asking(K, d, v, a) /\ v.host # None
    BY <1>3, AskingWithHost DEF ByHost
  <2> HIDE DEF v
  <2>2. Hosted(K, d, v, a, g.number)
    BY <1>3, <2>1 DEF ByHost, Hosted, Asking, v
  <2>3. g.dir = Given(d, g.number, a)
    BY <1>3 DEF ByHost
  <2>4. g.dir.numbers = d.numbers
    BY <2>2, <2>3, FillHosted
  <2> QED
    BY <2>4 DEF g
<1>4. CASE ByText(d, u, a, g)
  <2>1. Unhosted(K, d, u, a, g.number) /\ g.dir = setAccount(d, g.number, a)
    BY <1>1, <1>4 DEF ByText, Unhosted
  <2>2. /\ g.number \in 1..Count(d) /\ a \in Account
        /\ AccountOf(d, g.number) \in {None, a} /\ Private(d, g.number).uri = u
    BY <2>1, UnhostedFacts
  <2>3. AccountOf(d, g.number) = None => <<d.numbers[g.number], a>> \in K.P
    <3>1. <<u, a>> \in K.P
      BY <1>1, <1>4 DEF ByText, Asked
    <3>2. AccountOf(d, g.number) = None => d.numbers[g.number] = u
      BY <1>1, <2>2, AloneWithoutAccount
    <3> QED
      BY <3>1, <3>2
  <2>4. d \in Sorted(K) /\ g.number \in Valid(d)
    BY <1>1, <2>2, SoundFacts
  <2>5. setAccount(d, g.number, a).numbers = d.numbers
    BY <1>1, <2>2, <2>3, <2>4, SetAccountSorted DEF AccountOf
  <2> QED
    BY <2>1, <2>5 DEF g
<1>5. CASE ByAddress(d, u, a, g)
  <2> DEFINE e == Given(d, g.number, a)
  <2>1. /\ Hosted(K, d, u, a, g.number)
        /\ g.dir = IF Short(e, u, a) = None THEN e ELSE merge(e, Short(e, u, a), g.number)
    BY <1>1, <1>5 DEF ByAddress, Hosted
  <2>2. e.numbers = d.numbers /\ e \in Sound(K)
    BY <2>1, FillHosted
  <2> HIDE DEF e
  <2>3. ASSUME NEW s PROVE merge(e, s, g.number).numbers = e.numbers
    <3>1. e = [numbers |-> e.numbers, data |-> e.data, private |-> e.private,
               directory |-> e.directory]
      BY <2>2, SoundFacts, DirectoryFacts
    <3> QED
      BY <3>1 DEF merge
  <2> QED
    BY <2>1, <2>2, <2>3 DEF g
<1>6. CASE ByShort(d, u, a, g) \/ ByAny(d, u, a, g) \/ Plain(d, u, a, g)
  BY <1>6 DEF g, ByShort, ByAny, Plain
<1> QED
  BY <1>2, <1>3, <1>4, <1>5, <1>6

\* An answer that is listed with the host has the data of what has the account there.
LEMMA ByHostAgain ==
  ASSUME NEW K, NEW d, NEW u, NEW a, Asking(K, d, u, a), NEW g, ByHost(d, u, a, g),
         NEW n, Has(d, Extended(u, a), a, n)
  PROVE  g.dir.data[g.number] = g.dir.data[n]
<1> DEFINE v == Extended(u, a)
<1>1. Asking(K, d, v, a) /\ v.host # None /\ a # None
  BY AskingWithHost DEF ByHost
<1> HIDE DEF v
<1>2. /\ g.number \in List(d, v) /\ Compatible(d, g.number, v, a) /\ g.dir = Given(d, g.number, a)
      /\ Has(d, v, a, n)
  BY DEF ByHost, v
<1>3. AccountOf(d, g.number) \in {None, a}
  BY <1>1, <1>2 DEF Compatible, AccountOf
<1>4. d.data[g.number] = d.data[n]
  BY <1>1, <1>2, <1>3, HostedSame
<1>5. Hosted(K, d, v, a, g.number)
  BY <1>1, <1>2 DEF Hosted, Asking
<1>6. g.dir.data = d.data
  BY <1>2, <1>5, FillHosted
<1> QED
  BY <1>4, <1>6

LEMMA ByAddressAgain ==
  ASSUME NEW K, NEW d, NEW u, NEW a, Asking(K, d, u, a), NEW g, ByAddress(d, u, a, g),
         Usable(g.dir), NEW n, Has(d, u, a, n)
  PROVE  g.dir.data[g.number] = g.dir.data[n]
<1> DEFINE m == g.number
           e == Given(d, m, a)
           s == Short(e, u, a)
<1>1. /\ u.host # None /\ a # None /\ m \in List(d, u) /\ Compatible(d, m, u, a)
      /\ g.dir = IF s = None THEN e ELSE merge(e, s, m)
  BY DEF ByAddress
<1> HIDE DEF m
<1>2. Hosted(K, d, u, a, m) /\ AccountOf(d, m) \in {None, a}
  BY <1>1 DEF Hosted, Asking, Compatible, AccountOf
<1>3. d.data[m] = d.data[n]
  BY <1>1, <1>2, HostedSame
<1>4. /\ e \in Sound(K) /\ Ordered(e) /\ e.data = d.data /\ Count(e) = Count(d)
      /\ AccountOf(e, m) = a /\ m \in List(e, u) /\ n \in 1..Count(d) /\ m \in 1..Count(d)
  <2>1. n \in List(d, u) /\ List(d, u) \subseteq 1..Count(d)
    BY AskingFacts, SoundFacts DEF Has
  <2> QED
    BY <1>1, <1>2, <2>1, FillHosted
<1> HIDE DEF e
<1>5. CASE s = None
  BY <1>1, <1>3, <1>4, <1>5 DEF m
<1>6. CASE s # None
  <2>1. s \in List(e, UserInfo(u)) /\ AccountOf(e, s) = a
    BY <1>1, <1>4, <1>6, FirstSuitable DEF Short, Suits, AccountOf
  <2> HIDE DEF s
  <2>2. Twins(K, e, u, a, s, m)
    BY <1>1, <1>4, <2>1 DEF Twins, Asking
  <2>3. g.dir = merge(e, s, m)
    BY <1>1, <1>6
  <2>4. \A j, k \in 1..Count(e) : e.data[j] = e.data[k] => g.dir.data[j] = g.dir.data[k]
    BY <2>2, <2>3, TwinsMerged
  <2> QED
    BY <1>3, <1>4, <2>4 DEF m
<1> QED
  BY <1>5, <1>6

-----------------------------------------------------------------------------

\* Whatever is listed for the address and suits, a second answer makes nothing.
LEMMA HasIsAnswered ==
  ASSUME NEW K, NEW d, NEW u, NEW a, Asking(K, d, u, a), NEW n \in List(d, u), Suits(d, n, a)
  PROVE  ~Unanswered(d, u, a)
BY DEF Unanswered

\* After g, the answer h is for the same.
SameAnswer(g, h) ==
  /\ h.dir.numbers = g.dir.numbers
  /\ Usable(h.dir) => h.dir.data[h.number] = h.dir.data[g.number]

\* What is asked again, where the first answer is g.
FirstAnswer(K, d, u, a, g) ==
  /\ Asking(K, d, u, a) /\ g = getNumber(d, u, a) /\ Usable(g.dir)
  /\ Asking(K, g.dir, u, a)

LEMMA SameByHost ==
  ASSUME NEW K, NEW d, NEW u, NEW a, NEW g, FirstAnswer(K, d, u, a, g), ByHost(d, u, a, g)
  PROVE  SameAnswer(g, getNumber(g.dir, u, a))
<1> DEFINE v == Extended(u, a)
           h == getNumber(g.dir, u, a)
           n == g.number
<1>1. Asking(K, d, u, a) /\ Asking(K, g.dir, u, a) /\ u.host = None /\ a # None
  BY DEF FirstAnswer, ByHost
<1>2. Asking(K, d, v, a) /\ v.host # None
  BY <1>1, AskingWithHost
<1> HIDE DEF v
<1>3. /\ n \in List(d, v) /\ Compatible(d, n, v, a) /\ g.dir = Given(d, n, a)
  BY DEF ByHost, v
<1>4. Hosted(K, d, v, a, n)
  BY <1>1, <1>2, <1>3 DEF Hosted, Asking
<1>5. n \in List(g.dir, v) /\ AccountOf(g.dir, n) = a /\ Compatible(g.dir, n, v, a)
  BY <1>3, <1>4, FillHosted
<1>6. Has(g.dir, v, a, n) /\ ~NoneByHost(g.dir, u, a)
  BY <1>1, <1>5 DEF Has, NoneByHost, v
<1>7. ByHost(g.dir, u, a, h)
  <2>1. \/ ByHost(g.dir, u, a, h) \/ ByText(g.dir, u, a, h) \/ ByAddress(g.dir, u, a, h)
        \/ ByShort(g.dir, u, a, h) \/ ByAny(g.dir, u, a, h) \/ Plain(g.dir, u, a, h)
        \/ ByCreation(g.dir, u, a, h)
    BY <1>1, AnswerCases DEF Asking
  <2> HIDE DEF h
  <2> QED
    BY <1>1, <1>6, <2>1 DEF ByText, ByAddress, ByShort, ByAny, Plain, ByCreation
<1>8. h.dir.numbers = g.dir.numbers
  BY <1>1, <1>6, AnswersKeepNumbers DEF ByCreation
<1> HIDE DEF h
<1>9. h.dir.data[h.number] = h.dir.data[n]
  BY <1>1, <1>6, <1>7, ByHostAgain DEF v
<1> QED
  BY <1>8, <1>9 DEF SameAnswer, h

LEMMA SameByAddress ==
  ASSUME NEW K, NEW d, NEW u, NEW a, NEW g, FirstAnswer(K, d, u, a, g), ByAddress(d, u, a, g)
  PROVE  SameAnswer(g, getNumber(g.dir, u, a))
<1> DEFINE h == getNumber(g.dir, u, a)
           n == g.number
           e == Given(d, n, a)
           s == Short(e, u, a)
<1>1. /\ Asking(K, d, u, a) /\ Asking(K, g.dir, u, a) /\ Usable(g.dir)
      /\ u.host # None /\ a # None /\ n \in List(d, u) /\ Compatible(d, n, u, a)
      /\ g.dir = IF s = None THEN e ELSE merge(e, s, n)
  BY DEF FirstAnswer, ByAddress
<1> HIDE DEF n
<1>2. Hosted(K, d, u, a, n)
  BY <1>1 DEF Hosted, Asking
<1>3. /\ e \in Sound(K) /\ Ordered(e) /\ AccountOf(e, n) = a /\ n \in List(e, u)
      /\ Compatible(e, n, u, a)
  BY <1>1, <1>2, FillHosted
<1> HIDE DEF e
<1>4. /\ Has(g.dir, u, a, n)
      /\ \/ g.dir = e
         \/ s # None /\ Short(g.dir, u, a) = s /\ g.dir.data[s] = g.dir.data[n]
  <2>1. CASE s = None
    BY <1>1, <1>3, <2>1 DEF Has
  <2>2. CASE s # None
    <3>1. s \in List(e, UserInfo(u)) /\ AccountOf(e, s) = a
      BY <1>1, <1>3, <2>2, FirstSuitable DEF Short, Suits, AccountOf
    <3> HIDE DEF s
    <3>2. Twins(K, e, u, a, s, n)
      BY <1>1, <1>3, <3>1 DEF Twins, Asking
    <3>3. g.dir = merge(e, s, n)
      BY <1>1, <2>2
    <3> DEFINE f == g.dir
    <3>4. /\ f \in Sound(K) /\ Count(f) = Count(e)
          /\ \A w : Wrapper(f, w) = Wrapper(e, w) /\ List(f, w) = List(e, w)
          /\ \A k \in 1..Count(e) : AccountOf(f, k) = AccountOf(e, k)
          /\ f.data[s] = f.data[n]
      BY <1>1, <3>2, <3>3, TwinsMerged
    <3> HIDE DEF f
    <3>5. Suitable(f, a) = Suitable(e, a)
      <4>1. DOMAIN f.data = 1..Count(e) /\ DOMAIN e.data = 1..Count(e)
        BY <1>3, <3>4, SoundFacts, DirectoryFacts
      <4> QED
        BY <3>4, <4>1 DEF Suitable, Suits, AccountOf
    <3>6. Short(f, u, a) = s
      BY <3>4, <3>5 DEF Short, s
    <3>7. Has(f, u, a, n)
      <4>1. n \in 1..Count(e)
        BY <1>3, SoundFacts
      <4> QED
        BY <1>1, <1>3, <3>4, <4>1 DEF Has
    <3> QED
      BY <2>2, <3>4, <3>6, <3>7 DEF f
  <2> QED
    BY <2>1, <2>2
<1>5. ~Unanswered(g.dir, u, a)
  BY <1>1, <1>4, HasIsAnswered DEF Has, Suits, AccountOf
<1>6. h.dir.numbers = g.dir.numbers
  BY <1>1, <1>5, AnswersKeepNumbers DEF ByCreation
<1>7. \/ ByHost(g.dir, u, a, h) \/ ByText(g.dir, u, a, h) \/ ByAddress(g.dir, u, a, h)
      \/ ByShort(g.dir, u, a, h) \/ ByAny(g.dir, u, a, h) \/ Plain(g.dir, u, a, h)
      \/ ByCreation(g.dir, u, a, h)
  BY <1>1, AnswerCases DEF Asking
<1> HIDE DEF h, s
<1>8. ByAddress(g.dir, u, a, h) \/ ByShort(g.dir, u, a, h) \/ ByAny(g.dir, u, a, h)
  BY <1>1, <1>5, <1>7 DEF ByHost, ByText, Plain, ByCreation
<1>9. ASSUME ByAddress(g.dir, u, a, h), Usable(h.dir)
      PROVE  h.dir.data[h.number] = h.dir.data[n]
  BY <1>1, <1>4, <1>9, ByAddressAgain
<1>10. ASSUME ByShort(g.dir, u, a, h) \/ ByAny(g.dir, u, a, h)
       PROVE  h.dir.data[h.number] = h.dir.data[n]
  <2>1. Unmatched(g.dir, u, a) /\ h.dir = g.dir
    BY <1>10 DEF ByShort, ByAny
  <2>2. g.dir # e
    BY <1>3, <2>1 DEF Unmatched
  <2>3. s # None /\ Short(g.dir, u, a) = s /\ g.dir.data[s] = g.dir.data[n]
    BY <1>4, <2>2
  <2>4. ByShort(g.dir, u, a, h)
    BY <1>1, <1>10, <2>3 DEF ByAny
  <2> QED
    BY <2>1, <2>3, <2>4 DEF ByShort
<1> QED
  BY <1>6, <1>8, <1>9, <1>10 DEF SameAnswer, h, n

LEMMA SameByCreation ==
  ASSUME NEW K, NEW d, NEW u, NEW a, NEW g, FirstAnswer(K, d, u, a, g), ByCreation(d, u, a, g)
  PROVE  SameAnswer(g, getNumber(g.dir, u, a))
<1> DEFINE h == getNumber(g.dir, u, a)
           n == g.number
           e == g.dir
<1>1. /\ Asking(K, d, u, a) /\ Asking(K, e, u, a)
      /\ NoneByHost(d, u, a) /\ Unanswered(d, u, a) /\ n = Count(d) + 1 /\ e = Create(d, u, a)
  BY DEF FirstAnswer, ByCreation
<1> HIDE DEF n, e
<1>2. /\ e \in Sound(K) /\ Count(e) = n /\ Private(e, n).uri = u /\ AccountOf(e, n) = a
      /\ \A k \in 1..Count(d) : Private(e, k) = Private(d, k)
      /\ List(e, u) = List(d, u) \cup {n}
      /\ \A v : v \notin {u, UserInfo(u)} => Wrapper(e, v) = Wrapper(d, v)
  BY <1>1, CreateOrdered DEF Asking
<1>3. /\ n \in List(e, u) /\ Compatible(e, n, u, a) /\ Suits(e, n, a)
      /\ \A w : List(d, w) \subseteq 1..Count(d)
  BY <1>1, <1>2, AskingFacts, SoundFacts DEF Compatible, Suits, AccountOf
<1>4. /\ ~Unanswered(e, u, a) /\ ~Unmatched(e, u, a)
      /\ a # None => Has(e, u, a, n)
  BY <1>1, <1>2, <1>3, HasIsAnswered DEF Unmatched, Has
<1>5. ASSUME NEW m \in List(e, u), Compatible(e, m, u, a) PROVE m = n
  <2>1. SUFFICES ASSUME m \in List(d, u) PROVE FALSE
    BY <1>2
  <2>2. Private(e, m) = Private(d, m)
    BY <1>2, <1>3, <2>1
  <2>3. Compatible(d, m, u, a)
    BY <1>5, <2>2 DEF Compatible
  <2> QED
    BY <1>1, <2>1, <2>3 DEF Unanswered
<1>6. ASSUME a = None PROVE List(e, u) = {n}
  BY <1>1, <1>2, <1>6 DEF Unanswered, Suits
<1>7. NoneByHost(e, u, a)
  <2> SUFFICES ASSUME u.host = None, a # None, NEW m \in List(e, Extended(u, a)),
                      Compatible(e, m, Extended(u, a), a)
               PROVE  FALSE
    BY DEF NoneByHost
  <2> DEFINE v == Extended(u, a)
  <2>1. v # u /\ UserInfo(u) = u
    BY <1>1, AskingFacts, AskingWithHost, UserInfoSame
  <2>2. Wrapper(e, v) = Wrapper(d, v)
    BY <1>2, <2>1
  <2>3. m \in List(d, v)
    BY <2>2 DEF List
  <2>4. Private(e, m) = Private(d, m)
    BY <1>2, <1>3, <2>3
  <2>5. Compatible(d, m, v, a)
    BY <2>4 DEF Compatible
  <2> QED
    BY <1>1, <2>3, <2>5 DEF NoneByHost
<1>8. h.dir.numbers = e.numbers
  BY <1>1, <1>4, AnswersKeepNumbers DEF ByCreation, e
<1>9. \/ ByHost(e, u, a, h) \/ ByText(e, u, a, h) \/ ByAddress(e, u, a, h)
      \/ ByShort(e, u, a, h) \/ ByAny(e, u, a, h) \/ Plain(e, u, a, h)
      \/ ByCreation(e, u, a, h)
  BY <1>1, AnswerCases DEF Asking, e
<1> HIDE DEF h
<1>10. ByText(e, u, a, h) \/ ByAddress(e, u, a, h) \/ Plain(e, u, a, h)
  BY <1>4, <1>7, <1>9 DEF ByHost, NoneByHost, ByShort, ByAny, ByCreation
<1>11. CASE ByText(e, u, a, h)
  BY <1>5, <1>8, <1>11 DEF ByText, SameAnswer, h, n, e
<1>12. CASE ByAddress(e, u, a, h)
  <2>1. Usable(h.dir) => h.dir.data[h.number] = h.dir.data[n]
    BY <1>1, <1>4, <1>12, ByAddressAgain DEF ByAddress
  <2> QED
    BY <1>8, <2>1 DEF SameAnswer, h, n, e
<1>13. CASE Plain(e, u, a, h)
  BY <1>6, <1>8, <1>13 DEF Plain, SameAnswer, h, n, e
<1> QED
  BY <1>10, <1>11, <1>12, <1>13

-----------------------------------------------------------------------------

\* The answer g was found by its text and merged with another object, so that it does not
\* match what is asked any more: what is listed first has its data all the same.
LEMMA FirstOfText ==
  ASSUME NEW K, NEW d, NEW u, NEW a, NEW g, FirstAnswer(K, d, u, a, g), ByText(d, u, a, g),
         NEW h, ByAny(g.dir, u, a, h)
  PROVE  g.dir.data[h.number] = g.dir.data[g.number]
<1> DEFINE e == g.dir
           n == g.number
           m == h.number
           v == Extended(u, a)
<1>1. /\ Asking(K, d, u, a) /\ u.host = None /\ a # None
      /\ n \in List(d, u) /\ Unhosted(K, d, u, a, n) /\ e = setAccount(d, n, a)
      /\ Usable(e) /\ NoneByHost(d, u, a)
      /\ Unmatched(e, u, a) /\ m = First(Wrapper(e, u), Suitable(e, a)) /\ m # None
  BY DEF FirstAnswer, Asking, ByText, Unhosted, ByAny
<1> HIDE DEF e, n, m
<1>2. /\ a \in Account /\ u \in URI /\ v \in URI /\ v.host # None /\ v # u /\ v.user = u.user
      /\ UserInfo(v) = u /\ d \in Sound(K) /\ Ordered(d) /\ Homed(K)
  <2>1. v \in URI /\ v.host # None /\ v # u /\ v.user = u.user /\ UserInfo(v) = u
    <3>1. Asking(K, d, u, a)
      BY <1>1
    <3>2. a # None
      BY <1>1
    <3>3. u.host = None
      BY <1>1
    <3> HIDE DEF v
    <3>4. LET w == Extended(u, a)
          IN  w \in URI /\ w.host # None /\ w # u /\ w.user = u.user /\ UserInfo(w) = u
      BY <3>1, <3>2, <3>3, AskingWithHost
    <3> QED
      BY <3>4 DEF v
  <2>2. a \in Account /\ u \in URI /\ d \in Sound(K) /\ Ordered(d) /\ Homed(K)
    BY <1>1, AskingFacts
  <2> QED
    BY <2>1, <2>2
<1>3. /\ n \in 1..Count(d) /\ Private(d, n).uri = u
  BY <1>1, UnhostedFacts
<1>4. /\ e \in Sound(K) /\ Ordered(e) /\ e.numbers = d.numbers /\ List(e, u) = List(d, u)
      /\ List(e, v) = List(d, v) \cup {n}
      /\ \A k \in 1..Count(d) : AccountOf(e, k) = IF k = n THEN a ELSE AccountOf(d, k)
      /\ \A j, k \in 1..Count(d) : d.data[j] = d.data[k] => e.data[j] = e.data[k]
  BY <1>1, <1>2, FillUnhosted
<1>5. \/ Private(e, n).uri = u
       \/ \E k \in List(d, v) :
            /\ k # n /\ AccountOf(d, k) = a /\ e.data[k] = e.data[n]
            /\ d.data[k] # d.data[n] /\ Alike(d, n) = {n}
            /\ Private(e, n).uri = Private(d, k).uri
  BY <1>1, FillUnhosted
<1> HIDE DEF v
<1>6. /\ m \in List(e, u) /\ AccountOf(e, m) = a
      /\ \A k \in List(e, u) : AccountOf(e, k) = a => k = m \/ Precedes(Wrapper(e, u), m, k)
  BY <1>1, <1>4, FirstSuitable DEF Suits, AccountOf
<1>7. SUFFICES ASSUME m # n PROVE e.data[m] = e.data[n]
  BY DEF e, m, n
<1>8. Precedes(Wrapper(e, u), m, n) /\ AccountOf(e, n) = a
  BY <1>1, <1>3, <1>4, <1>6, <1>7
<1>9. Private(e, n).uri # u
  <2>1. SUFFICES ASSUME Private(e, n).uri = u PROVE FALSE
    OBVIOUS
  <2>2. Compatible(e, n, u, a)
    BY <1>8, <2>1 DEF Compatible, AccountOf
  <2> QED
    BY <1>1, <1>4, <2>2 DEF Unmatched
<1>10. PICK k \in List(d, v) :
        /\ k # n /\ AccountOf(d, k) = a /\ e.data[k] = e.data[n]
        /\ d.data[k] # d.data[n] /\ Alike(d, n) = {n} /\ Private(e, n).uri = Private(d, k).uri
  BY <1>5, <1>9
<1>11. IsName(u.user)
  <2>1. d.numbers[n] = u
    BY <1>2, <1>3, <1>10 DEF Ordered, Worded
  <2> QED
    BY <1>1, <1>2, <1>4, <1>6, <1>8, <2>1 DEF Ordered, Ranked
<1>12. k \in 1..Count(d) /\ n \notin Alike(d, k) /\ List(d, u) \subseteq 1..Count(d)
  BY <1>2, <1>10, SoundFacts DEF Alike
<1>13. \E j \in Alike(d, k) : j \in List(d, u)
  <2>1. CASE \E j \in Alike(d, k) : d.numbers[j].user # u.user
    BY <1>2, <1>10, <1>11, <2>1 DEF Ordered, Linked
  <2>2. CASE \A j \in Alike(d, k) : d.numbers[j].user = u.user
    <3> DEFINE q == Private(d, k).uri
    <3>1. PICK j \in Alike(d, k) : d.numbers[j] = q
      BY <1>2, <1>12 DEF Ordered, Worded
    <3>2. j \in 1..Count(d) /\ Private(d, j) = Private(d, k) /\ AccountOf(d, j) = a
      BY <1>10, <3>1 DEF Alike, Private, AccountOf
    <3>3. q \in URI /\ q.user = u.user /\ Consistent(K, j, q, d.data[j], Private(d, j))
      BY <1>2, <2>2, <3>1, <3>2, SoundFacts
    <3> HIDE DEF q
    <3>4. <<q, a>> \in K.P
      BY <1>1, <3>2, <3>3 DEF Consistent, AccountOf
    <3>5. Asked(K, q, a)
      BY <1>2, <3>3, <3>4 DEF Asked
    <3>6. q.host \in {None, HostOf[a]}
      BY <1>1, <1>2, <3>5, HomedFacts
    <3>7. q # u
      BY <1>9, <1>10 DEF q
    <3>8. q = v
      <4>1. v.host = HostOf[a]
        BY <1>2, ExtendedFacts DEF v
      <4>2. /\ q = [user |-> q.user, host |-> q.host] /\ u = [user |-> u.user, host |-> u.host]
            /\ v = [user |-> v.user, host |-> v.host]
        BY <1>2, <3>3 DEF URI
      <4> QED
        BY <1>1, <1>2, <3>3, <3>6, <3>7, <4>1, <4>2
    <3>9. Compatible(d, k, v, a)
      BY <1>10, <3>8 DEF Compatible, q, AccountOf
    <3> QED
      BY <1>1, <1>10, <3>9 DEF NoneByHost, v
  <2> QED
    BY <2>1, <2>2
<1>14. PICK j \in Alike(d, k) : j \in List(d, u)
  BY <1>13
<1>15. /\ j \in List(e, u) /\ j # n /\ AccountOf(e, j) = a /\ e.data[j] = e.data[n]
  <2>1. /\ j \in 1..Count(d) /\ d.data[j] = d.data[k] /\ Private(d, j) = Private(d, k)
    BY <1>14 DEF Alike, Private
  <2>2. AccountOf(d, j) = a
    BY <1>10, <2>1 DEF AccountOf
  <2> QED
    BY <1>4, <1>10, <1>12, <1>14, <2>1, <2>2
<1>16. j = m
  <2>1. SUFFICES ASSUME Precedes(Wrapper(e, u), m, j) PROVE FALSE
    BY <1>6, <1>15
  <2>2. Wrapper(e, u) \in Seq(1..Count(e))
    BY <1>4, SoundFacts
  <2>3. Precedes(Wrapper(e, u), j, n) \/ Precedes(Wrapper(e, u), n, j)
    BY <1>1, <1>4, <1>15, <2>2, PrecedesFacts DEF List
  <2> QED
    BY <1>1, <1>2, <1>4, <1>6, <1>8, <1>15, <2>1, <2>3 DEF Ordered, Ranked
<1> QED
  BY <1>15, <1>16

LEMMA SameByText ==
  ASSUME NEW K, NEW d, NEW u, NEW a, NEW g, FirstAnswer(K, d, u, a, g), ByText(d, u, a, g)
  PROVE  SameAnswer(g, getNumber(g.dir, u, a))
<1> DEFINE e == g.dir
           n == g.number
           v == Extended(u, a)
           h == getNumber(e, u, a)
<1>1. /\ Asking(K, d, u, a) /\ Asking(K, e, u, a) /\ u.host = None /\ a # None
      /\ n \in List(d, u) /\ Unhosted(K, d, u, a, n) /\ e = setAccount(d, n, a)
      /\ Usable(e)
  BY DEF FirstAnswer, Asking, ByText, Unhosted
<1>2. v \in URI /\ v.host # None /\ v # u /\ n \in 1..Count(d)
  BY <1>1, AskingWithHost, UnhostedFacts
<1> HIDE DEF e, n
<1>3. /\ e \in Sound(K) /\ Count(e) = Count(d) /\ List(e, u) = List(d, u)
      /\ List(e, v) = List(d, v) \cup {n}
      /\ AccountOf(e, n) = a
  BY <1>1, <1>2, FillUnhosted
<1>4. Has(e, u, a, n) /\ Has(e, v, a, n)
  BY <1>1, <1>3 DEF Has
<1>5. ~Unanswered(e, u, a)
  BY <1>1, <1>4, HasIsAnswered DEF Has, Suits, AccountOf
<1>6. h.dir.numbers = e.numbers
  BY <1>1, <1>5, AnswersKeepNumbers DEF ByCreation
<1>7. \/ ByHost(e, u, a, h) \/ ByText(e, u, a, h) \/ ByAddress(e, u, a, h)
      \/ ByShort(e, u, a, h) \/ ByAny(e, u, a, h) \/ Plain(e, u, a, h)
      \/ ByCreation(e, u, a, h)
  BY <1>1, AnswerCases DEF Asking
<1> HIDE DEF h
<1>8. ByHost(e, u, a, h) \/ ByText(e, u, a, h) \/ ByAny(e, u, a, h)
  BY <1>1, <1>5, <1>7 DEF ByAddress, ByShort, Plain, ByCreation
<1>9. ASSUME ByHost(e, u, a, h) PROVE h.dir.data[h.number] = h.dir.data[n]
  BY <1>1, <1>4, <1>9, ByHostAgain
<1>10. ASSUME ByText(e, u, a, h), Usable(h.dir) PROVE h.dir.data[h.number] = h.dir.data[n]
  <2> DEFINE f == h.dir
             m == h.number
  <2>1. Unhosted(K, e, u, a, m) /\ f = setAccount(e, m, a) /\ Usable(setAccount(e, m, a))
    BY <1>1, <1>10 DEF ByText, Unhosted, Asking
  <2> HIDE DEF f, m
  <2>2. /\ f \in Sound(K) /\ Ordered(f) /\ List(f, v) = List(e, v) \cup {m}
        /\ \A k \in 1..Count(e) : AccountOf(f, k) = IF k = m THEN a ELSE AccountOf(e, k)
        /\ m \in 1..Count(e)
    BY <2>1, FillUnhosted, UnhostedFacts
  <2>3. m \in List(f, v) /\ n \in List(f, v) /\ AccountOf(f, m) = a /\ AccountOf(f, n) = a
    BY <1>2, <1>3, <2>2
  <2>4. f.data[m] = f.data[n]
    BY <1>2, <2>2, <2>3 DEF Ordered, Joined
  <2> QED
    BY <2>4 DEF f, m
<1>11. ASSUME ByAny(e, u, a, h) PROVE h.dir.data[h.number] = h.dir.data[n]
  <2>1. e.data[h.number] = e.data[n]
    BY <1>11, FirstOfText DEF e, n
  <2> QED
    BY <1>11, <2>1 DEF ByAny
<1> QED
  BY <1>6, <1>8, <1>9, <1>10, <1>11 DEF SameAnswer, h, e, n

LEMMA SameAgain ==
  ASSUME NEW K, NEW d, NEW u, NEW a, Asking(K, d, u, a), Usable(getNumber(d, u, a).dir)
  PROVE  SameAnswer(getNumber(d, u, a), getNumber(getNumber(d, u, a).dir, u, a))
<1> DEFINE g == getNumber(d, u, a)
<1>1. /\ Classes(K) /\ Homed(K) /\ d \in Sound(K) /\ Ordered(d) /\ Asked(K, u, a)
  BY AskingFacts
<1>2. g.dir \in Sound(K) /\ Ordered(g.dir)
  BY <1>1, GetNumberOrdered
<1>3. \/ ByHost(d, u, a, g) \/ ByText(d, u, a, g) \/ ByAddress(d, u, a, g)
      \/ ByShort(d, u, a, g) \/ ByAny(d, u, a, g) \/ Plain(d, u, a, g)
      \/ ByCreation(d, u, a, g)
  BY <1>1, AnswerCases
<1> HIDE DEF g
<1>4. FirstAnswer(K, d, u, a, g)
  BY <1>1, <1>2 DEF FirstAnswer, Asking, g
<1>5. CASE ByShort(d, u, a, g) \/ ByAny(d, u, a, g) \/ Plain(d, u, a, g)
  <2>1. g.dir = d
    BY <1>5 DEF ByShort, ByAny, Plain
  <2> QED
    BY <2>1 DEF SameAnswer, g
<1>6. SameAnswer(g, getNumber(g.dir, u, a))
  BY <1>3, <1>4, <1>5, SameByHost, SameByText, SameByAddress, SameByCreation DEF g
<1> QED
  BY <1>6 DEF g

\* Asking again gives the same contact method and creates none, when names are plain and
\* unique and nobody asks for an address of another host than the account's.
THEOREM AnswersAgainCorrect ==
  ASSUME PlainNames, UniqueNames, ProperRequests(Request)
  PROVE  Spec => []AnswersAgain
<1> DEFINE K == Destinations
<1>1. Classes(K) /\ RequestsAsked(K) /\ Homed(K)
  BY DestinationsClasses DEF Homed, Destinations
<1> HIDE DEF K
<1>2. Init => OrderedDirectory(K)
  BY InitOrdered
<1>3. OrderedDirectory(K) /\ [Next]_dir => OrderedDirectory(K)'
  BY <1>1, NextOrdered
<1>4. OrderedDirectory(K) => AnswersAgain
  <2> SUFFICES ASSUME OrderedDirectory(K), Usable(dir), NEW r \in Request,
                      Usable(getNumber(dir, r[1], r[2]).dir)
               PROVE  SameAnswer(getNumber(dir, r[1], r[2]),
                                 getNumber(getNumber(dir, r[1], r[2]).dir, r[1], r[2]))
    BY DEF AnswersAgain, SameAnswer
  <2>1. Asking(K, dir, r[1], r[2])
    BY <1>1 DEF OrderedDirectory, SortedDirectory, Sound, RequestsAsked, Asking
  <2> QED
    BY <2>1, SameAgain
<1> QED
  BY <1>2, <1>3, <1>4, PTL DEF Spec
=============================================================================
