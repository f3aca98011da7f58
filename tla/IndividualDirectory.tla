------------------------- MODULE IndividualDirectory -------------------------
(***************************************************************************)
(* The directory of contact methods (src/src/individualdirectory.cpp): an  *)
(* address may be written in several ways, and what it needs to be told    *)
(* from another one (the account, the name that a name service knows it    *)
(* by) comes later, if at all.  The directory answers with an object that  *)
(* it has, gives it what is new, and merges two objects once they turn out *)
(* to be the same (ContactMethod::merge, src/src/contactmethod.cpp).       *)
(*                                                                         *)
(* The directory is one record, and each function of the code a function   *)
(* from it to the next, for they call each other.  An object is the place  *)
(* where it was created in.                                                *)
(***************************************************************************)
EXTENDS Naturals, Sequences, SequencesExt, Functions

CONSTANTS
  User,        \* user parts: the identifiers and the names of people
  Host,        \* host parts
  Length,      \* how long the text of each is
  Account,     \* the accounts
  HostOf,      \* the host name of an account
  NameOf,      \* the name that the name service knows a user by, or None
  RingAccount, \* the accounts that ask the name service
  Request,     \* the addresses that are asked for, and with which account
  MaxNumbers,  \* how many objects may be created
  None         \* a null pointer, an empty string

URI == [user : User, host : Host \cup {None}]

ASSUME DirectoryConstants ==
  /\ Length \in [User \cup Host -> Nat]
  /\ HostOf \in [Account -> Host]
  /\ NameOf \in [User -> User \cup {None}]
  /\ RingAccount \subseteq Account
  /\ Request \subseteq URI \X (Account \cup {None})
  /\ MaxNumbers \in Nat
  /\ None \notin User \cup Host \cup Account /\ None \notin Nat

VARIABLE
  dir \* the directory and its contact methods, see Init

Number == 1..MaxNumbers

\* The data of an object that was deleted under it.
Deleted == 0

size(u) == Length[u.user] + IF u.host = None THEN 0 ELSE 1 + Length[u.host]

\* The address with the host that the account stands for.
Extended(u, a) == [u EXCEPT !.host = HostOf[a]]

UserInfo(u) == [u EXCEPT !.host = None]

\* What an object shares with those that it was merged with.
Private(d, n) == d.private[d.data[n]]

\* What the program does with deleted data is undefined; nothing is said of it.
Usable(d) == Deleted \notin Range(d.data)

\* The objects that are listed for a text.
Wrapper(d, u) == IF u \in DOMAIN d.directory THEN d.directory[u] ELSE <<>>

\* The first and the last of a list of objects that are in T.
Places(list, T) == {k \in DOMAIN list : list[k] \in T}
First(list, T) == IF Places(list, T) = {} THEN None ELSE list[Min(Places(list, T))]
LastOf(list, T) == IF Places(list, T) = {} THEN None ELSE list[Max(Places(list, T))]

Entered(d, u, list) ==
  [d EXCEPT !.directory = [v \in DOMAIN @ \cup {u} |-> IF v = u THEN list ELSE @[v]]]

\* The list of u gets n.  A second entry for the same object would change nothing.
FaultyListed(d, u, n) == \* Faulty: a list that is there stays as it is.
  IF u \in DOMAIN d.directory THEN d ELSE Entered(d, u, <<n>>)

Listed(d, u, n) ==
  IF n \in ToSet(Wrapper(d, u)) THEN d ELSE Entered(d, u, Append(Wrapper(d, u), n))
-----------------------------------------------------------------------------
\* ContactMethod::merge(): n gives up its data for that of o.  Only the object that the
\* data was made for follows; those that were merged into it keep a pointer to what is
\* deleted.
Faultymerge(d, n, o) == \* Faulty: the name is not carried over.
  LET old == d.data[n]
      new == d.data[o]
      uri == IF size(d.private[old].uri) > size(d.private[new].uri)
               THEN d.private[old].uri ELSE d.private[new].uri
  IN  IF old = new \/ (/\ None \notin {d.private[old].account, d.private[new].account}
               /\ d.private[old].account # d.private[new].account)
        THEN d
        ELSE [d EXCEPT !.data = [k \in DOMAIN @ |->
                                   IF @[k] # old THEN @[k] ELSE IF k = old THEN new ELSE Deleted],
                       !.private[new].uri = uri]

merge(d, n, o) ==
  LET old  == d.data[n]
      new  == d.data[o]
      this == d.private[old]
      that == d.private[new]
      both == [that EXCEPT !.uri = IF size(this.uri) > size(that.uri) THEN this.uri ELSE that.uri,
                           !.registeredName = IF that.registeredName = None
                                                THEN this.registeredName ELSE @]
  IN  IF \/ old = new
         \/ None \notin {this.account, that.account} /\ this.account # that.account
        THEN d
        ELSE [d EXCEPT !.data = [k \in DOMAIN @ |->
                                   IF @[k] # old THEN @[k] ELSE IF k = old THEN new ELSE Deleted],
                       !.private[new] = both]

\* IndividualDirectoryPrivate::setAccount(): the address without a host now has one, and
\* is the same as what is listed for that with the same account.
setAccount(d, n, a) ==
  LET u     == Private(d, n).uri
      given == [d EXCEPT !.private[d.data[n]].account = a]
      same  == FoldLeft(LAMBDA e, k : IF Usable(e) /\ k # n /\ Private(e, k).account = a
                                        THEN merge(e, n, k) ELSE e,
                        given, Wrapper(d, Extended(u, a)))
  IN  IF u.host # None THEN given ELSE Listed(same, Extended(u, a), n)

\* The condition of fillDetails(), for an address that comes without a person.
FaultyCompatible(d, n, u, a) == \* Faulty: any account will do.
  LET number == Private(d, n)
  IN  \/ number.uri = u
      \/ /\ number.uri.host = None
         /\ number.account # None
         /\ Extended(number.uri, number.account) = u

Compatible(d, n, u, a) ==
  LET number == Private(d, n)
  IN  /\ \/ number.uri = u
         \/ /\ number.uri.host = None
            /\ number.account # None
            /\ Extended(number.uri, number.account) = u
      /\ a = None \/ number.account \in {None, a}

FaultySuits(d, n, a) == \* Faulty: no object is refused for its account.
  n \in DOMAIN d.data

Suits(d, n, a) == a = None \/ Private(d, n).account = a

Candidate(d, u, a) == First(Wrapper(d, u), {n \in DOMAIN d.data : Compatible(d, n, u, a)})
Suitable(d, a) == {n \in DOMAIN d.data : Suits(d, n, a)}

fillDetails(d, n, a) == IF a = None THEN d ELSE setAccount(d, n, a)

FaultyCreate(d, u, a) == \* Faulty: the list of the user part is made and left empty.
  LET n     == Len(d.numbers) + 1
      made  == [d EXCEPT !.numbers = Append(@, u),
                         !.data    = Append(@, n),
                         !.private = Append(@, [uri |-> u, account |-> a, registeredName |-> None])]
      named == Entered(made, UserInfo(u), <<>>)
  IN  Listed(IF a # None /\ u \notin DOMAIN d.directory THEN named ELSE made, u, n)

Create(d, u, a) ==
  LET n     == Len(d.numbers) + 1
      made  == [d EXCEPT !.numbers = Append(@, u),
                         !.data    = Append(@, n),
                         !.private = Append(@, [uri |-> u, account |-> a, registeredName |-> None])]
      named == Listed(made, UserInfo(u), n)
  IN  Listed(IF a # None /\ u \notin DOMAIN d.directory THEN named ELSE made, u, n)

\* IndividualDirectory::getNumber(), for an address that comes without a person: the
\* directory that it leaves, and its answer.
getNumber(d, u, a) ==
  LET host      == IF u.host = None /\ a # None THEN Candidate(d, Extended(u, a), a) ELSE None
      exact     == Candidate(d, u, a)
      filled    == IF exact = None THEN d ELSE fillDetails(d, exact, a)
      short     == IF a # None /\ u = Extended(u, a) /\ Usable(filled)
                     THEN First(Wrapper(filled, UserInfo(u)), Suitable(filled, a)) ELSE None
      any       == First(Wrapper(d, u), Suitable(d, a))
      Found(e, n) == [dir |-> e, number |-> n]
  IN  CASE host # None -> Found(fillDetails(d, host, a), host)
        [] host = None /\ exact # None ->
             Found(IF short = None THEN filled ELSE merge(filled, short, exact), exact)
        [] host = None /\ exact = None /\ short # None -> Found(d, short)
        [] host = None /\ exact = None /\ short = None /\ any # None -> Found(d, any)
        [] OTHER -> Found(Create(d, u, a), Len(d.numbers) + 1)
-----------------------------------------------------------------------------
Init ==
  dir = [numbers   |-> <<>>,  \* m_lNumbers: the address that each object was made for
         data      |-> <<>>,  \* its d_ptr: the object that the data was made for
         private   |-> <<>>,  \* ContactMethodPrivate: the address, account and name
         directory |-> <<>>]  \* m_hDirectory: a list of objects for each text

GetNumber(u, a) ==
  LET found == getNumber(dir, u, a)
  IN  /\ Len(found.dir.numbers) <= MaxNumbers
      /\ dir' = found.dir

\* What the loop of slotRegisteredNameFound() does with an object of the address.  A list
\* that the name has already does not get it: the test for that is the wrong way round.
Named(d, n, name, a) ==
  LET given == IF Private(d, n).account = None
                 THEN [d EXCEPT !.private[d.data[n]].account = a] ELSE d
      known == [given EXCEPT !.private[d.data[n]].registeredName =
                               IF @ = None THEN name.user ELSE @]
  IN  IF ~Suits(given, n, a) THEN given
      ELSE IF name \in DOMAIN d.directory THEN known ELSE Listed(known, name, n)

FaultySameAccount(d, n, o) == \* Faulty: it is enough that n has an account.
  n # o /\ Private(d, n).account # None

SameAccount(d, n, o) ==
  /\ n # o
  /\ Private(d, n).account # None
  /\ Private(d, n).account = Private(d, o).account

\* The name service, or the cache of its answers, has found the name of x, and the
\* objects that were made for the name are merged into the last one of the address.
slotRegisteredNameFound(x, a) ==
  LET address == [user |-> x, host |-> None]
      name    == [user |-> NameOf[x], host |-> None]
      named   == FoldLeft(LAMBDA d, n : Named(d, n, name, a), dir, Wrapper(dir, address))
      own     == LastOf(Wrapper(dir, address), Suitable(named, a))
      found   == IF own = None THEN getNumber(named, address, a)
                 ELSE [dir |-> named, number |-> own]
      merged  == FoldLeft(LAMBDA d, n : IF Usable(d) /\ SameAccount(d, n, found.number)
                                            THEN merge(d, n, found.number) ELSE d,
                          found.dir, Wrapper(found.dir, name))
  IN  /\ NameOf[x] # None
      /\ dir' = IF name \in DOMAIN named.directory THEN merged ELSE named
      /\ Len(dir'.numbers) <= MaxNumbers

Next ==
  /\ Usable(dir)
  /\ \/ \E r \in Request : GetNumber(r[1], r[2])
     \/ \E x \in User, a \in RingAccount \cup {None} : slotRegisteredNameFound(x, a)

Spec == Init /\ [][Next]_dir
=============================================================================
