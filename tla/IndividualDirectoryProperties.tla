-------------------- MODULE IndividualDirectoryProperties --------------------
(***************************************************************************)
(* What IndividualDirectory promises.                                      *)
(***************************************************************************)
EXTENDS IndividualDirectory

\* The types: an object keeps data that was made for an object of the directory, and
\* every list is of such objects.
TypeOK ==
  /\ dir.numbers \in Seq(URI) /\ Len(dir.numbers) <= MaxNumbers
  /\ dir.data \in [DOMAIN dir.numbers -> DOMAIN dir.numbers \cup {Deleted}]
  /\ dir.private \in [DOMAIN dir.numbers -> [uri : URI, account : Account \cup {None},
                                             registeredName : User \cup {None}]]
  /\ DOMAIN dir.directory \subseteq URI
  /\ \A u \in DOMAIN dir.directory :
       Len(dir.directory[u]) > 0 /\ Range(dir.directory[u]) \subseteq DOMAIN dir.numbers

\* The user that a user part stands for: with an account of the name service, the one
\* who registered it.
Person(x, a) ==
  IF a \in RingAccount /\ \E y \in User : NameOf[y] = x THEN CHOOSE y \in User : NameOf[y] = x ELSE x

\* Where a call to u with account a goes.
Destination(u, a) ==
  [user |-> Person(u.user, a), host |-> IF u.host = None /\ a # None THEN HostOf[a] ELSE u.host]

Reaches(d, n) == Destination(d.numbers[n], Private(d, n).account)

\* What the theorems assume of the name service, and of the addresses that are asked for:
\* a name is not itself an identifier with a name,
PlainNames == \A x \in User : NameOf[x] # None => NameOf[NameOf[x]] = None

\* no two users have one name,
UniqueNames == \A x, y \in User : NameOf[x] # None /\ NameOf[x] = NameOf[y] => x = y

\* and nobody asks with an account for an address of another host, nor without the name
\* service for an identifier that has a name.
ProperRequests(R) ==
  \A r \in R : r[2] # None =>
    /\ r[1].host \in {None, HostOf[r[2]]}
    /\ r[2] \in RingAccount \/ NameOf[r[1].user] = None

\* Objects that were merged reach the same peer by the same account.
MergedReachTheSame ==
  Usable(dir) =>
    \A n, o \in DOMAIN dir.numbers : dir.data[n] = dir.data[o] => Reaches(dir, n) = Reaches(dir, o)

\* The account of an object does not change once it has one, whatever it is merged with.
AccountIsKept ==
  [][ \A n \in DOMAIN dir.numbers :
        Private(dir, n).account # None /\ dir'.data[n] # Deleted =>
          Private(dir', n).account = Private(dir, n).account ]_dir

\* Nor is its registered name lost.
NameIsKept ==
  [][ \A n \in DOMAIN dir.numbers :
        Private(dir, n).registeredName # None /\ dir'.data[n] # Deleted =>
          Private(dir', n).registeredName = Private(dir, n).registeredName ]_dir

\* Asking again gives the same contact method and creates none.
AnswersAgain ==
  Usable(dir) =>
    \A r \in Request :
      LET found == getNumber(dir, r[1], r[2])
          again == getNumber(found.dir, r[1], r[2])
      IN  Usable(found.dir) =>
            /\ again.dir.numbers = found.dir.numbers
            /\ Usable(again.dir) => again.dir.data[again.number] = again.dir.data[found.number]

\* "This should always reach the same destination": individualdirectory.cpp, of an
\* address with and without the host of its account.  The contact method that is given
\* for an address and an account is one by which a message goes where it was asked for.
SameDestination ==
  Usable(dir) =>
    \A r \in Request :
      LET found == getNumber(dir, r[1], r[2])
      IN  Usable(found.dir) /\ r[2] # None =>
            Reaches(found.dir, found.number) = Destination(r[1], r[2])

\* "The ContactMethod objects remain intact, [...] existing ones will keep working":
\* contactmethod.cpp, of merge().
ExistingOnesKeepWorking == Usable(dir)
=============================================================================
