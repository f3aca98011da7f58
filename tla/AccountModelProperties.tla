----------------------- MODULE AccountModelProperties -----------------------
(***************************************************************************)
(* What should be true of the accounts and of their list.                  *)
(***************************************************************************)
EXTENDS AccountModel

Account(o) == accounts.acc[o]
Quiet == daemon.queue = <<>>

BeingEdited == {"EDITING", "MODIFIED_INCOMPLETE", "MODIFIED_COMPLETE"}

AccountRecord == [id : AccountId \cup {None}, state : EditState, details : Detail]

\* The type invariant.  A row is an object, an object without a row was never
\* saved, and one that is complete or not in its state is so in its details.
TypeOK ==
  /\ DOMAIN accounts.acc \subseteq Nat \ {0}
  /\ Range(accounts.acc) \subseteq AccountRecord
  /\ accounts.rows \subseteq DOMAIN accounts.acc
  /\ \A o \in DOMAIN accounts.acc :
       /\ o \notin accounts.rows => Account(o).id = None
       /\ Account(o).state = "MODIFIED_COMPLETE" => Account(o).details \notin Incomplete
       /\ Account(o).state = "MODIFIED_INCOMPLETE" => Account(o).details \in Incomplete
  /\ {accounts.deleted, accounts.taken} \subseteq SUBSET AccountId
  /\ daemon.details \in [AccountId -> Detail \cup Absent]
  /\ daemon.queue \in Seq([signal : {"accountsChanged", "registrationStateChanged"},
                            id : AccountId \cup {None}])

\* "The account is synchronized" (account.h:197): at rest an account that is
\* READY shows the details that the daemon keeps, also after a save, whose own
\* reload does nothing, and after an edit that was cancelled.
Synchronized ==
  Quiet => \A o \in accounts.rows :
    Account(o).state = "READY" /\ Account(o).id \in Ids(daemon)
      => Account(o).details = daemon.details[Account(o).id]

\* Reloading is put off "to prevent reloading the account while it is being
\* edited" (account.cpp:2648): no signal overwrites the user's edits.
EditsSurvive ==
  [][Deliver => \A o \in DOMAIN accounts.acc \cap DOMAIN accounts'.acc :
       Account(o).state \in BeingEdited /\ accounts'.acc[o].id = Account(o).id
         => accounts'.acc[o].details = Account(o).details]_vars

\* At rest the list has the accounts of the daemon, those that other clients
\* made included and those that they removed excluded, but for what the user has
\* taken out (updateAccounts(), "Detect removed accounts", accountmodel.cpp:619).
ListMatchesDaemon ==
  LET listed == {Account(o).id : o \in accounts.rows} \ {None}
  IN  Quiet => /\ listed \subseteq Ids(daemon)
               /\ Ids(daemon) \ listed \subseteq accounts.taken

\* No account of the daemon has two rows, whichever of the two signals, the save
\* of a new account and the changes of others came first.
OneRow ==
  \A o, p \in accounts.rows :
    Account(o).id = Account(p).id /\ Account(o).id # None => o = p
=============================================================================
