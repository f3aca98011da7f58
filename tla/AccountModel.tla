---------------------------- MODULE AccountModel ----------------------------
(***************************************************************************)
(* The accounts, src/src/account.cpp, and their list,                      *)
(* src/src/accountmodel.cpp.                                               *)
(*                                                                         *)
(* An account is edited in a copy of the details that the daemon keeps.    *)
(* The edit state says which of the two may overwrite the other.  The list *)
(* follows the daemon through two queued signals, and the user saves or    *)
(* cancels account by account or for the whole list.  Other clients of the *)
(* daemon add, change and remove accounts at the same time.                *)
(*                                                                         *)
(* The details are one value; what an account needs to be complete is the  *)
(* set Incomplete.  The order of the list is left out, and so are the      *)
(* objects that are out of the list and have an identifier, on which       *)
(* nothing acts any more.                                                  *)
(***************************************************************************)
EXTENDS Naturals, Sequences, SequencesExt

CONSTANTS
  AccountId,    \* the identifiers the daemon may give to an account
  Detail,       \* the values the details may have
  Incomplete,   \* those in which a required field is missing or invalid
  Template,     \* the details of an account that is being created
  Rewritten,    \* what the daemon may make of the details it is given
  Operations,   \* what the user does
  MaxAccounts,  \* no account is created with that many objects
  MaxQueue      \* no step of the user or of the daemon with that many signals

ASSUME DetailAssumption ==
  Incomplete \subseteq Detail /\ Template \in Detail /\ Rewritten \in Detail
ASSUME AccountIdAssumption == IsFiniteSet(AccountId)
ASSUME BoundsAssumption == MaxAccounts \in Nat /\ MaxQueue \in Nat

EditState == {"READY", "EDITING", "OUTDATED", "NEW", "MODIFIED_INCOMPLETE",
              "MODIFIED_COMPLETE", "REMOVED"}
EditAction == {"NOTHING", "EDIT", "RELOAD", "SAVE", "REMOVE", "MODIFY", "CANCEL"}

ASSUME OperationsAssumption ==
  Operations \subseteq EditAction \cup {"create", "set", "take out", "save all", "cancel all"}

None == "none"       \* the identifier of an account that was never saved
Absent == {"free", "gone"}

ASSUME NamesAssumption == None \notin AccountId /\ Detail \cap Absent = {}

VARIABLES
  accounts,     \* AccountModelPrivate and the objects it has made; the history
                \* field taken has what the user took out of the list
  daemon        \* the accounts of the daemon, and the signals not yet handled

vars == <<accounts, daemon>>

-----------------------------------------------------------------------------
(* The daemon, which is external.                                          *)

Ids(d) == {i \in AccountId : d.details[i] \notin Absent}
FreeIds(d) == {i \in AccountId : d.details[i] = "free"}

accountsChanged == [signal |-> "accountsChanged", id |-> None]

Stored(d, i, v) ==
  [d EXCEPT !.details[i] = v, !.queue = Append(@, accountsChanged)]

\* What the daemon answers to a save: it may refuse to make an account, and it
\* may keep other details than those it was given.
Answer == {"as given", "rewritten", "refused"}
Kept(answer, v) == IF answer = "rewritten" THEN Rewritten ELSE v

RoomInQueue == Len(daemon.queue) < MaxQueue

\* Another client adds, changes or removes an account.
RingAdds ==
  /\ RoomInQueue
  /\ \E i \in FreeIds(daemon) : daemon' = Stored(daemon, i, Template)
  /\ UNCHANGED accounts

RingChanges ==
  /\ RoomInQueue
  /\ \E i \in Ids(daemon), v \in Detail : daemon' = Stored(daemon, i, v)
  /\ UNCHANGED accounts

RingRemoves ==
  /\ RoomInQueue
  /\ \E i \in Ids(daemon) : daemon' = Stored(daemon, i, "gone")
  /\ UNCHANGED accounts

RingRegisters ==
  /\ RoomInQueue
  /\ \E i \in Ids(daemon) :
       daemon' = [daemon EXCEPT
         !.queue = Append(@, [signal |-> "registrationStateChanged", id |-> i])]
  /\ UNCHANGED accounts

-----------------------------------------------------------------------------
(* An account.                                                             *)

\* Faulty: an account that is being edited is reloaded.
RowThatReloads(edit, reload, save, modify, cancel) ==
  [NOTHING |-> "nothing", EDIT |-> edit, RELOAD |-> "reload", SAVE |-> save,
   REMOVE |-> "remove", MODIFY |-> modify, CANCEL |-> cancel]

Row(edit, reload, save, modify, cancel) ==
  [NOTHING |-> "nothing", EDIT |-> edit, RELOAD |-> reload, SAVE |-> save,
   REMOVE |-> "remove", MODIFY |-> modify, CANCEL |-> cancel]

stateMachineActionsOnState ==
  [s \in EditState |->
     CASE s = "READY"    -> Row("edit", "reload", "nothing", "modify", "nothing")
       [] s = "EDITING"  -> Row("nothing", "outdate", "nothing", "modify", "cancel")
       [] s = "OUTDATED" -> Row("nothing", "nothing", "nothing", "reloadMod", "reload")
       [] s = "NEW"      -> Row("nothing", "nothing", "save", "nothing", "nothing")
       [] s \in {"MODIFIED_INCOMPLETE", "MODIFIED_COMPLETE"} ->
            Row("nothing", "nothing", "save", "modify", "reload")
       [] s = "REMOVED"  -> [Row("nothing", "nothing", "nothing", "nothing", "cancel")
                               EXCEPT !.REMOVE = "nothing"]]

\* getById(), zero when there is none.
GetById(m, i) ==
  LET those == {o \in m.rows : m.acc[o].id = i}
  IN  IF those = {} THEN 0 ELSE CHOOSE o \in those : TRUE

changeState(m, o, s) == [m EXCEPT !.acc[o].state = s]

ModifiedState(v) == IF v \in Incomplete THEN "MODIFIED_INCOMPLETE" ELSE "MODIFIED_COMPLETE"

\* Faulty: an account that was complete stays so.
modifyUnvalidated(m, o) ==
  changeState(m, o, IF m.acc[o].state = "MODIFIED_COMPLETE" THEN m.acc[o].state
                    ELSE ModifiedState(m.acc[o].details))

modify(m, o) == changeState(m, o, ModifiedState(m.acc[o].details))

reload(m, d, o) ==
  LET i == m.acc[o].id
  IN  CASE i = None -> m
        [] i # None /\ i \notin Ids(d) -> changeState(m, o, "READY")
        [] OTHER -> changeState([m EXCEPT !.acc[o].details = d.details[i]], o, "READY")

\* The identifier that an account is saved under.
SavedAs(m, d, o, answer) ==
  CASE m.acc[o].id # None -> m.acc[o].id
    [] m.acc[o].id = None /\ answer # "refused" /\ FreeIds(d) # {}
                          -> CHOOSE i \in FreeIds(d) : TRUE
    [] OTHER              -> None

\* The RELOAD in the middle of save() does nothing in the states that it is
\* reached from.
save(m, d, o, answer) ==
  LET i      == SavedAs(m, d, o, answer)
      named  == [m EXCEPT !.acc[o].id = i]
      listed == IF GetById(named, i) = o THEN named
                ELSE [named EXCEPT !.rows = @ \cup {o}]
  IN  IF i = None THEN [model |-> m, daemon |-> d]
      ELSE [model  |-> changeState(listed, o, "READY"),
            daemon |-> IF i \in Ids(d) \cup FreeIds(d)
                       THEN Stored(d, i, Kept(answer, m.acc[o].details)) ELSE d]

performAction(m, d, o, a, answer) ==
  LET f == stateMachineActionsOnState[m.acc[o].state][a]
  IN  CASE f = "save"      -> save(m, d, o, answer)
        [] f = "edit"      -> [model |-> changeState(m, o, "EDITING"), daemon |-> d]
        [] f = "outdate"   -> [model |-> changeState(m, o, "OUTDATED"), daemon |-> d]
        [] f = "remove"    -> [model |-> changeState(m, o, "REMOVED"), daemon |-> d]
        [] f = "cancel"    -> [model |-> changeState(m, o, "READY"), daemon |-> d]
        [] f = "modify"    -> [model |-> modify(m, o), daemon |-> d]
        [] f = "reload"    -> [model |-> reload(m, d, o), daemon |-> d]
        [] f = "reloadMod" -> [model |-> modify(reload(m, d, o), o), daemon |-> d]
        [] f = "nothing"   -> [model |-> m, daemon |-> d]

\* What an action that does not save makes of the objects.
Acted(m, d, o, a) == performAction(m, d, o, a, "as given").model

-----------------------------------------------------------------------------
(* The list.                                                               *)

\* A new object in the list.
Inserted(m, built) ==
  LET o == Min((1..(Cardinality(DOMAIN m.acc) + 1)) \ DOMAIN m.acc)
  IN  [m EXCEPT !.acc = [p \in DOMAIN @ \cup {o} |-> IF p = o THEN built ELSE @[p]],
                !.rows = @ \cup {o}, !.taken = @ \ {built.id}]

\* buildExistingAccountFromId() and insertAccount().
AddExisting(m, d, i) ==
  Inserted(m, [id |-> i, state |-> "READY", details |-> d.details[i]])

\* An account that was never saved can still be, by who holds it.
OutOfList(m, gone) ==
  [m EXCEPT !.rows = @ \ gone,
            !.acc  = Restrict(@, {o \in DOMAIN @ : o \in gone => @[o].id = None})]

\* removeAccount().
TakenOut(m, o) ==
  [OutOfList(m, {o}) EXCEPT !.deleted = @ \cup ({m.acc[o].id} \ {None})]

\* Faulty: an account that is known is built again.
updateAllAccounts(m, d) ==
  LET lost == {o \in m.rows : m.acc[o].id \notin Ids(d)}
      left == FoldLeft(TakenOut, m, SetToSeq(lost))
  IN  FoldLeft(LAMBDA done, i : AddExisting(done, d, i), left, SetToSeq(Ids(d)))

\* Faulty: nothing is taken out of the list.
updateKnownAccounts(m, d) ==
  FoldLeft(LAMBDA done, i : IF GetById(done, i) = 0 THEN AddExisting(done, d, i)
                            ELSE Acted(done, d, GetById(done, i), "RELOAD"),
           m, SetToSeq(Ids(d)))

\* Faulty: an account that is known is not reloaded.
updateMissingAccounts(m, d) ==
  LET lost == {o \in m.rows : m.acc[o].id \notin Ids(d)}
      left == FoldLeft(TakenOut, m, SetToSeq(lost))
  IN  FoldLeft(LAMBDA done, i : IF GetById(done, i) = 0 THEN AddExisting(done, d, i) ELSE done,
               left, SetToSeq(Ids(d)))

\* "Detect removed accounts", build those that are missing, reload the others.
updateAccounts(m, d) ==
  LET lost == {o \in m.rows : m.acc[o].id \notin Ids(d)}
      left == FoldLeft(TakenOut, m, SetToSeq(lost))
  IN  FoldLeft(LAMBDA done, i : IF GetById(done, i) = 0 THEN AddExisting(done, d, i)
                                ELSE Acted(done, d, GetById(done, i), "RELOAD"),
               left, SetToSeq(Ids(d)))

\* "received account changed for non existing account".
slotDaemonAccountChanged(m, d, i) ==
  LET missing == {j \in Ids(d) : GetById(m, j) = 0 /\ j \notin m.deleted}
      built   == FoldLeft(LAMBDA done, j : AddExisting(done, d, j), m, SetToSeq(missing))
      lost    == {o \in built.rows : /\ built.acc[o].id \notin Ids(d)
                                     /\ built.acc[o].state \in {"READY", "REMOVED"}}
  IN  IF GetById(m, i) # 0 THEN m ELSE OutOfList(built, lost)

\* save() of the list: an account of the daemon that is not in it is removed.
SavedAll(m, d, answer) ==
  LET done  == FoldLeft(LAMBDA w, o : performAction(w.model, w.daemon, o, "SAVE", answer),
                        [model |-> m, daemon |-> d], SetToSeq(m.rows))
      extra == {i \in Ids(d) : GetById(done.model, i) = 0}
  IN  [model  |-> [done.model EXCEPT !.deleted = {}],
       daemon |-> FoldLeft(LAMBDA w, i : Stored(w, i, "gone"), done.daemon,
                           SetToSeq(extra))]

\* cancel() of the list.
CancelledAll(m, d) ==
  LET fresh == {o \in m.rows : m.acc[o].id = None \/ m.acc[o].state = "NEW"}
      edits == {o \in m.rows \ fresh :
                  m.acc[o].state \in {"MODIFIED_INCOMPLETE", "MODIFIED_COMPLETE"}}
      old   == {o \in m.rows \ fresh : m.acc[o].state = "OUTDATED"}
      left  == FoldLeft(TakenOut, m, SetToSeq(fresh))
      back  == FoldLeft(LAMBDA done, o : Acted(done, d, o, "CANCEL"), left, SetToSeq(edits))
      again == FoldLeft(LAMBDA done, o : Acted(done, d, o, "RELOAD"), back, SetToSeq(old))
  IN  [again EXCEPT !.deleted = {}]

-----------------------------------------------------------------------------
(* What the user does.                                                     *)

\* add(): setting the protocol of the empty account, and then its alias, makes it
\* a modified one; without an alias it is incomplete.
CreateAccount ==
  /\ "create" \in Operations /\ Cardinality(DOMAIN accounts.acc) < MaxAccounts
  /\ \E v \in Incomplete \cup {Template} :
       accounts' = Inserted(accounts, [id |-> None, state |-> ModifiedState(v), details |-> v])
  /\ UNCHANGED daemon

\* setAccountProperty() with another value.
SetAccountProperty(o) ==
  /\ "set" \in Operations
  /\ \E v \in Detail \ {accounts.acc[o].details} :
       accounts' = Acted([accounts EXCEPT !.acc[o].details = v], daemon, o, "MODIFY")
  /\ UNCHANGED daemon

PerformAction(o, a) ==
  /\ a \in Operations /\ RoomInQueue
  /\ a = "SAVE" /\ accounts.acc[o].id = None => FreeIds(daemon) # {}
  /\ \E answer \in IF a = "SAVE" THEN Answer ELSE {"as given"} :
       LET done == performAction(accounts, daemon, o, a, answer)
       IN  accounts' = done.model /\ daemon' = done.daemon

RemoveAccount(o) ==
  /\ o \in accounts.rows
  /\ "take out" \in Operations
  /\ accounts' = [TakenOut(accounts, o) EXCEPT !.taken = @ \cup ({accounts.acc[o].id} \ {None})]
  /\ UNCHANGED daemon

SaveAll ==
  /\ "save all" \in Operations /\ RoomInQueue
  /\ Cardinality({o \in accounts.rows : accounts.acc[o].id = None})
       <= Cardinality(FreeIds(daemon))
  /\ \E answer \in Answer :
       LET done == SavedAll(accounts, daemon, answer)
       IN  accounts' = done.model /\ daemon' = done.daemon

CancelAll ==
  /\ "cancel all" \in Operations
  /\ accounts' = CancelledAll(accounts, daemon)
  /\ UNCHANGED daemon

\* A queued signal.
Deliver ==
  /\ daemon.queue # <<>>
  /\ LET e == Head(daemon.queue)
     IN  accounts' = IF e.signal = "accountsChanged" THEN updateAccounts(accounts, daemon)
                     ELSE slotDaemonAccountChanged(accounts, daemon, e.id)
  /\ daemon' = [daemon EXCEPT !.queue = Tail(@)]

-----------------------------------------------------------------------------

\* The list is first filled by init().
Init ==
  \E present \in SUBSET AccountId :
    /\ daemon = [details |-> [i \in AccountId |-> IF i \in present THEN Template ELSE "free"],
                 queue |-> <<>>]
    /\ accounts = updateAccounts([acc |-> <<>>, rows |-> {}, deleted |-> {}, taken |-> {}], daemon)

User ==
  \/ CreateAccount \/ SaveAll \/ CancelAll
  \/ \E o \in DOMAIN accounts.acc :
       \/ SetAccountProperty(o) \/ RemoveAccount(o)
       \/ \E a \in EditAction : PerformAction(o, a)

Ring == RingAdds \/ RingChanges \/ RingRemoves \/ RingRegisters

Next == User \/ Ring \/ Deliver

Spec == Init /\ [][Next]_vars
=============================================================================
