---------------------------- MODULE AccountProofs ----------------------------
(***************************************************************************)
(* Theorems on AccountModel, for any number of accounts and of signals.    *)
(***************************************************************************)
EXTENDS AccountModelProperties, SequenceFolds

-----------------------------------------------------------------------------
(* The accounts and what is always true of them.                           *)

\* What an account shows is what its state says.
Lawful(c) ==
  /\ c.state # "NEW"
  /\ c.state = "MODIFIED_COMPLETE" => c.details \notin Incomplete
  /\ c.state = "MODIFIED_INCOMPLETE" => c.details \in Incomplete

\* Without the operation that removes, nothing is marked so.
Present(c) == "REMOVE" \notin Operations => c.state # "REMOVED"

Table == UNION {[D -> AccountRecord] : D \in SUBSET (Nat \ {0})}

Model == [acc : Table, rows : SUBSET Nat,
          deleted : SUBSET AccountId, taken : SUBSET AccountId]

Signal == [signal : {"accountsChanged", "registrationStateChanged"},
           id : AccountId \cup {None}]

Daemon == [details : [AccountId -> Detail \cup Absent], queue : Seq(Signal)]

\* The objects are sound: an identifier was given by the daemon, and to one row.
Sound(m, d) ==
  /\ m \in Model
  /\ IsFiniteSet(DOMAIN m.acc)
  /\ m.rows \subseteq DOMAIN m.acc
  /\ \A o \in DOMAIN m.acc :
       /\ Lawful(m.acc[o]) /\ Present(m.acc[o])
       /\ m.acc[o].id # None => d.details[m.acc[o].id] # "free"
       /\ o \notin m.rows => m.acc[o].id = None
  /\ \A o, p \in m.rows : m.acc[o].id = m.acc[p].id /\ m.acc[o].id # None => o = p

LEMMA TableDomain ==
  ASSUME NEW f \in Table
  PROVE  DOMAIN f \subseteq Nat \ {0} /\ f \in [DOMAIN f -> AccountRecord]
BY DEF Table

LEMMA TableMember ==
  ASSUME NEW D \in SUBSET (Nat \ {0}), NEW f \in [D -> AccountRecord]
  PROVE  f \in Table
BY DEF Table

\* The object that is made is a new one.
LEMMA NewObject ==
  ASSUME NEW D \in SUBSET (Nat \ {0}), IsFiniteSet(D)
  PROVE  LET o == Min((1..(Cardinality(D) + 1)) \ D)
         IN  o \in Nat \ {0} /\ o \notin D
<1> DEFINE c == Cardinality(D)
           free == (1..(c + 1)) \ D
<1>1. c \in Nat
  BY FS_CardinalityType
<1>2. free # {}
  <2> SUFFICES ASSUME 1..(c + 1) \subseteq D PROVE FALSE
    OBVIOUS
  <2>1. Cardinality(1..(c + 1)) = c + 1
    <3> HIDE DEF c
    <3>1. 1 \in Int /\ c + 1 \in Int /\ ~(1 > c + 1) /\ (c + 1) - 1 + 1 = c + 1
      BY <1>1
    <3> QED
      BY <3>1, FS_Interval
  <2>2. Cardinality(1..(c + 1)) <= c
    BY FS_Subset
  <2> QED
    BY <1>1, <2>1, <2>2
<1>3. free \in SUBSET Nat
  BY <1>1
<1>4. Min(free) \in free
  BY <1>2, <1>3, LeastNumber
<1> QED
  BY <1>1, <1>4

\* getById() finds the row that has the identifier, if any.
LEMMA FoundById ==
  ASSUME NEW m \in Model, NEW i
  PROVE  \/ GetById(m, i) = 0 /\ \A o \in m.rows : m.acc[o].id # i
         \/ GetById(m, i) \in m.rows /\ m.acc[GetById(m, i)].id = i
BY DEF GetById

LEMMA FoundIsRow ==
  ASSUME NEW m, NEW d, Sound(m, d), NEW o \in m.rows, m.acc[o].id # None
  PROVE  GetById(m, m.acc[o].id) = o /\ o # 0
<1>1. DOMAIN m.acc \subseteq Nat \ {0} /\ o \in DOMAIN m.acc /\ m \in Model
  BY TableDomain DEF Sound, Model
<1>2. GetById(m, m.acc[o].id) \in m.rows /\ m.acc[GetById(m, m.acc[o].id)].id = m.acc[o].id
  BY <1>1, FoundById
<1> QED
  BY <1>1, <1>2 DEF Sound

-----------------------------------------------------------------------------
(* What an action makes of an account.                                     *)

\* Which function each action runs.
LEMMA Cells ==
  ASSUME NEW s \in EditState \ {"NEW"}, NEW a \in EditAction
  PROVE  LET f == stateMachineActionsOnState[s][a]
         IN  \/ f = "save" /\ a = "SAVE"
             \/ f = "edit" /\ a = "EDIT" /\ s = "READY"
             \/ f = "outdate" /\ a = "RELOAD" /\ s = "EDITING"
             \/ f = "remove" /\ a = "REMOVE"
             \/ f = "cancel" /\ a = "CANCEL" /\ s \in {"EDITING", "REMOVED"}
             \/ f = "modify" /\ a = "MODIFY" /\ s \notin {"OUTDATED", "REMOVED"}
             \/ f = "reload" /\ a = "RELOAD" /\ s = "READY"
             \/ f = "reload" /\ a = "CANCEL" /\ s \notin {"READY", "EDITING", "REMOVED"}
             \/ f = "reloadMod" /\ a = "MODIFY" /\ s = "OUTDATED"
             \/ /\ f = "nothing"
                /\ a = "MODIFY" => s = "REMOVED"
                /\ a = "RELOAD" => s \notin {"READY", "EDITING"}
<1>1. CASE s = "READY"
  BY <1>1 DEF stateMachineActionsOnState, Row, EditState, EditAction
<1>2. CASE s = "EDITING"
  BY <1>2 DEF stateMachineActionsOnState, Row, EditState, EditAction
<1>3. CASE s = "OUTDATED"
  BY <1>3 DEF stateMachineActionsOnState, Row, EditState, EditAction
<1>4. CASE s \in {"MODIFIED_INCOMPLETE", "MODIFIED_COMPLETE"}
  BY <1>4 DEF stateMachineActionsOnState, Row, EditState, EditAction
<1>5. CASE s = "REMOVED"
  BY <1>5 DEF stateMachineActionsOnState, Row, EditState, EditAction
<1> QED
  BY <1>1, <1>2, <1>3, <1>4, <1>5 DEF EditState

\* The account o made another record.
Retold(m, o, r) == [m EXCEPT !.acc[o] = r]

\* An account that is not being edited shows what the daemon keeps.
Fresh(c, d) ==
  c.state \in {"READY", "EDITING"} /\ c.id \in Ids(d) => c.details = d.details[c.id]

LEMMA RetoldFields ==
  ASSUME NEW m \in Model, NEW o \in DOMAIN m.acc, NEW r \in AccountRecord
  PROVE  /\ Retold(m, o, r) \in Model
         /\ DOMAIN Retold(m, o, r).acc = DOMAIN m.acc
         /\ Retold(m, o, r).acc[o] = r
         /\ \A p \in DOMAIN m.acc : p # o => Retold(m, o, r).acc[p] = m.acc[p]
         /\ Retold(m, o, r).rows = m.rows
         /\ Retold(m, o, r).deleted = m.deleted
         /\ Retold(m, o, r).taken = m.taken
<1> DEFINE f == [m.acc EXCEPT ![o] = r]
<1>1. Retold(m, o, r) = [m EXCEPT !.acc = f]
  BY DEF Retold
<1>2. DOMAIN m.acc \subseteq Nat \ {0} /\ m.acc \in [DOMAIN m.acc -> AccountRecord]
  BY TableDomain DEF Model
<1>3. f \in [DOMAIN m.acc -> AccountRecord] /\ f[o] = r
      /\ \A p \in DOMAIN m.acc : p # o => f[p] = m.acc[p]
  BY <1>2
<1> HIDE DEF f
<1>4. f \in Table /\ DOMAIN f = DOMAIN m.acc
  BY <1>2, <1>3, TableMember
<1> QED
  BY <1>1, <1>3, <1>4 DEF Model

\* The same on one account.
Stated(c, s) == [c EXCEPT !.state = s]
Modified(c) == Stated(c, ModifiedState(c.details))
Reloaded(c, d) ==
  IF c.id = None THEN c
  ELSE IF c.id \notin Ids(d) THEN Stated(c, "READY")
  ELSE [c EXCEPT !.details = d.details[c.id], !.state = "READY"]

LEMMA RecordsChange ==
  ASSUME NEW c \in AccountRecord, NEW d \in Daemon
  PROVE  /\ \A s \in EditState : Stated(c, s) \in AccountRecord /\ Stated(c, s).state = s
                /\ Stated(c, s).id = c.id /\ Stated(c, s).details = c.details
         /\ Modified(c) \in AccountRecord /\ Modified(c).id = c.id
         /\ Modified(c).details = c.details /\ Lawful(Modified(c))
         /\ Modified(c).state \in {"MODIFIED_INCOMPLETE", "MODIFIED_COMPLETE"}
         /\ Reloaded(c, d) \in AccountRecord /\ Reloaded(c, d).id = c.id
         /\ Lawful(c) => Lawful(Reloaded(c, d))
         /\ Fresh(Reloaded(c, d), d)
<1>1. \A s \in EditState : Stated(c, s) \in AccountRecord /\ Stated(c, s).state = s
           /\ Stated(c, s).id = c.id /\ Stated(c, s).details = c.details
  BY DEF Stated, AccountRecord
<1>2. ModifiedState(c.details) \in EditState
      /\ ModifiedState(c.details) \in {"MODIFIED_INCOMPLETE", "MODIFIED_COMPLETE"}
  BY DEF ModifiedState, EditState
<1>3. Modified(c) \in AccountRecord /\ Modified(c).id = c.id
      /\ Modified(c).details = c.details /\ Lawful(Modified(c))
      /\ Modified(c).state \in {"MODIFIED_INCOMPLETE", "MODIFIED_COMPLETE"}
  BY <1>1, <1>2 DEF Modified, Lawful, ModifiedState
<1>4. c.id \in Ids(d) => d.details[c.id] \in Detail
  BY DEF Ids, Daemon
<1>5. CASE c.id = None
  <2>1. None \notin Ids(d)
    BY NamesAssumption DEF Ids
  <2> QED
    BY <1>1, <1>3, <1>5, <2>1 DEF Reloaded, Fresh
<1>6. CASE c.id # None /\ c.id \notin Ids(d)
  BY <1>1, <1>3, <1>6 DEF Reloaded, Fresh, Lawful, EditState
<1>7. CASE c.id # None /\ c.id \in Ids(d)
  <2> DEFINE r == [c EXCEPT !.details = d.details[c.id], !.state = "READY"]
  <2>1. r \in AccountRecord /\ r.id = c.id /\ r.state = "READY" /\ r.details = d.details[c.id]
    BY <1>4, <1>7 DEF AccountRecord, EditState
  <2>2. Reloaded(c, d) = r
    BY <1>7 DEF Reloaded
  <2> HIDE DEF r
  <2> QED
    BY <1>1, <1>3, <2>1, <2>2 DEF Fresh, Lawful
<1> QED
  BY <1>5, <1>6, <1>7

LEMMA Retells ==
  ASSUME NEW m \in Model, NEW d \in Daemon, NEW o \in DOMAIN m.acc
  PROVE  /\ m = Retold(m, o, m.acc[o])
         /\ \A s : changeState(m, o, s) = Retold(m, o, Stated(m.acc[o], s))
         /\ modify(m, o) = Retold(m, o, Modified(m.acc[o]))
         /\ reload(m, d, o) = Retold(m, o, Reloaded(m.acc[o], d))
<1>1. m.acc \in [DOMAIN m.acc -> AccountRecord] /\ m.acc[o] \in AccountRecord
  BY TableDomain DEF Model
<1>2. m = Retold(m, o, m.acc[o])
  <2>1. [m.acc EXCEPT ![o] = m.acc[o]] = m.acc
    BY <1>1
  <2>2. [m EXCEPT !.acc = m.acc] = m
    BY DEF Model
  <2> QED
    BY <2>1, <2>2 DEF Retold
<1>3. ASSUME NEW s PROVE changeState(m, o, s) = Retold(m, o, Stated(m.acc[o], s))
  BY <1>1 DEF changeState, Retold, Stated, Model
<1>4. modify(m, o) = Retold(m, o, Modified(m.acc[o]))
  BY <1>3 DEF modify, Modified
<1>5. reload(m, d, o) = Retold(m, o, Reloaded(m.acc[o], d))
  <2> DEFINE i == m.acc[o].id
  <2>1. CASE i = None
    BY <1>2, <2>1 DEF reload, Reloaded
  <2>2. CASE i # None /\ i \notin Ids(d)
    BY <1>3, <2>2 DEF reload, Reloaded
  <2>3. CASE i # None /\ i \in Ids(d)
    <3> DEFINE n == [m EXCEPT !.acc[o].details = d.details[i]]
               r == [m.acc[o] EXCEPT !.details = d.details[i], !.state = "READY"]
    <3>1. reload(m, d, o) = [n EXCEPT !.acc[o].state = "READY"]
      BY <2>3 DEF reload, changeState
    <3>2. [n EXCEPT !.acc[o].state = "READY"] = [m EXCEPT !.acc[o] = r]
      BY <1>1 DEF Model
    <3>3. Reloaded(m.acc[o], d) = r
      BY <2>3 DEF Reloaded
    <3> HIDE DEF n, r
    <3> QED
      BY <3>1, <3>2, <3>3 DEF Retold
  <2> QED
    BY <2>1, <2>2, <2>3
<1> QED
  BY <1>2, <1>3, <1>4, <1>5

\* What action a may make of account c.
Outcome(c, r, d, a) ==
  /\ r \in AccountRecord /\ r.id = c.id
  /\ Lawful(c) \/ a = "MODIFY" => Lawful(r)
  /\ Present(c) /\ (a = "REMOVE" => "REMOVE" \in Operations) => Present(r)
  /\ a \in {"MODIFY", "RELOAD"} \/ (Fresh(c, d) /\ c.state # "REMOVED") => Fresh(r, d)
  /\ a = "RELOAD" /\ c.state \in BeingEdited \cup {"OUTDATED"}
       => r.details = c.details /\ r.state \in BeingEdited \cup {"OUTDATED"}

LEMMA RetoldTwice ==
  ASSUME NEW m \in Model, NEW o \in DOMAIN m.acc, NEW q, NEW r
  PROVE  Retold(Retold(m, o, q), o, r) = Retold(m, o, r)
<1>1. [[m.acc EXCEPT ![o] = q] EXCEPT ![o] = r] = [m.acc EXCEPT ![o] = r]
  OBVIOUS
<1> QED
  BY <1>1 DEF Retold, Model

LEMMA ActedIs ==
  ASSUME NEW m \in Model, NEW d \in Daemon, NEW o \in DOMAIN m.acc,
         m.acc[o].state # "NEW", NEW a \in EditAction \ {"SAVE"}
  PROVE  \E r : Acted(m, d, o, a) = Retold(m, o, r) /\ Outcome(m.acc[o], r, d, a)
<1> DEFINE c == m.acc[o]
           f == stateMachineActionsOnState[c.state][a]
<1>1. /\ c \in AccountRecord /\ c.state \in EditState \ {"NEW"} /\ a \in EditAction
      /\ a # "SAVE" /\ {"EDITING", "OUTDATED", "REMOVED", "READY"} \subseteq EditState
  BY TableDomain DEF Model, AccountRecord, EditState
<1>2. /\ m = Retold(m, o, c)
      /\ \A s : changeState(m, o, s) = Retold(m, o, Stated(c, s))
      /\ modify(m, o) = Retold(m, o, Modified(c))
      /\ reload(m, d, o) = Retold(m, o, Reloaded(c, d))
  BY Retells
<1>3. /\ \A s \in EditState : Stated(c, s) \in AccountRecord /\ Stated(c, s).state = s
             /\ Stated(c, s).id = c.id /\ Stated(c, s).details = c.details
      /\ Modified(c) \in AccountRecord /\ Modified(c).id = c.id
      /\ Modified(c).details = c.details /\ Lawful(Modified(c))
      /\ Modified(c).state \in {"MODIFIED_INCOMPLETE", "MODIFIED_COMPLETE"}
      /\ Reloaded(c, d) \in AccountRecord /\ Reloaded(c, d).id = c.id
      /\ Lawful(c) => Lawful(Reloaded(c, d))
      /\ Fresh(Reloaded(c, d), d)
      /\ c.id = None => Reloaded(c, d) = c
      /\ c.id # None => Reloaded(c, d).state = "READY"
  <2>1. c.id # None => Reloaded(c, d).state = "READY"
    BY <1>1 DEF Reloaded, Stated, AccountRecord
  <2> QED
    BY <1>1, <2>1, RecordsChange DEF Reloaded
<1>4. /\ f = "save" => a = "SAVE"
      /\ f = "edit" => a = "EDIT" /\ c.state = "READY"
      /\ f = "outdate" => a = "RELOAD" /\ c.state = "EDITING"
      /\ f = "remove" => a = "REMOVE"
      /\ f = "cancel" => a = "CANCEL" /\ c.state \in {"EDITING", "REMOVED"}
      /\ f = "modify" => a = "MODIFY" /\ c.state \notin {"OUTDATED", "REMOVED"}
      /\ f = "reload" => \/ a = "RELOAD" /\ c.state = "READY"
                         \/ a = "CANCEL" /\ c.state \notin {"READY", "EDITING", "REMOVED"}
      /\ f = "reloadMod" => a = "MODIFY" /\ c.state = "OUTDATED"
      /\ f = "nothing" => /\ a = "MODIFY" => c.state = "REMOVED"
                          /\ a = "RELOAD" => c.state \notin {"READY", "EDITING"}
      /\ f \in {"save", "edit", "outdate", "remove", "cancel", "modify", "reload",
                "reloadMod", "nothing"}
  <2> DEFINE s == c.state
  <2>1. s \in EditState \ {"NEW"} /\ f = stateMachineActionsOnState[s][a]
    BY <1>1
  <2> HIDE DEF c, s, f
  <2>2. \/ f = "save" /\ a = "SAVE"
        \/ f = "edit" /\ a = "EDIT" /\ s = "READY"
        \/ f = "outdate" /\ a = "RELOAD" /\ s = "EDITING"
        \/ f = "remove" /\ a = "REMOVE"
        \/ f = "cancel" /\ a = "CANCEL" /\ s \in {"EDITING", "REMOVED"}
        \/ f = "modify" /\ a = "MODIFY" /\ s \notin {"OUTDATED", "REMOVED"}
        \/ f = "reload" /\ a = "RELOAD" /\ s = "READY"
        \/ f = "reload" /\ a = "CANCEL" /\ s \notin {"READY", "EDITING", "REMOVED"}
        \/ f = "reloadMod" /\ a = "MODIFY" /\ s = "OUTDATED"
        \/ /\ f = "nothing"
           /\ a = "MODIFY" => s = "REMOVED"
           /\ a = "RELOAD" => s \notin {"READY", "EDITING"}
    BY <2>1, Cells
  <2> QED
    BY <2>2 DEF s
<1> HIDE DEF c, f
<1>5. CASE f = "edit"
  <2>1. Acted(m, d, o, a) = Retold(m, o, Stated(c, "EDITING"))
    BY <1>2, <1>5 DEF Acted, performAction, f, c
  <2>2. Outcome(c, Stated(c, "EDITING"), d, a)
    BY <1>1, <1>3, <1>4, <1>5 DEF Outcome, Lawful, Present, Fresh
  <2> QED
    BY <2>1, <2>2 DEF c
<1>6. CASE f = "outdate"
  <2>1. Acted(m, d, o, a) = Retold(m, o, Stated(c, "OUTDATED"))
    BY <1>2, <1>6 DEF Acted, performAction, f, c
  <2>2. Outcome(c, Stated(c, "OUTDATED"), d, a)
    BY <1>1, <1>3, <1>4, <1>6 DEF Outcome, Lawful, Present, Fresh, BeingEdited
  <2> QED
    BY <2>1, <2>2 DEF c
<1>7. CASE f = "remove"
  <2>1. Acted(m, d, o, a) = Retold(m, o, Stated(c, "REMOVED"))
    BY <1>2, <1>7 DEF Acted, performAction, f, c
  <2>2. Outcome(c, Stated(c, "REMOVED"), d, a)
    BY <1>1, <1>3, <1>4, <1>7 DEF Outcome, Lawful, Present, Fresh
  <2> QED
    BY <2>1, <2>2 DEF c
<1>8. CASE f = "cancel"
  <2>1. Acted(m, d, o, a) = Retold(m, o, Stated(c, "READY"))
    BY <1>2, <1>8 DEF Acted, performAction, f, c
  <2>2. Outcome(c, Stated(c, "READY"), d, a)
    BY <1>1, <1>3, <1>4, <1>8 DEF Outcome, Lawful, Present, Fresh
  <2> QED
    BY <2>1, <2>2 DEF c
<1>9. CASE f = "modify"
  <2>1. Acted(m, d, o, a) = Retold(m, o, Modified(c))
    BY <1>2, <1>9 DEF Acted, performAction, f, c
  <2>2. Outcome(c, Modified(c), d, a)
    BY <1>1, <1>3, <1>4, <1>9 DEF Outcome, Present, Fresh
  <2> QED
    BY <2>1, <2>2 DEF c
<1>10. CASE f = "reload"
  <2>1. Acted(m, d, o, a) = Retold(m, o, Reloaded(c, d))
    BY <1>2, <1>10 DEF Acted, performAction, f, c
  <2>2. Outcome(c, Reloaded(c, d), d, a)
    BY <1>1, <1>3, <1>4, <1>10 DEF Outcome, Present, BeingEdited
  <2> QED
    BY <2>1, <2>2 DEF c
<1>11. CASE f = "reloadMod"
  <2> DEFINE q == Reloaded(c, d)
             n == Retold(m, o, q)
  <2>1. q \in AccountRecord /\ q.id = c.id
    BY <1>3
  <2> HIDE DEF q
  <2>2. n \in Model /\ o \in DOMAIN n.acc /\ n.acc[o] = q
    BY <2>1, RetoldFields
  <2>3. Acted(m, d, o, a) = modify(n, o)
    BY <1>2, <1>11 DEF Acted, performAction, f, c, q
  <2>4. modify(n, o) = Retold(n, o, Modified(q))
    <3> HIDE DEF n
    <3> QED
      BY <2>2, Retells
  <2>5. Acted(m, d, o, a) = Retold(m, o, Modified(q))
    BY <2>3, <2>4, RetoldTwice
  <2>6. /\ Modified(q) \in AccountRecord /\ Modified(q).id = c.id /\ Lawful(Modified(q))
        /\ Modified(q).state \in {"MODIFIED_INCOMPLETE", "MODIFIED_COMPLETE"}
    BY <2>1, RecordsChange
  <2>7. Outcome(c, Modified(q), d, a)
    BY <1>4, <1>11, <2>6 DEF Outcome, Present, Fresh
  <2> QED
    BY <2>5, <2>7 DEF c
<1>12. CASE f = "nothing"
  <2>1. Acted(m, d, o, a) = Retold(m, o, c)
    BY <1>2, <1>12 DEF Acted, performAction, f, c
  <2>2. Outcome(c, c, d, a)
    BY <1>1, <1>4, <1>12 DEF Outcome, Present, Fresh, Lawful
  <2> QED
    BY <2>1, <2>2 DEF c
<1> QED
  BY <1>1, <1>4, <1>5, <1>6, <1>7, <1>8, <1>9, <1>10, <1>11, <1>12

-----------------------------------------------------------------------------
(* The list and the daemon.                                                *)

\* A signal that makes the list follow the daemon is on its way.
Announced(d) == \E k \in 1..Len(d.queue) : d.queue[k].signal = "accountsChanged"

\* The list shows what the daemon has.
Level(m, d) ==
  /\ "REMOVE" \notin Operations => \A o \in m.rows : Fresh(m.acc[o], d)
  /\ \A o \in m.rows : m.acc[o].id # None => m.acc[o].id \in Ids(d)
  /\ \A i \in Ids(d) : i \in m.taken \/ \E o \in m.rows : m.acc[o].id = i

\* The inductive invariant.
Following(m, d) == Sound(m, d) /\ d \in Daemon /\ (Announced(d) \/ Level(m, d))

LEMMA SoundFacts ==
  ASSUME NEW m, NEW d, Sound(m, d)
  PROVE  /\ m \in Model /\ IsFiniteSet(DOMAIN m.acc) /\ m.rows \subseteq DOMAIN m.acc
         /\ DOMAIN m.acc \subseteq Nat \ {0} /\ m.acc \in [DOMAIN m.acc -> AccountRecord]
         /\ IsFiniteSet(m.rows)
BY TableDomain, FS_Subset DEF Sound, Model

LEMMA RetoldKeeps ==
  ASSUME NEW m, NEW d, Following(m, d), NEW o \in DOMAIN m.acc, NEW r \in AccountRecord,
         r.id = m.acc[o].id, Lawful(r), Present(r),
         "REMOVE" \notin Operations /\ Fresh(m.acc[o], d) => Fresh(r, d)
  PROVE  Following(Retold(m, o, r), d)
<1> DEFINE n == Retold(m, o, r)
<1>1. m \in Model /\ Sound(m, d)
  BY DEF Following, Sound
<1>2. /\ n \in Model /\ DOMAIN n.acc = DOMAIN m.acc /\ n.acc[o] = r
      /\ \A p \in DOMAIN m.acc : p # o => n.acc[p] = m.acc[p]
      /\ n.rows = m.rows /\ n.taken = m.taken
  BY <1>1, RetoldFields
<1> HIDE DEF n
<1>3. \A p \in DOMAIN m.acc : n.acc[p].id = m.acc[p].id
  BY <1>2
<1>4. Sound(n, d)
  BY <1>1, <1>2, <1>3 DEF Sound
<1>5. ASSUME Level(m, d) PROVE Level(n, d)
  <2>1. ASSUME "REMOVE" \notin Operations, NEW p \in n.rows PROVE Fresh(n.acc[p], d)
    BY <1>1, <1>2, <1>5, <2>1 DEF Level, Sound
  <2>2. m.rows \subseteq DOMAIN m.acc
    BY <1>1 DEF Sound
  <2> QED
    BY <1>2, <1>3, <1>5, <2>1, <2>2 DEF Level
<1> QED
  BY <1>4, <1>5 DEF Following, n

LEMMA ActedKeeps ==
  ASSUME NEW m, NEW d, Following(m, d), NEW o \in DOMAIN m.acc,
         NEW a \in EditAction \ {"SAVE"}, a = "REMOVE" => "REMOVE" \in Operations
  PROVE  Following(Acted(m, d, o, a), d) /\ DOMAIN Acted(m, d, o, a).acc = DOMAIN m.acc
<1>1. m \in Model /\ d \in Daemon /\ Lawful(m.acc[o]) /\ Present(m.acc[o])
  BY DEF Following, Sound
<1>2. PICK r : Acted(m, d, o, a) = Retold(m, o, r) /\ Outcome(m.acc[o], r, d, a)
  BY <1>1, ActedIs DEF Lawful
<1>3. /\ r \in AccountRecord /\ r.id = m.acc[o].id /\ Lawful(r) /\ Present(r)
      /\ "REMOVE" \notin Operations /\ Fresh(m.acc[o], d) => Fresh(r, d)
  BY <1>1, <1>2 DEF Outcome, Present
<1> QED
  BY <1>1, <1>2, <1>3, RetoldKeeps, RetoldFields

LEMMA OutOfListFields ==
  ASSUME NEW m \in Model, NEW gone \in SUBSET m.rows
  PROVE  LET n == OutOfList(m, gone)
         IN  /\ n \in Model
             /\ n.rows = m.rows \ gone
             /\ DOMAIN n.acc = {p \in DOMAIN m.acc : p \in gone => m.acc[p].id = None}
             /\ \A p \in DOMAIN n.acc : n.acc[p] = m.acc[p]
             /\ n.deleted = m.deleted /\ n.taken = m.taken
<1> DEFINE D == {p \in DOMAIN m.acc : p \in gone => m.acc[p].id = None}
           f == [p \in D |-> m.acc[p]]
           n == OutOfList(m, gone)
<1>1. n = [m EXCEPT !.rows = m.rows \ gone, !.acc = f]
  BY DEF OutOfList, Restrict
<1>2. DOMAIN m.acc \subseteq Nat \ {0} /\ m.acc \in [DOMAIN m.acc -> AccountRecord]
  BY TableDomain DEF Model
<1>3. D \in SUBSET (Nat \ {0}) /\ f \in [D -> AccountRecord]
      /\ DOMAIN f = D /\ \A p \in D : f[p] = m.acc[p]
  BY <1>2
<1> HIDE DEF f
<1>4. f \in Table
  BY <1>3, TableMember
<1>5. n \in Model /\ n.rows = m.rows \ gone /\ n.acc = f
      /\ n.deleted = m.deleted /\ n.taken = m.taken
  BY <1>1, <1>4 DEF Model
<1> QED
  BY <1>3, <1>5

LEMMA OutOfListSound ==
  ASSUME NEW m, NEW d, Sound(m, d), NEW gone \in SUBSET m.rows
  PROVE  Sound(OutOfList(m, gone), d)
<1> DEFINE n == OutOfList(m, gone)
<1>1. /\ n \in Model
      /\ n.rows = m.rows \ gone
      /\ DOMAIN n.acc = {p \in DOMAIN m.acc : p \in gone => m.acc[p].id = None}
      /\ \A p \in DOMAIN n.acc : n.acc[p] = m.acc[p]
  BY OutOfListFields DEF Sound
<1> HIDE DEF n
<1>2. IsFiniteSet(DOMAIN n.acc) /\ n.rows \subseteq DOMAIN n.acc
  BY <1>1, FS_Subset DEF Sound
<1>3. Sound(n, d)
  BY <1>1, <1>2 DEF Sound
<1> QED
  BY <1>3 DEF n

LEMMA SameObjects ==
  ASSUME NEW m, NEW d, Sound(m, d), NEW n \in Model, n.acc = m.acc, n.rows = m.rows
  PROVE  Sound(n, d)
BY DEF Sound

LEMMA TakenOutFields ==
  ASSUME NEW m, NEW d, Sound(m, d), NEW o \in m.rows
  PROVE  LET n == TakenOut(m, o)
         IN  /\ Sound(n, d)
             /\ n.rows = m.rows \ {o}
             /\ DOMAIN n.acc = {p \in DOMAIN m.acc : p = o => m.acc[p].id = None}
             /\ \A p \in DOMAIN n.acc : n.acc[p] = m.acc[p]
             /\ n.taken = m.taken
<1> DEFINE l == OutOfList(m, {o})
           n == TakenOut(m, o)
           del == l.deleted \cup ({m.acc[o].id} \ {None})
<1>1. /\ Sound(l, d) /\ l \in Model
      /\ l.rows = m.rows \ {o}
      /\ DOMAIN l.acc = {p \in DOMAIN m.acc : p = o => m.acc[p].id = None}
      /\ \A p \in DOMAIN l.acc : l.acc[p] = m.acc[p]
      /\ l.deleted = m.deleted /\ l.taken = m.taken
  <2> DEFINE gone == {o}
  <2>1. m \in Model /\ gone \in SUBSET m.rows /\ \A p : p \in gone <=> p = o
    BY DEF Sound
  <2> HIDE DEF gone
  <2>2. l = OutOfList(m, gone)
    BY DEF gone
  <2> HIDE DEF l
  <2>3. /\ Sound(l, d) /\ l \in Model /\ l.rows = m.rows \ gone
        /\ DOMAIN l.acc = {p \in DOMAIN m.acc : p \in gone => m.acc[p].id = None}
        /\ \A p \in DOMAIN l.acc : l.acc[p] = m.acc[p]
        /\ l.deleted = m.deleted /\ l.taken = m.taken
    BY <2>1, <2>2, OutOfListSound, OutOfListFields
  <2> QED
    BY <2>1, <2>3
<1>2. n = [l EXCEPT !.deleted = del]
  BY DEF TakenOut
<1> HIDE DEF l
<1>3. m.acc[o] \in AccountRecord /\ m.deleted \subseteq AccountId
  <2>1. o \in DOMAIN m.acc /\ m \in Model
    BY DEF Sound
  <2> QED
    BY <2>1, TableDomain DEF Model
<1>4. del \in SUBSET AccountId
  BY <1>1, <1>3 DEF AccountRecord
<1> HIDE DEF del
<1>5. n \in Model /\ n.acc = l.acc /\ n.rows = l.rows /\ n.taken = l.taken
  BY <1>1, <1>2, <1>4 DEF Model
<1> HIDE DEF n
<1>6. Sound(n, d)
  BY <1>1, <1>5, SameObjects
<1> QED
  BY <1>1, <1>5, <1>6 DEF n

LEMMA InsertedFields ==
  ASSUME NEW m, NEW d, Sound(m, d), NEW c \in AccountRecord
  PROVE  \E o \in (Nat \ {0}) \ DOMAIN m.acc :
           LET n == Inserted(m, c)
           IN  /\ n \in Model /\ IsFiniteSet(DOMAIN n.acc)
               /\ DOMAIN n.acc = DOMAIN m.acc \cup {o} /\ n.acc[o] = c
               /\ \A p \in DOMAIN m.acc : n.acc[p] = m.acc[p]
               /\ n.rows = m.rows \cup {o} /\ n.deleted = m.deleted
               /\ n.taken = m.taken \ {c.id}
<1> DEFINE o == Min((1..(Cardinality(DOMAIN m.acc) + 1)) \ DOMAIN m.acc)
           f == [p \in DOMAIN m.acc \cup {o} |-> IF p = o THEN c ELSE m.acc[p]]
           n == Inserted(m, c)
<1>1. /\ m \in Model /\ IsFiniteSet(DOMAIN m.acc)
      /\ DOMAIN m.acc \subseteq Nat \ {0} /\ m.acc \in [DOMAIN m.acc -> AccountRecord]
      /\ m.rows \subseteq DOMAIN m.acc
  BY SoundFacts
<1>2. o \in Nat \ {0} /\ o \notin DOMAIN m.acc
  BY <1>1, NewObject
<1>3. n = [m EXCEPT !.acc = f, !.rows = m.rows \cup {o}, !.taken = m.taken \ {c.id}]
  BY DEF Inserted
<1> HIDE DEF o
<1>4. DOMAIN f = DOMAIN m.acc \cup {o} /\ f[o] = c
      /\ \A p \in DOMAIN m.acc : f[p] = m.acc[p]
  BY <1>2
<1>6. f \in [DOMAIN m.acc \cup {o} -> AccountRecord]
  BY <1>1, <1>2
<1> HIDE DEF f
<1>7. f \in Table
  <2>1. DOMAIN m.acc \cup {o} \in SUBSET (Nat \ {0})
    BY <1>1, <1>2
  <2> QED
    BY <1>6, <2>1, TableMember
<1>8. /\ n \in Model /\ n.acc = f /\ n.rows = m.rows \cup {o} /\ n.deleted = m.deleted
      /\ n.taken = m.taken \ {c.id}
  <2> DEFINE rows == m.rows \cup {o}
             taken == m.taken \ {c.id}
  <2>1. rows \in SUBSET Nat /\ taken \in SUBSET AccountId
    BY <1>1, <1>2 DEF Model
  <2> HIDE DEF rows, taken
  <2>2. n = [m EXCEPT !.acc = f, !.rows = rows, !.taken = taken]
    BY <1>3 DEF rows, taken
  <2> HIDE DEF n
  <2> QED
    BY <1>1, <1>7, <2>1, <2>2 DEF Model, rows, taken
<1>9. IsFiniteSet(DOMAIN f)
  BY <1>1, <1>4, FS_AddElement
<1> QED
  BY <1>2, <1>4, <1>8, <1>9

\* An account of the daemon that has no row is given one.
LEMMA AddExistingFields ==
  ASSUME NEW m, NEW d \in Daemon, Sound(m, d), NEW i \in Ids(d),
         \A o \in m.rows : m.acc[o].id # i
  PROVE  \E o \in (Nat \ {0}) \ DOMAIN m.acc :
           LET n == AddExisting(m, d, i)
           IN  /\ Sound(n, d)
               /\ DOMAIN n.acc = DOMAIN m.acc \cup {o}
               /\ n.acc[o].id = i /\ Fresh(n.acc[o], d)
               /\ \A p \in DOMAIN m.acc : n.acc[p] = m.acc[p]
               /\ n.rows = m.rows \cup {o} /\ n.taken = m.taken \ {i}
<1> DEFINE c == [id |-> i, state |-> "READY", details |-> d.details[i]]
           n == AddExisting(m, d, i)
<1>1. i \in AccountId /\ d.details[i] \in Detail /\ d.details[i] # "free"
  BY DEF Ids, Daemon, Absent
<1>2. c \in AccountRecord /\ c.id = i /\ c.state = "READY" /\ c.details = d.details[i]
  BY <1>1 DEF AccountRecord, EditState
<1>3. n = Inserted(m, c)
  BY DEF AddExisting
<1> HIDE DEF c
<1>4. PICK o \in (Nat \ {0}) \ DOMAIN m.acc :
        /\ n \in Model /\ IsFiniteSet(DOMAIN n.acc)
        /\ DOMAIN n.acc = DOMAIN m.acc \cup {o} /\ n.acc[o] = c
        /\ \A p \in DOMAIN m.acc : n.acc[p] = m.acc[p]
        /\ n.rows = m.rows \cup {o} /\ n.taken = m.taken \ {c.id}
  BY <1>2, <1>3, InsertedFields
<1>5. Lawful(c) /\ Present(c) /\ Fresh(c, d)
  BY <1>2 DEF Lawful, Present, Fresh
<1> HIDE DEF n
<1>6. Sound(n, d)
  <2>1. n.rows \subseteq DOMAIN n.acc
    BY <1>4 DEF Sound
  <2>2. ASSUME NEW p \in DOMAIN n.acc
        PROVE  /\ Lawful(n.acc[p]) /\ Present(n.acc[p])
               /\ n.acc[p].id # None => d.details[n.acc[p].id] # "free"
               /\ p \notin n.rows => n.acc[p].id = None
    BY <1>1, <1>2, <1>4, <1>5 DEF Sound
  <2>3. ASSUME NEW p \in n.rows, NEW q \in n.rows, n.acc[p].id = n.acc[q].id,
               n.acc[p].id # None
        PROVE  p = q
    <3>1. \A r \in m.rows : n.acc[r] = m.acc[r] /\ n.acc[r].id # i
      BY <1>4 DEF Sound
    <3> QED
      BY <1>2, <1>4, <2>3, <3>1 DEF Sound
  <2> QED
    BY <1>4, <2>1, <2>2, <2>3 DEF Sound
<1> QED
  BY <1>2, <1>4, <1>5, <1>6 DEF n

-----------------------------------------------------------------------------
(* The loops over the rows and over the accounts of the daemon.            *)

\* removeAccount() of each of a set of rows.
Without(m, E) ==
  FoldLeft(TakenOut,
           m, SetToSeq(E))

LEMMA RowsTakenOut ==
  ASSUME NEW E, NEW U, NEW G, NEW m,
         Graded(E, U, G, m, [p \in U \X E |-> TakenOut(p[1], p[2])])
  PROVE  Without(m, E) \in G[E]
<1> DEFINE F == [p \in U \X E |-> TakenOut(p[1], p[2])]
           s == SetToSeq(E)
           n == Len(s)
           IsFold(h) == h = [T \in SUBSET DOMAIN s |->
                               IF T = {} THEN m
                               ELSE TakenOut(h[T \ {Max(T)}], s[Max(T)])]
           it == CHOOSE h : IsFold(h)
<1>1. Graded(E, U, G, m, F)
      /\ \A x \in U, e \in E :
           F[<<x, e>>] = TakenOut(x, e)
  OBVIOUS
<1>2. s \in Seq(E) /\ n \in Nat /\ DOMAIN s = 1..n
  BY <1>1, SequenceOfSet DEF Graded
<1> HIDE DEF F
<1>3. PICK h \in [SUBSET DOMAIN s -> U] : SetFolds(h, E, U, m, F)
  BY <1>1, SetFoldExists
<1>4. IsFold(h)
  BY <1>1, <1>3 DEF SetFolds
<1>5. SUFFICES it[1..n] \in G[E]
  BY <1>2 DEF Without, FoldLeft, MapThenFoldSet, IsFold
<1>6. SetFolds(it, E, U, m, F)
  <2> HIDE DEF IsFold
  <2>1. IsFold(it)
    BY <1>4
  <2>2. /\ it[{}] = m
        /\ \A T \in SUBSET DOMAIN s : T # {} =>
          it[T] = TakenOut(it[T \ {Max(T)}], s[Max(T)])
    BY <2>1 DEF IsFold
  <2>3. \A T \in SUBSET DOMAIN s : T # {} => s[Max(T)] \in E
    BY <1>3 DEF SetFolds
  <2> QED
    BY <1>1, <2>2, <2>3 DEF SetFolds
<1> HIDE DEF IsFold, it
<1> QED
  BY <1>1, <1>6, SetFoldReaches

BuiltOrReloaded(m, d, i) ==
  IF GetById(m, i) = 0 THEN AddExisting(m, d, i) ELSE Acted(m, d, GetById(m, i), "RELOAD")

\* updateAccounts(): each account of the daemon is built or reloaded.
Updated(m, d, E) ==
  FoldLeft(LAMBDA done, i : IF GetById(done, i) = 0 THEN AddExisting(done, d, i)
                            ELSE Acted(done, d, GetById(done, i), "RELOAD"),
           m, SetToSeq(E))

LEMMA UpdatedAll ==
  ASSUME NEW d, NEW E, NEW U, NEW G, NEW m,
         Graded(E, U, G, m, [p \in U \X E |-> BuiltOrReloaded(p[1], d, p[2])])
  PROVE  Updated(m, d, E) \in G[E]
<1> DEFINE F == [p \in U \X E |-> BuiltOrReloaded(p[1], d, p[2])]
           s == SetToSeq(E)
           n == Len(s)
           IsFold(h) == h = [T \in SUBSET DOMAIN s |->
                               IF T = {} THEN m
                               ELSE BuiltOrReloaded(h[T \ {Max(T)}], d, s[Max(T)])]
           it == CHOOSE h : IsFold(h)
<1>1. Graded(E, U, G, m, F)
      /\ \A x \in U, e \in E :
           F[<<x, e>>] = BuiltOrReloaded(x, d, e)
  OBVIOUS
<1>2. s \in Seq(E) /\ n \in Nat /\ DOMAIN s = 1..n
  BY <1>1, SequenceOfSet DEF Graded
<1> HIDE DEF F
<1>3. PICK h \in [SUBSET DOMAIN s -> U] : SetFolds(h, E, U, m, F)
  BY <1>1, SetFoldExists
<1>4. IsFold(h)
  BY <1>1, <1>3 DEF SetFolds
<1>5. SUFFICES it[1..n] \in G[E]
  BY <1>2 DEF Updated, BuiltOrReloaded, FoldLeft, MapThenFoldSet, IsFold
<1>6. SetFolds(it, E, U, m, F)
  <2> HIDE DEF IsFold
  <2>1. IsFold(it)
    BY <1>4
  <2>2. /\ it[{}] = m
        /\ \A T \in SUBSET DOMAIN s : T # {} =>
          it[T] = BuiltOrReloaded(it[T \ {Max(T)}], d, s[Max(T)])
    BY <2>1 DEF IsFold
  <2>3. \A T \in SUBSET DOMAIN s : T # {} => s[Max(T)] \in E
    BY <1>3 DEF SetFolds
  <2> QED
    BY <1>1, <2>2, <2>3 DEF SetFolds
<1> HIDE DEF IsFold, it
<1> QED
  BY <1>1, <1>6, SetFoldReaches

\* slotDaemonAccountChanged(): the accounts that are missing are built.
Built(m, d, E) ==
  FoldLeft(LAMBDA done, j : AddExisting(done, d, j),
           m, SetToSeq(E))

LEMMA BuiltAll ==
  ASSUME NEW d, NEW E, NEW U, NEW G, NEW m,
         Graded(E, U, G, m, [p \in U \X E |-> AddExisting(p[1], d, p[2])])
  PROVE  Built(m, d, E) \in G[E]
<1> DEFINE F == [p \in U \X E |-> AddExisting(p[1], d, p[2])]
           s == SetToSeq(E)
           n == Len(s)
           IsFold(h) == h = [T \in SUBSET DOMAIN s |->
                               IF T = {} THEN m
                               ELSE AddExisting(h[T \ {Max(T)}], d, s[Max(T)])]
           it == CHOOSE h : IsFold(h)
<1>1. Graded(E, U, G, m, F)
      /\ \A x \in U, e \in E :
           F[<<x, e>>] = AddExisting(x, d, e)
  OBVIOUS
<1>2. s \in Seq(E) /\ n \in Nat /\ DOMAIN s = 1..n
  BY <1>1, SequenceOfSet DEF Graded
<1> HIDE DEF F
<1>3. PICK h \in [SUBSET DOMAIN s -> U] : SetFolds(h, E, U, m, F)
  BY <1>1, SetFoldExists
<1>4. IsFold(h)
  BY <1>1, <1>3 DEF SetFolds
<1>5. SUFFICES it[1..n] \in G[E]
  BY <1>2 DEF Built, FoldLeft, MapThenFoldSet, IsFold
<1>6. SetFolds(it, E, U, m, F)
  <2> HIDE DEF IsFold
  <2>1. IsFold(it)
    BY <1>4
  <2>2. /\ it[{}] = m
        /\ \A T \in SUBSET DOMAIN s : T # {} =>
          it[T] = AddExisting(it[T \ {Max(T)}], d, s[Max(T)])
    BY <2>1 DEF IsFold
  <2>3. \A T \in SUBSET DOMAIN s : T # {} => s[Max(T)] \in E
    BY <1>3 DEF SetFolds
  <2> QED
    BY <1>1, <2>2, <2>3 DEF SetFolds
<1> HIDE DEF IsFold, it
<1> QED
  BY <1>1, <1>6, SetFoldReaches

SavedRow(w, o, answer) == performAction(w.model, w.daemon, o, "SAVE", answer)

\* save() of the list saves each row.
Saved(m, answer, E) ==
  FoldLeft(LAMBDA w, o : performAction(w.model, w.daemon, o, "SAVE", answer),
           m, SetToSeq(E))

LEMMA RowsSaved ==
  ASSUME NEW answer, NEW E, NEW U, NEW G, NEW m,
         Graded(E, U, G, m, [p \in U \X E |-> SavedRow(p[1], p[2], answer)])
  PROVE  Saved(m, answer, E) \in G[E]
<1> DEFINE F == [p \in U \X E |-> SavedRow(p[1], p[2], answer)]
           s == SetToSeq(E)
           n == Len(s)
           IsFold(h) == h = [T \in SUBSET DOMAIN s |->
                               IF T = {} THEN m
                               ELSE SavedRow(h[T \ {Max(T)}], s[Max(T)], answer)]
           it == CHOOSE h : IsFold(h)
<1>1. Graded(E, U, G, m, F)
      /\ \A x \in U, e \in E :
           F[<<x, e>>] = SavedRow(x, e, answer)
  OBVIOUS
<1>2. s \in Seq(E) /\ n \in Nat /\ DOMAIN s = 1..n
  BY <1>1, SequenceOfSet DEF Graded
<1> HIDE DEF F
<1>3. PICK h \in [SUBSET DOMAIN s -> U] : SetFolds(h, E, U, m, F)
  BY <1>1, SetFoldExists
<1>4. IsFold(h)
  BY <1>1, <1>3 DEF SetFolds
<1>5. SUFFICES it[1..n] \in G[E]
  BY <1>2 DEF Saved, SavedRow, FoldLeft, MapThenFoldSet, IsFold
<1>6. SetFolds(it, E, U, m, F)
  <2> HIDE DEF IsFold
  <2>1. IsFold(it)
    BY <1>4
  <2>2. /\ it[{}] = m
        /\ \A T \in SUBSET DOMAIN s : T # {} =>
          it[T] = SavedRow(it[T \ {Max(T)}], s[Max(T)], answer)
    BY <2>1 DEF IsFold
  <2>3. \A T \in SUBSET DOMAIN s : T # {} => s[Max(T)] \in E
    BY <1>3 DEF SetFolds
  <2> QED
    BY <1>1, <2>2, <2>3 DEF SetFolds
<1> HIDE DEF IsFold, it
<1> QED
  BY <1>1, <1>6, SetFoldReaches

\* The daemon removes each account that has no row.
Purged(m, E) ==
  FoldLeft(LAMBDA w, i : Stored(w, i, "gone"),
           m, SetToSeq(E))

LEMMA ExtraRemoved ==
  ASSUME NEW E, NEW U, NEW G, NEW m,
         Graded(E, U, G, m, [p \in U \X E |-> Stored(p[1], p[2], "gone")])
  PROVE  Purged(m, E) \in G[E]
<1> DEFINE F == [p \in U \X E |-> Stored(p[1], p[2], "gone")]
           s == SetToSeq(E)
           n == Len(s)
           IsFold(h) == h = [T \in SUBSET DOMAIN s |->
                               IF T = {} THEN m
                               ELSE Stored(h[T \ {Max(T)}], s[Max(T)], "gone")]
           it == CHOOSE h : IsFold(h)
<1>1. Graded(E, U, G, m, F)
      /\ \A x \in U, e \in E :
           F[<<x, e>>] = Stored(x, e, "gone")
  OBVIOUS
<1>2. s \in Seq(E) /\ n \in Nat /\ DOMAIN s = 1..n
  BY <1>1, SequenceOfSet DEF Graded
<1> HIDE DEF F
<1>3. PICK h \in [SUBSET DOMAIN s -> U] : SetFolds(h, E, U, m, F)
  BY <1>1, SetFoldExists
<1>4. IsFold(h)
  BY <1>1, <1>3 DEF SetFolds
<1>5. SUFFICES it[1..n] \in G[E]
  BY <1>2 DEF Purged, FoldLeft, MapThenFoldSet, IsFold
<1>6. SetFolds(it, E, U, m, F)
  <2> HIDE DEF IsFold
  <2>1. IsFold(it)
    BY <1>4
  <2>2. /\ it[{}] = m
        /\ \A T \in SUBSET DOMAIN s : T # {} =>
          it[T] = Stored(it[T \ {Max(T)}], s[Max(T)], "gone")
    BY <2>1 DEF IsFold
  <2>3. \A T \in SUBSET DOMAIN s : T # {} => s[Max(T)] \in E
    BY <1>3 DEF SetFolds
  <2> QED
    BY <1>1, <2>2, <2>3 DEF SetFolds
<1> HIDE DEF IsFold, it
<1> QED
  BY <1>1, <1>6, SetFoldReaches

\* The same action on each of a set of rows.
ActedOn(m, d, a, E) ==
  FoldLeft(LAMBDA done, o : Acted(done, d, o, a),
           m, SetToSeq(E))

LEMMA RowsActed ==
  ASSUME NEW d, NEW a, NEW E, NEW U, NEW G, NEW m,
         Graded(E, U, G, m, [p \in U \X E |-> Acted(p[1], d, p[2], a)])
  PROVE  ActedOn(m, d, a, E) \in G[E]
<1> DEFINE F == [p \in U \X E |-> Acted(p[1], d, p[2], a)]
           s == SetToSeq(E)
           n == Len(s)
           IsFold(h) == h = [T \in SUBSET DOMAIN s |->
                               IF T = {} THEN m
                               ELSE Acted(h[T \ {Max(T)}], d, s[Max(T)], a)]
           it == CHOOSE h : IsFold(h)
<1>1. Graded(E, U, G, m, F)
      /\ \A x \in U, e \in E :
           F[<<x, e>>] = Acted(x, d, e, a)
  OBVIOUS
<1>2. s \in Seq(E) /\ n \in Nat /\ DOMAIN s = 1..n
  BY <1>1, SequenceOfSet DEF Graded
<1> HIDE DEF F
<1>3. PICK h \in [SUBSET DOMAIN s -> U] : SetFolds(h, E, U, m, F)
  BY <1>1, SetFoldExists
<1>4. IsFold(h)
  BY <1>1, <1>3 DEF SetFolds
<1>5. SUFFICES it[1..n] \in G[E]
  BY <1>2 DEF ActedOn, FoldLeft, MapThenFoldSet, IsFold
<1>6. SetFolds(it, E, U, m, F)
  <2> HIDE DEF IsFold
  <2>1. IsFold(it)
    BY <1>4
  <2>2. /\ it[{}] = m
        /\ \A T \in SUBSET DOMAIN s : T # {} =>
          it[T] = Acted(it[T \ {Max(T)}], d, s[Max(T)], a)
    BY <2>1 DEF IsFold
  <2>3. \A T \in SUBSET DOMAIN s : T # {} => s[Max(T)] \in E
    BY <1>3 DEF SetFolds
  <2> QED
    BY <1>1, <2>2, <2>3 DEF SetFolds
<1> HIDE DEF IsFold, it
<1> QED
  BY <1>1, <1>6, SetFoldReaches

-----------------------------------------------------------------------------
(* updateAccounts().                                                       *)

LEMMA WithoutFields ==
  ASSUME NEW m, NEW d, Sound(m, d), NEW E \in SUBSET m.rows
  PROVE  LET n == Without(m, E)
         IN  /\ Sound(n, d) /\ n.rows = m.rows \ E /\ n.taken = m.taken
             /\ DOMAIN n.acc \subseteq DOMAIN m.acc
             /\ \A p \in DOMAIN n.acc : n.acc[p] = m.acc[p]
             /\ \A p \in DOMAIN m.acc \ DOMAIN n.acc : p \in E
<1> DEFINE G == [D \in SUBSET E |->
                   {x \in Model : /\ Sound(x, d) /\ x.rows = m.rows \ D /\ x.taken = m.taken
                                  /\ DOMAIN x.acc \subseteq DOMAIN m.acc
                                  /\ \A p \in DOMAIN x.acc : x.acc[p] = m.acc[p]
                                  /\ \A p \in DOMAIN m.acc \ DOMAIN x.acc : p \in D}]
           F == [p \in Model \X E |-> TakenOut(p[1], p[2])]
<1>1. m \in Model /\ IsFiniteSet(E)
  BY SoundFacts, FS_Subset
<1>2. m \in G[{}] /\ \A D \in SUBSET E : G[D] \subseteq Model
  BY <1>1
<1>3. ASSUME NEW D \in SUBSET E, NEW e \in E \ D, NEW x \in G[D]
      PROVE  F[<<x, e>>] \in G[D \cup {e}]
  <2> DEFINE n == TakenOut(x, e)
  <2>1. /\ x \in Model /\ Sound(x, d) /\ x.rows = m.rows \ D /\ x.taken = m.taken
        /\ DOMAIN x.acc \subseteq DOMAIN m.acc
        /\ \A p \in DOMAIN x.acc : x.acc[p] = m.acc[p]
        /\ \A p \in DOMAIN m.acc \ DOMAIN x.acc : p \in D
    OBVIOUS
  <2>2. e \in x.rows
    BY <2>1
  <2>3. /\ Sound(n, d) /\ n.rows = x.rows \ {e} /\ n.taken = x.taken
        /\ DOMAIN n.acc = {p \in DOMAIN x.acc : p = e => x.acc[p].id = None}
        /\ \A p \in DOMAIN n.acc : n.acc[p] = x.acc[p]
    BY <2>1, <2>2, TakenOutFields
  <2>4. F[<<x, e>>] = n
    BY <2>1
  <2> HIDE DEF n, F
  <2>5. n \in Model
    BY <2>3, SoundFacts
  <2>6. DOMAIN n.acc \subseteq DOMAIN x.acc /\ \A p \in DOMAIN x.acc \ DOMAIN n.acc : p = e
    BY <2>3
  <2>7. n.rows = m.rows \ (D \cup {e}) /\ n.taken = m.taken
    BY <2>1, <2>3
  <2>8. /\ DOMAIN n.acc \subseteq DOMAIN m.acc
        /\ \A p \in DOMAIN n.acc : n.acc[p] = m.acc[p]
        /\ \A p \in DOMAIN m.acc \ DOMAIN n.acc : p \in D \cup {e}
    BY <2>1, <2>3, <2>6
  <2>9. D \cup {e} \in SUBSET E
    OBVIOUS
  <2> QED
    BY <2>3, <2>4, <2>5, <2>7, <2>8, <2>9
<1> HIDE DEF G
<1>4. Graded(E, Model, G, m, F)
  BY <1>1, <1>2, <1>3 DEF Graded
<1>5. Without(m, E) \in G[E]
  BY <1>4, RowsTakenOut
<1> QED
  BY <1>5 DEF G

\* What the user edits is not overwritten, and the object of an account that the
\* daemon has stays.
Survives(m, n, d) ==
  \A o \in DOMAIN m.acc : m.acc[o].state \in BeingEdited \cup {"OUTDATED"} =>
    IF o \in DOMAIN n.acc
    THEN n.acc[o].id = m.acc[o].id => /\ n.acc[o].details = m.acc[o].details
                                      /\ n.acc[o].state \in BeingEdited \cup {"OUTDATED"}
    ELSE m.acc[o].id \notin Ids(d)

\* The list once the accounts D of the daemon are built or reloaded.
UpTo(m, n, d, D) ==
  /\ Sound(n, d) /\ Survives(m, n, d)
  /\ \A o \in n.rows : n.acc[o].id \in Ids(d)
  /\ \A i \in D : \E o \in n.rows : n.acc[o].id = i
  /\ \A o \in n.rows : n.acc[o].id \in D => Fresh(n.acc[o], d)

LEMMA BuiltOrReloadedStep ==
  ASSUME NEW m, NEW d \in Daemon, NEW D \in SUBSET Ids(d), NEW i \in Ids(d),
         NEW x, UpTo(m, x, d, D)
  PROVE  UpTo(m, BuiltOrReloaded(x, d, i), d, D \cup {i})
<1> DEFINE n == BuiltOrReloaded(x, d, i)
<1>1. /\ Sound(x, d) /\ Survives(m, x, d) /\ x \in Model /\ x.rows \subseteq DOMAIN x.acc
      /\ DOMAIN x.acc \subseteq Nat \ {0}
      /\ \A o \in x.rows : x.acc[o].id \in Ids(d)
      /\ \A j \in D : \E o \in x.rows : x.acc[o].id = j
      /\ \A o \in x.rows : x.acc[o].id \in D => Fresh(x.acc[o], d)
  BY SoundFacts DEF UpTo
<1>2. i # None
  BY NamesAssumption DEF Ids
<1>3. CASE GetById(x, i) = 0
  <2>1. \A o \in x.rows : x.acc[o].id # i
    BY <1>1, <1>3, FoundById
  <2>2. n = AddExisting(x, d, i)
    BY <1>3 DEF BuiltOrReloaded
  <2>3. PICK o \in (Nat \ {0}) \ DOMAIN x.acc :
          /\ Sound(n, d)
          /\ DOMAIN n.acc = DOMAIN x.acc \cup {o}
          /\ n.acc[o].id = i /\ Fresh(n.acc[o], d)
          /\ \A p \in DOMAIN x.acc : n.acc[p] = x.acc[p]
          /\ n.rows = x.rows \cup {o}
    BY <1>1, <2>1, <2>2, AddExistingFields
  <2> HIDE DEF n
  <2>4. Survives(m, n, d)
    BY <1>1, <2>3 DEF Survives
  <2>5. \A p \in x.rows : n.acc[p] = x.acc[p]
    BY <1>1, <2>3
  <2>6. /\ \A p \in n.rows : n.acc[p].id \in Ids(d)
        /\ \A j \in D \cup {i} : \E p \in n.rows : n.acc[p].id = j
        /\ \A p \in n.rows : n.acc[p].id \in D \cup {i} => Fresh(n.acc[p], d)
    BY <1>1, <2>1, <2>3, <2>5
  <2> QED
    BY <2>3, <2>4, <2>6 DEF UpTo, n
<1>4. CASE GetById(x, i) # 0
  <2> DEFINE o == GetById(x, i)
             c == x.acc[o]
  <2>1. o \in x.rows /\ c.id = i /\ o \in DOMAIN x.acc
    BY <1>1, <1>4, FoundById
  <2>2. n = Acted(x, d, o, "RELOAD")
    BY <1>4 DEF BuiltOrReloaded
  <2>3. Lawful(c) /\ Present(c)
    BY <1>1, <2>1 DEF Sound
  <2> HIDE DEF o
  <2>4. PICK r : n = Retold(x, o, r) /\ Outcome(c, r, d, "RELOAD")
    <3>1. "RELOAD" \in EditAction \ {"SAVE"}
      BY DEF EditAction
    <3> QED
      BY <1>1, <2>1, <2>2, <2>3, <3>1, ActedIs DEF Lawful
  <2>5. /\ r \in AccountRecord /\ r.id = i /\ Lawful(r) /\ Present(r) /\ Fresh(r, d)
        /\ c.state \in BeingEdited \cup {"OUTDATED"}
             => r.details = c.details /\ r.state \in BeingEdited \cup {"OUTDATED"}
    BY <2>1, <2>3, <2>4 DEF Outcome
  <2> HIDE DEF n
  <2>6. /\ n \in Model /\ DOMAIN n.acc = DOMAIN x.acc /\ n.acc[o] = r
        /\ \A p \in DOMAIN x.acc : p # o => n.acc[p] = x.acc[p]
        /\ n.rows = x.rows
    BY <1>1, <2>1, <2>4, <2>5, RetoldFields
  <2>7. \A p \in DOMAIN x.acc : n.acc[p].id = x.acc[p].id
    BY <2>1, <2>5, <2>6
  <2>8. Sound(n, d)
    BY <1>1, <2>5, <2>6, <2>7 DEF Sound
  <2>9. Survives(m, n, d)
    <3> SUFFICES ASSUME NEW p \in DOMAIN m.acc, p \in DOMAIN n.acc,
                        m.acc[p].state \in BeingEdited \cup {"OUTDATED"},
                        n.acc[p].id = m.acc[p].id
                 PROVE  /\ n.acc[p].details = m.acc[p].details
                        /\ n.acc[p].state \in BeingEdited \cup {"OUTDATED"}
      BY <1>1, <2>6 DEF Survives
    <3>1. /\ x.acc[p].details = m.acc[p].details
          /\ x.acc[p].state \in BeingEdited \cup {"OUTDATED"}
      BY <1>1, <2>6, <2>7 DEF Survives
    <3> QED
      BY <2>5, <2>6, <3>1
  <2>10. /\ \A p \in n.rows : n.acc[p].id \in Ids(d)
         /\ \A j \in D \cup {i} : \E p \in n.rows : n.acc[p].id = j
    BY <1>1, <2>1, <2>6, <2>7
  <2>11. ASSUME NEW p \in n.rows, n.acc[p].id \in D \cup {i} PROVE Fresh(n.acc[p], d)
    <3>1. CASE p = o
      BY <2>5, <2>6, <3>1
    <3>2. CASE p # o
      <4>1. p \in x.rows /\ n.acc[p] = x.acc[p]
        BY <1>1, <2>6, <3>2
      <4>2. x.acc[p].id # i
        BY <1>1, <1>2, <2>1, <3>2, <4>1 DEF Sound
      <4> QED
        BY <1>1, <2>11, <4>1, <4>2
    <3> QED
      BY <3>1, <3>2
  <2> QED
    BY <2>8, <2>9, <2>10, <2>11 DEF UpTo, n
<1> QED
  BY <1>3, <1>4

LEMMA UpdateAccounts ==
  ASSUME NEW m, NEW d \in Daemon, Sound(m, d)
  PROVE  LET n == updateAccounts(m, d)
         IN  Sound(n, d) /\ Level(n, d) /\ Survives(m, n, d)
<1> DEFINE lost == {o \in m.rows : m.acc[o].id \notin Ids(d)}
           left == Without(m, lost)
           n == updateAccounts(m, d)
           E == Ids(d)
           G == [D \in SUBSET E |-> {x \in Model : UpTo(m, x, d, D)}]
           F == [p \in Model \X E |-> BuiltOrReloaded(p[1], d, p[2])]
<1>1. n = Updated(left, d, E)
  BY DEF updateAccounts, Updated, Without
<1>2. /\ Sound(left, d) /\ left.rows = m.rows \ lost /\ left.taken = m.taken
      /\ DOMAIN left.acc \subseteq DOMAIN m.acc
      /\ \A p \in DOMAIN left.acc : left.acc[p] = m.acc[p]
      /\ \A p \in DOMAIN m.acc \ DOMAIN left.acc : p \in lost
  <2> HIDE DEF left
  <2>1. lost \in SUBSET m.rows
    OBVIOUS
  <2> HIDE DEF lost
  <2> QED
    BY <2>1, WithoutFields DEF left
<1>3. left \in Model /\ left.rows \subseteq DOMAIN left.acc
  BY <1>2, SoundFacts
<1> HIDE DEF left, n
<1>4. UpTo(m, left, d, {})
  <2>1. \A o \in left.rows : left.acc[o].id \in Ids(d)
    BY <1>2, <1>3
  <2>2. Survives(m, left, d)
    BY <1>2 DEF Survives
  <2> QED
    BY <1>2, <2>1, <2>2 DEF UpTo
<1>5. IsFiniteSet(E)
  BY AccountIdAssumption, FS_Subset DEF Ids
<1>6. ASSUME NEW D \in SUBSET E, NEW e \in E \ D, NEW x \in G[D]
      PROVE  F[<<x, e>>] \in G[D \cup {e}]
  <2>1. x \in Model /\ UpTo(m, x, d, D)
    OBVIOUS
  <2>2. F[<<x, e>>] = BuiltOrReloaded(x, d, e)
    BY <2>1
  <2>3. UpTo(m, BuiltOrReloaded(x, d, e), d, D \cup {e})
    BY <2>1, BuiltOrReloadedStep
  <2>4. BuiltOrReloaded(x, d, e) \in Model
    BY <2>3 DEF UpTo, Sound
  <2> HIDE DEF E, F
  <2>5. D \cup {e} \in SUBSET E
    OBVIOUS
  <2> QED
    BY <2>2, <2>3, <2>4, <2>5
<1>7. left \in G[{}] /\ \A D \in SUBSET E : G[D] \subseteq Model
  BY <1>3, <1>4
<1> HIDE DEF G, F, E
<1>8. Graded(E, Model, G, left, F)
  BY <1>5, <1>6, <1>7 DEF Graded
<1>9. n \in G[E]
  BY <1>1, <1>8, UpdatedAll DEF F
<1>10. UpTo(m, n, d, Ids(d))
  BY <1>9 DEF G, E
<1>11. Level(n, d)
  BY <1>10 DEF UpTo, Level
<1> QED
  BY <1>10, <1>11 DEF UpTo, n

-----------------------------------------------------------------------------
(* slotDaemonAccountChanged().                                             *)

\* The list m with a row for each of the accounts D.
With(m, n, d, D) ==
  /\ Sound(n, d)
  /\ DOMAIN m.acc \subseteq DOMAIN n.acc
  /\ \A p \in DOMAIN m.acc : n.acc[p] = m.acc[p]
  /\ m.rows \subseteq n.rows
  /\ \A o \in n.rows \ m.rows : n.acc[o].id \in D /\ Fresh(n.acc[o], d)
  /\ \A i \in D : \E o \in n.rows : n.acc[o].id = i
  /\ m.taken \ D \subseteq n.taken

LEMMA BuiltStep ==
  ASSUME NEW m, NEW d \in Daemon, Sound(m, d), NEW i \in Ids(d),
         \A o \in m.rows : m.acc[o].id # i, NEW D, i \notin D, NEW x, With(m, x, d, D)
  PROVE  With(m, AddExisting(x, d, i), d, D \cup {i})
<1> DEFINE n == AddExisting(x, d, i)
<1>1. m.rows \subseteq DOMAIN m.acc /\ x.rows \subseteq DOMAIN x.acc /\ Sound(x, d)
  BY DEF Sound, With
<1>2. \A o \in x.rows : x.acc[o].id # i
  BY <1>1 DEF With
<1>3. PICK o \in (Nat \ {0}) \ DOMAIN x.acc :
        /\ Sound(n, d)
        /\ DOMAIN n.acc = DOMAIN x.acc \cup {o}
        /\ n.acc[o].id = i /\ Fresh(n.acc[o], d)
        /\ \A p \in DOMAIN x.acc : n.acc[p] = x.acc[p]
        /\ n.rows = x.rows \cup {o} /\ n.taken = x.taken \ {i}
  BY <1>1, <1>2, AddExistingFields
<1> HIDE DEF n
<1>4. DOMAIN m.acc \subseteq DOMAIN n.acc /\ \A p \in DOMAIN m.acc : n.acc[p] = m.acc[p]
  BY <1>3 DEF With
<1>5. \A p \in x.rows : n.acc[p] = x.acc[p]
  BY <1>1, <1>3
<1>6. /\ m.rows \subseteq n.rows
      /\ \A p \in n.rows \ m.rows : n.acc[p].id \in D \cup {i} /\ Fresh(n.acc[p], d)
      /\ \A j \in D \cup {i} : \E p \in n.rows : n.acc[p].id = j
      /\ m.taken \ (D \cup {i}) \subseteq n.taken
  BY <1>3, <1>5 DEF With
<1> QED
  BY <1>3, <1>4, <1>6 DEF With, n

LEMMA AccountChanged ==
  ASSUME NEW m, NEW d \in Daemon, Sound(m, d), NEW i
  PROVE  LET n == slotDaemonAccountChanged(m, d, i)
         IN  /\ Sound(n, d) /\ (Level(m, d) => Level(n, d))
             /\ \A o \in DOMAIN m.acc \cap DOMAIN n.acc : n.acc[o] = m.acc[o]
<1> DEFINE E == {j \in Ids(d) : GetById(m, j) = 0 /\ j \notin m.deleted}
           built == Built(m, d, E)
           lost == {o \in built.rows : /\ built.acc[o].id \notin Ids(d)
                                       /\ built.acc[o].state \in {"READY", "REMOVED"}}
           n == OutOfList(built, lost)
           G == [D \in SUBSET E |-> {x \in Model : With(m, x, d, D)}]
           F == [p \in Model \X E |-> AddExisting(p[1], d, p[2])]
<1>1. slotDaemonAccountChanged(m, d, i) = IF GetById(m, i) # 0 THEN m ELSE n
  BY DEF slotDaemonAccountChanged, Built
<1>2. m \in Model /\ m.rows \subseteq DOMAIN m.acc /\ DOMAIN m.acc \subseteq Nat \ {0}
  BY SoundFacts
<1>3. \A j \in E : j \in Ids(d) /\ \A o \in m.rows : m.acc[o].id # j
  BY <1>2, FoundById
<1>4. IsFiniteSet(E) /\ E \subseteq Ids(d)
  <2>1. E \subseteq Ids(d) /\ Ids(d) \subseteq AccountId
    BY DEF Ids
  <2> QED
    BY <2>1, AccountIdAssumption, FS_Subset
<1> HIDE DEF E, built
<1>5. ASSUME NEW D \in SUBSET E, NEW e \in E \ D, NEW x \in G[D]
      PROVE  F[<<x, e>>] \in G[D \cup {e}]
  <2>1. x \in Model /\ With(m, x, d, D)
    OBVIOUS
  <2>2. F[<<x, e>>] = AddExisting(x, d, e)
    BY <2>1
  <2>3. With(m, AddExisting(x, d, e), d, D \cup {e})
    BY <1>3, <2>1, BuiltStep
  <2>4. AddExisting(x, d, e) \in Model
    BY <2>3 DEF With, Sound
  <2> HIDE DEF F
  <2>5. D \cup {e} \in SUBSET E
    OBVIOUS
  <2> QED
    BY <2>2, <2>3, <2>4, <2>5
<1>6. m \in G[{}] /\ \A D \in SUBSET E : G[D] \subseteq Model
  BY <1>2 DEF With
<1> HIDE DEF G, F
<1>7. Graded(E, Model, G, m, F)
  BY <1>4, <1>5, <1>6 DEF Graded
<1>8. built \in G[E]
  BY <1>7, BuiltAll DEF F, built
<1>9. With(m, built, d, E) /\ built \in Model
  BY <1>8 DEF G
<1>10. lost \in SUBSET built.rows
  OBVIOUS
<1>11. /\ n.rows = built.rows \ lost
       /\ DOMAIN n.acc \subseteq DOMAIN built.acc
       /\ \A p \in DOMAIN n.acc : n.acc[p] = built.acc[p]
       /\ n.taken = built.taken
       /\ Sound(n, d)
  <2> HIDE DEF lost
  <2>1. Sound(built, d)
    BY <1>9 DEF With
  <2> QED
    BY <1>9, <1>10, <2>1, OutOfListFields, OutOfListSound
<1> HIDE DEF n
<1>12. \A o \in DOMAIN m.acc \cap DOMAIN n.acc : n.acc[o] = m.acc[o]
  BY <1>9, <1>11 DEF With
<1>13. ASSUME Level(m, d) PROVE Level(n, d)
  <2>1. \A p \in n.rows : p \in built.rows /\ n.acc[p] = built.acc[p]
    BY <1>11 DEF Sound
  <2>2. \A p \in m.rows : built.acc[p] = m.acc[p]
    BY <1>2, <1>9 DEF With
  <2>3. \A p \in built.rows \ m.rows : built.acc[p].id \in Ids(d) /\ Fresh(built.acc[p], d)
    BY <1>4, <1>9 DEF With
  <2>4. "REMOVE" \notin Operations => \A o \in n.rows : Fresh(n.acc[o], d)
    BY <1>13, <2>1, <2>2, <2>3 DEF Level
  <2>5. \A o \in n.rows : n.acc[o].id # None => n.acc[o].id \in Ids(d)
    BY <1>13, <2>1, <2>2, <2>3 DEF Level
  <2>6. \A j \in Ids(d) : j \in built.taken \/ \E o \in built.rows : built.acc[o].id = j
    BY <1>9, <1>13, <2>2 DEF Level, With
  <2>7. \A o \in built.rows : built.acc[o].id \in Ids(d) => o \in n.rows
    BY <1>11
  <2>8. \A j \in Ids(d) : j \in n.taken \/ \E o \in n.rows : n.acc[o].id = j
    BY <1>11, <2>1, <2>6, <2>7
  <2> QED
    BY <2>4, <2>5, <2>8 DEF Level
<1> QED
  BY <1>1, <1>11, <1>12, <1>13

-----------------------------------------------------------------------------
(* The daemon.                                                             *)

\* The list depends on the details that the daemon keeps and not on its signals.
LEMMA SameDetails ==
  ASSUME NEW m, NEW d, NEW e, d.details = e.details
  PROVE  (Sound(m, d) => Sound(m, e)) /\ (Level(m, d) => Level(m, e))
BY DEF Sound, Level, Fresh, Ids

LEMMA StoredFields ==
  ASSUME NEW d \in Daemon, NEW i \in AccountId, NEW v \in Detail \cup {"gone"}
  PROVE  LET e == Stored(d, i, v)
         IN  /\ e \in Daemon /\ Announced(e)
             /\ e.details[i] # "free"
             /\ \A j \in AccountId : j # i => e.details[j] = d.details[j]
<1> DEFINE e == Stored(d, i, v)
           q == Append(d.queue, accountsChanged)
           f == [d.details EXCEPT ![i] = v]
<1>1. d.queue \in Seq(Signal) /\ d.details \in [AccountId -> Detail \cup Absent]
  BY DEF Daemon
<1>2. accountsChanged \in Signal /\ accountsChanged.signal = "accountsChanged"
  BY DEF accountsChanged, Signal
<1>3. q \in Seq(Signal) /\ Len(q) \in 1..Len(q) /\ q[Len(q)] = accountsChanged
  BY <1>1, <1>2
<1>4. v \in Detail \cup Absent /\ v # "free"
  BY NamesAssumption DEF Absent
<1>5. f \in [AccountId -> Detail \cup Absent] /\ f[i] # "free"
      /\ \A j \in AccountId : j # i => f[j] = d.details[j]
  BY <1>1, <1>4
<1>6. e = [d EXCEPT !.details = f, !.queue = q]
  BY DEF Stored
<1> HIDE DEF f, q
<1>7. e \in Daemon /\ e.details = f /\ e.queue = q
  BY <1>3, <1>5, <1>6 DEF Daemon
<1> HIDE DEF e
<1>8. Announced(e)
  BY <1>2, <1>3, <1>7 DEF Announced
<1> QED
  BY <1>5, <1>7, <1>8 DEF e

LEMMA StoredKeeps ==
  ASSUME NEW m, NEW d \in Daemon, Sound(m, d), NEW i \in AccountId,
         NEW v \in Detail \cup {"gone"}
  PROVE  Following(m, Stored(d, i, v))
<1> DEFINE e == Stored(d, i, v)
<1>1. /\ e \in Daemon /\ Announced(e)
      /\ e.details[i] # "free"
      /\ \A j \in AccountId : j # i => e.details[j] = d.details[j]
  BY StoredFields
<1> HIDE DEF e
<1>2. \A o \in DOMAIN m.acc : m.acc[o].id # None => m.acc[o].id \in AccountId
  BY SoundFacts DEF AccountRecord
<1>3. Sound(m, e)
  BY <1>1, <1>2 DEF Sound
<1> QED
  BY <1>1, <1>3 DEF Following, e

\* A signal that was handled is gone, and the others are still to come.
LEMMA HandledFields ==
  ASSUME NEW d \in Daemon, d.queue # <<>>
  PROVE  LET e == [d EXCEPT !.queue = Tail(@)]
         IN  /\ e \in Daemon /\ e.details = d.details
             /\ Head(d.queue) \in Signal
             /\ Announced(d) /\ Head(d.queue).signal # "accountsChanged" => Announced(e)
<1> DEFINE q == d.queue
           t == Tail(q)
           e == [d EXCEPT !.queue = t]
<1>1. q \in Seq(Signal) /\ q # <<>>
  BY DEF Daemon
<1>2. t \in Seq(Signal) /\ Head(q) \in Signal /\ Head(q) = q[1]
      /\ Len(t) = Len(q) - 1 /\ \A k \in 1..Len(t) : t[k] = q[k + 1]
  <2> HIDE DEF q
  <2> QED
    BY <1>1
<1>3. Len(q) \in Nat
  BY <1>1
<1> HIDE DEF t
<1>4. e \in Daemon /\ e.details = d.details /\ e.queue = t
  BY <1>2 DEF Daemon
<1>5. ASSUME Announced(d), Head(q).signal # "accountsChanged" PROVE Announced(e)
  <2>1. PICK k \in 1..Len(q) : q[k].signal = "accountsChanged"
    BY <1>5 DEF Announced
  <2> HIDE DEF q
  <2>2. k # 1
    BY <1>2, <1>5, <2>1
  <2>3. k - 1 \in 1..Len(t) /\ t[k - 1] = q[k]
    <3>1. k - 1 \in 1..Len(t) /\ (k - 1) + 1 = k
      BY <1>2, <1>3, <2>1, <2>2
    <3> QED
      BY <1>2, <3>1
  <2> QED
    BY <1>4, <2>1, <2>3 DEF Announced
<1> QED
  BY <1>2, <1>4, <1>5 DEF t

-----------------------------------------------------------------------------
(* save() of an account and of the list, cancel() of the list.             *)

LEMMA SavedAsIs ==
  ASSUME NEW m, NEW d, NEW o, NEW answer
  PROVE  LET i == SavedAs(m, d, o, answer)
         IN  i = None \/ (m.acc[o].id # None /\ i = m.acc[o].id)
             \/ (m.acc[o].id = None /\ i \in FreeIds(d))
BY DEF SavedAs

\* The account is kept by the daemon, under the identifier it had or a new one.
LEMMA SaveKeeps ==
  ASSUME NEW m, NEW d, Following(m, d), NEW o \in DOMAIN m.acc, NEW answer
  PROVE  LET w == save(m, d, o, answer)
         IN  Following(w.model, w.daemon) /\ DOMAIN w.model.acc = DOMAIN m.acc
<1> DEFINE i == SavedAs(m, d, o, answer)
           c == m.acc[o]
           q == [c EXCEPT !.id = i]
           named == Retold(m, o, q)
           listed == IF GetById(named, i) = o THEN named
                     ELSE [named EXCEPT !.rows = @ \cup {o}]
           n == changeState(listed, o, "READY")
           e == IF i \in Ids(d) \cup FreeIds(d)
                THEN Stored(d, i, Kept(answer, c.details)) ELSE d
           w == save(m, d, o, answer)
<1>1. /\ m \in Model /\ d \in Daemon /\ c \in AccountRecord /\ Sound(m, d)
      /\ m.rows \subseteq DOMAIN m.acc /\ DOMAIN m.acc \subseteq Nat \ {0}
  BY SoundFacts DEF Following
<1>2. [m EXCEPT !.acc[o].id = i] = named
  BY DEF Retold
<1>3. w = IF i = None THEN [model |-> m, daemon |-> d] ELSE [model |-> n, daemon |-> e]
  BY <1>2 DEF save
<1>4. i = None \/ (c.id # None /\ i = c.id) \/ (c.id = None /\ i \in FreeIds(d))
  BY SavedAsIs
<1>5. Kept(answer, c.details) \in Detail
  BY <1>1, DetailAssumption DEF Kept, AccountRecord
<1> HIDE DEF i
<1>6. CASE i = None
  BY <1>3, <1>6
<1>7. CASE i # None /\ c.id # None
  <2>1. i = c.id /\ q = c /\ o \in m.rows
    BY <1>1, <1>4, <1>7 DEF Sound, AccountRecord
  <2>2. named = m
    BY <1>1, <2>1, Retells
  <2>3. listed = m
    BY <1>1, <1>7, <2>1, <2>2, FoundIsRow
  <2> DEFINE r == Stated(c, "READY")
  <2>4. n = Retold(m, o, r)
    BY <1>1, <2>3, Retells
  <2>5. r \in AccountRecord /\ r.id = c.id /\ Lawful(r) /\ Present(r)
    <3>1. r \in AccountRecord /\ r.id = c.id /\ r.state = "READY"
      BY <1>1 DEF Stated, AccountRecord, EditState
    <3> QED
      BY <3>1 DEF Lawful, Present
  <2>6. DOMAIN n.acc = DOMAIN m.acc
    BY <1>1, <2>4, <2>5, RetoldFields
  <2>7. CASE i \in Ids(d)
    <3> HIDE DEF n, r
    <3>1. Sound(n, d)
      <4> DEFINE l == Retold(m, o, r)
      <4>1. /\ l \in Model /\ DOMAIN l.acc = DOMAIN m.acc /\ l.acc[o] = r
            /\ \A p \in DOMAIN m.acc : p # o => l.acc[p] = m.acc[p]
            /\ l.rows = m.rows
        BY <1>1, <2>5, RetoldFields
      <4> HIDE DEF l
      <4>2. \A p \in DOMAIN m.acc : l.acc[p].id = m.acc[p].id
        BY <2>5, <4>1
      <4>3. Sound(l, d)
        BY <1>1, <2>5, <4>1, <4>2 DEF Sound
      <4> QED
        BY <2>4, <4>3 DEF l
    <3>2. i \in AccountId /\ e = Stored(d, i, Kept(answer, c.details))
      BY <2>7 DEF Ids
    <3>3. Following(n, e)
      BY <1>1, <1>5, <3>1, <3>2, StoredKeeps
    <3> QED
      BY <1>3, <1>7, <2>6, <3>3
  <2>8. CASE i \notin Ids(d)
    <3>1. i \notin FreeIds(d)
      BY <1>1, <1>7, <2>1 DEF FreeIds, Sound
    <3>2. e = d
      BY <2>8, <3>1
    <3> HIDE DEF n, r, e
    <3>3. Fresh(r, d)
      BY <2>1, <2>5, <2>8 DEF Fresh
    <3>4. Following(n, d)
      BY <2>4, <2>5, <3>3, RetoldKeeps
    <3> QED
      BY <1>3, <1>7, <2>6, <3>2, <3>4
  <2> QED
    BY <2>7, <2>8
<1>8. CASE i # None /\ c.id = None
  <2>1. i \in FreeIds(d) /\ i \in AccountId /\ d.details[i] = "free"
    BY <1>4, <1>8 DEF FreeIds
  <2>2. q \in AccountRecord /\ q.id = i /\ q.details = c.details
    BY <1>1, <2>1 DEF AccountRecord
  <2> DEFINE r == Stated(q, "READY")
  <2>3. r \in AccountRecord /\ r.id = i /\ r.state = "READY"
    BY <2>2 DEF Stated, AccountRecord, EditState
  <2> HIDE DEF q
  <2>4. named \in Model /\ DOMAIN named.acc = DOMAIN m.acc /\ named.rows = m.rows
    BY <1>1, <2>2, RetoldFields
  <2> DEFINE l == [named EXCEPT !.rows = @ \cup {o}]
  <2>5. listed = l
    <3>1. CASE GetById(named, i) = o
      <4>1. o \in named.rows
        BY <1>1, <2>4, <3>1, FoundById
      <4>2. named.rows \cup {o} = named.rows
        BY <4>1
      <4>3. l = [named EXCEPT !.rows = named.rows]
        BY <4>2
      <4>4. l = named
        <5> HIDE DEF named, l
        <5> QED
          BY <2>4, <4>3 DEF Model
      <4> QED
        BY <3>1, <4>4
    <3> QED
      BY <3>1
  <2> DEFINE f == [m EXCEPT !.rows = @ \cup {o}]
  <2>6. f \in Model /\ f.rows = m.rows \cup {o} /\ f.acc = m.acc /\ o \in DOMAIN f.acc
    BY <1>1 DEF Model
  <2>7. l = Retold(f, o, q)
    BY DEF Retold
  <2>8. l \in Model /\ o \in DOMAIN l.acc /\ l.acc[o] = q
    <3> HIDE DEF l, f
    <3> QED
      BY <2>2, <2>6, <2>7, RetoldFields
  <2>9. n = Retold(l, o, r)
    <3> HIDE DEF l, listed
    <3>1. changeState(l, o, "READY") = Retold(l, o, Stated(l.acc[o], "READY"))
      BY <1>1, <2>8, Retells
    <3> QED
      BY <2>5, <2>8, <3>1
  <2>10. n = Retold(f, o, r)
    <3> HIDE DEF l, f, n, r
    <3> QED
      BY <2>6, <2>7, <2>9, RetoldTwice
  <2> HIDE DEF l, f, n, r, named, listed
  <2>11. /\ n \in Model /\ DOMAIN n.acc = DOMAIN m.acc /\ n.acc[o] = r
         /\ \A p \in DOMAIN m.acc : p # o => n.acc[p] = m.acc[p]
         /\ n.rows = m.rows \cup {o}
    BY <2>3, <2>6, <2>10, RetoldFields
  <2>12. \A p \in DOMAIN m.acc : m.acc[p].id # i
    BY <1>1, <1>8, <2>1 DEF Sound
  <2>13. e = Stored(d, i, Kept(answer, c.details))
    BY <2>1
  <2> DEFINE v == Kept(answer, c.details)
  <2> HIDE DEF v, c, e
  <2>14. /\ e \in Daemon /\ Announced(e)
         /\ e.details[i] # "free"
         /\ \A j \in AccountId : j # i => e.details[j] = d.details[j]
    BY <1>1, <1>5, <2>1, <2>13, StoredFields DEF v
  <2>15. Sound(n, e)
    <3>1. IsFiniteSet(DOMAIN n.acc) /\ n.rows \subseteq DOMAIN n.acc
      BY <1>1, <2>11 DEF Sound
    <3>2. Lawful(r) /\ Present(r)
      BY <2>3 DEF Lawful, Present
    <3>3. \A p \in DOMAIN m.acc : m.acc[p].id # None => m.acc[p].id \in AccountId
      BY <1>1, SoundFacts DEF AccountRecord
    <3>4. ASSUME NEW p \in DOMAIN n.acc
          PROVE  /\ Lawful(n.acc[p]) /\ Present(n.acc[p])
                 /\ n.acc[p].id # None => e.details[n.acc[p].id] # "free"
                 /\ p \notin n.rows => n.acc[p].id = None
      <4>1. CASE p = o
        BY <2>3, <2>11, <2>14, <3>2, <4>1
      <4>2. CASE p # o
        BY <1>1, <2>11, <2>12, <2>14, <3>3, <4>2 DEF Sound
      <4> QED
        BY <4>1, <4>2
    <3>5. ASSUME NEW p \in n.rows, NEW x \in n.rows, n.acc[p].id = n.acc[x].id,
                 n.acc[p].id # None
          PROVE  p = x
      BY <1>1, <2>3, <2>11, <2>12, <3>5 DEF Sound
    <3> QED
      BY <2>11, <3>1, <3>4, <3>5 DEF Sound
  <2> QED
    BY <1>3, <1>8, <2>11, <2>14, <2>15 DEF Following
<1> QED
  BY <1>6, <1>7, <1>8

LEMMA SaveIsPair ==
  ASSUME NEW m \in Model, NEW d \in Daemon, NEW o \in DOMAIN m.acc,
         m.acc[o].state # "NEW", NEW answer
  PROVE  LET w == performAction(m, d, o, "SAVE", answer)
         IN  w = [model |-> w.model, daemon |-> w.daemon]
<1> DEFINE s == m.acc[o].state
           f == stateMachineActionsOnState[s]["SAVE"]
           w == performAction(m, d, o, "SAVE", answer)
<1>1. s \in EditState \ {"NEW"} /\ "SAVE" \in EditAction
  BY TableDomain DEF Model, AccountRecord, EditAction
<1> HIDE DEF s, f
<1>2. f \in {"save", "nothing"}
  BY <1>1, Cells DEF f
<1>3. w = save(m, d, o, answer) \/ w = [model |-> m, daemon |-> d]
  BY <1>2 DEF performAction, f, s
<1>4. \E n, e : w = [model |-> n, daemon |-> e]
  BY <1>3 DEF save
<1> HIDE DEF w
<1> QED
  BY <1>4 DEF w

LEMMA SavePerformed ==
  ASSUME NEW m, NEW d, Following(m, d), NEW o \in DOMAIN m.acc, NEW answer
  PROVE  LET w == performAction(m, d, o, "SAVE", answer)
         IN  /\ Following(w.model, w.daemon) /\ DOMAIN w.model.acc = DOMAIN m.acc
             /\ w = [model |-> w.model, daemon |-> w.daemon]
<1> DEFINE s == m.acc[o].state
           f == stateMachineActionsOnState[s]["SAVE"]
           w == performAction(m, d, o, "SAVE", answer)
           v == save(m, d, o, answer)
<1>1. s \in EditState \ {"NEW"} /\ "SAVE" \in EditAction
  BY SoundFacts DEF Following, Sound, Lawful, AccountRecord, EditAction
<1> HIDE DEF s, f
<1>2. f \in {"save", "nothing"}
  BY <1>1, Cells DEF f
<1>3. w = v \/ w = [model |-> m, daemon |-> d]
  BY <1>2 DEF performAction, f, s
<1>4. Following(v.model, v.daemon) /\ DOMAIN v.model.acc = DOMAIN m.acc
  BY SaveKeeps
<1>5. v = [model |-> v.model, daemon |-> v.daemon]
  BY DEF save
<1> HIDE DEF w, v
<1>6. Following(w.model, w.daemon) /\ DOMAIN w.model.acc = DOMAIN m.acc
      /\ w = [model |-> w.model, daemon |-> w.daemon]
  BY <1>3, <1>4, <1>5
<1> QED
  BY <1>6 DEF w

\* Whatever else the user asks of an account, the daemon is left as it is.
LEMMA PerformKeeps ==
  ASSUME NEW m, NEW d, Following(m, d), NEW o \in DOMAIN m.acc,
         NEW a \in EditAction \ {"SAVE"}, a = "REMOVE" => "REMOVE" \in Operations
  PROVE  LET w == performAction(m, d, o, a, "as given")
         IN  w.daemon = d /\ Following(w.model, d)
<1> DEFINE s == m.acc[o].state
           f == stateMachineActionsOnState[s][a]
<1>1. s \in EditState \ {"NEW"}
  BY SoundFacts DEF Following, Sound, Lawful, AccountRecord
<1> HIDE DEF s, f
<1>2. f \in {"edit", "outdate", "remove", "cancel", "modify", "reload", "reloadMod", "nothing"}
  BY <1>1, Cells DEF f
<1>3. performAction(m, d, o, a, "as given").daemon = d
  BY <1>2 DEF performAction, f, s
<1>4. Following(Acted(m, d, o, a), d)
  BY ActedKeeps
<1> QED
  BY <1>3, <1>4 DEF Acted

\* What was taken out of the list is forgotten.
LEMMA ForgottenFields ==
  ASSUME NEW m, NEW d, Following(m, d)
  PROVE  LET n == [m EXCEPT !.deleted = {}] IN Following(n, d) /\ n.acc = m.acc
<1> DEFINE n == [m EXCEPT !.deleted = {}]
<1>1. m \in Model
  BY DEF Following, Sound
<1>2. n \in Model /\ n.acc = m.acc /\ n.rows = m.rows /\ n.taken = m.taken
  BY <1>1 DEF Model
<1> HIDE DEF n
<1>3. (Sound(m, d) => Sound(n, d)) /\ (Level(m, d) => Level(n, d))
  BY <1>2 DEF Sound, Level
<1>4. Following(n, d)
  BY <1>3 DEF Following
<1> QED
  BY <1>2, <1>4 DEF n

LEMMA SaveAllKeeps ==
  ASSUME NEW m, NEW d, Following(m, d), NEW answer
  PROVE  LET w == SavedAll(m, d, answer) IN Following(w.model, w.daemon)
<1> DEFINE Both == [model : Model, daemon : Daemon]
           b == [model |-> m, daemon |-> d]
           R == m.rows
           G == [D \in SUBSET R |-> {x \in Both : /\ Following(x.model, x.daemon)
                                                  /\ DOMAIN x.model.acc = DOMAIN m.acc}]
           F == [p \in Both \X R |-> SavedRow(p[1], p[2], answer)]
           done == Saved(b, answer, R)
           E == {i \in Ids(d) : GetById(done.model, i) = 0}
           H == [D \in SUBSET E |-> {x \in Daemon : Following(done.model, x)}]
           K == [p \in Daemon \X E |-> Stored(p[1], p[2], "gone")]
           n == [done.model EXCEPT !.deleted = {}]
           e == Purged(done.daemon, E)
<1>1. SavedAll(m, d, answer) = [model |-> n, daemon |-> e]
  BY DEF SavedAll, Saved, Purged, FoldLeft, MapThenFoldSet
<1>2. /\ m \in Model /\ d \in Daemon /\ IsFiniteSet(R) /\ R \subseteq DOMAIN m.acc
  BY SoundFacts DEF Following
<1>3. IsFiniteSet(E) /\ E \subseteq AccountId
  <2>1. E \subseteq AccountId
    BY DEF Ids
  <2> QED
    BY <2>1, AccountIdAssumption, FS_Subset
<1> HIDE DEF done, E, n, e
<1>4. done \in G[R]
  <2>1. b \in G[{}] /\ \A D \in SUBSET R : G[D] \subseteq Both
    BY <1>2
  <2>2. ASSUME NEW D \in SUBSET R, NEW o \in R \ D, NEW x \in G[D]
        PROVE  F[<<x, o>>] \in G[D \cup {o}]
    <3> DEFINE y == SavedRow(x, o, answer)
    <3>1. x \in Both /\ Following(x.model, x.daemon) /\ DOMAIN x.model.acc = DOMAIN m.acc
      OBVIOUS
    <3>2. F[<<x, o>>] = y
      BY <3>1
    <3>3. o \in DOMAIN x.model.acc
      BY <1>2, <3>1
    <3>4. /\ Following(y.model, y.daemon) /\ DOMAIN y.model.acc = DOMAIN x.model.acc
          /\ y = [model |-> y.model, daemon |-> y.daemon]
      BY <3>1, <3>3, SavePerformed DEF SavedRow
    <3> HIDE DEF y
    <3>5. y \in Both /\ DOMAIN y.model.acc = DOMAIN m.acc
      <4>1. y.model \in Model /\ y.daemon \in Daemon
        BY <3>4 DEF Following, Sound
      <4> QED
        BY <3>1, <3>4, <4>1
    <3> HIDE DEF y, F, Both, R
    <3>6. D \cup {o} \in SUBSET R
      OBVIOUS
    <3> QED
      BY <3>2, <3>4, <3>5, <3>6
  <2> HIDE DEF G, F, Both, R, b
  <2>3. Graded(R, Both, G, b, F)
    BY <1>2, <2>1, <2>2 DEF Graded
  <2> QED
    BY <2>3, RowsSaved DEF F, done
<1>5. Following(done.model, done.daemon)
  BY <1>4
<1>6. e \in H[E]
  <2>1. done.daemon \in H[{}] /\ \A D \in SUBSET E : H[D] \subseteq Daemon
    BY <1>5 DEF Following
  <2>2. ASSUME NEW D \in SUBSET E, NEW i \in E \ D, NEW x \in H[D]
        PROVE  K[<<x, i>>] \in H[D \cup {i}]
    <3> DEFINE y == Stored(x, i, "gone")
    <3>1. x \in Daemon /\ Following(done.model, x)
      OBVIOUS
    <3>2. K[<<x, i>>] = y
      BY <3>1
    <3>3. Following(done.model, y)
      BY <1>3, <3>1, StoredKeeps DEF Following
    <3>4. y \in Daemon
      BY <3>3 DEF Following
    <3> HIDE DEF y, K
    <3>5. D \cup {i} \in SUBSET E
      OBVIOUS
    <3> QED
      BY <3>2, <3>3, <3>4, <3>5
  <2> HIDE DEF H, K
  <2>3. Graded(E, Daemon, H, done.daemon, K)
    BY <1>3, <2>1, <2>2 DEF Graded
  <2> QED
    BY <2>3, ExtraRemoved DEF K, e
<1>7. Following(done.model, e)
  BY <1>6
<1>8. Following(n, e)
  BY <1>7, ForgottenFields DEF n
<1> QED
  BY <1>1, <1>8

LEMMA ActedOnKeeps ==
  ASSUME NEW m, NEW d, Following(m, d), NEW E \in SUBSET DOMAIN m.acc,
         NEW a \in {"CANCEL", "RELOAD"}
  PROVE  LET n == ActedOn(m, d, a, E)
         IN  Following(n, d) /\ DOMAIN n.acc = DOMAIN m.acc
<1> DEFINE G == [D \in SUBSET E |-> {x \in Model : /\ Following(x, d)
                                                   /\ DOMAIN x.acc = DOMAIN m.acc}]
           F == [p \in Model \X E |-> Acted(p[1], d, p[2], a)]
<1>1. m \in Model /\ IsFiniteSet(E)
  BY SoundFacts, FS_Subset DEF Following
<1>2. m \in G[{}] /\ \A D \in SUBSET E : G[D] \subseteq Model
  BY <1>1
<1>3. ASSUME NEW D \in SUBSET E, NEW o \in E \ D, NEW x \in G[D]
      PROVE  F[<<x, o>>] \in G[D \cup {o}]
  <2> DEFINE y == Acted(x, d, o, a)
  <2>1. x \in Model /\ Following(x, d) /\ o \in DOMAIN x.acc /\ DOMAIN x.acc = DOMAIN m.acc
    OBVIOUS
  <2>2. F[<<x, o>>] = y
    BY <2>1
  <2>3. a \in EditAction \ {"SAVE"} /\ a # "REMOVE"
    BY DEF EditAction
  <2>4. Following(y, d) /\ DOMAIN y.acc = DOMAIN m.acc
    BY <2>1, <2>3, ActedKeeps
  <2>5. y \in Model
    BY <2>4 DEF Following, Sound
  <2> HIDE DEF y, F
  <2>6. D \cup {o} \in SUBSET E
    OBVIOUS
  <2> QED
    BY <2>2, <2>4, <2>5, <2>6
<1> HIDE DEF G, F
<1>4. Graded(E, Model, G, m, F)
  BY <1>1, <1>2, <1>3 DEF Graded
<1>5. ActedOn(m, d, a, E) \in G[E]
  BY <1>4, RowsActed DEF F
<1> QED
  BY <1>5 DEF G

LEMMA CancelAllKeeps ==
  ASSUME NEW m, NEW d, Following(m, d)
  PROVE  Following(CancelledAll(m, d), d)
<1> DEFINE fresh == {o \in m.rows : m.acc[o].id = None \/ m.acc[o].state = "NEW"}
           edits == {o \in m.rows \ fresh :
                       m.acc[o].state \in {"MODIFIED_INCOMPLETE", "MODIFIED_COMPLETE"}}
           old   == {o \in m.rows \ fresh : m.acc[o].state = "OUTDATED"}
           left  == Without(m, fresh)
           back  == ActedOn(left, d, "CANCEL", edits)
           again == ActedOn(back, d, "RELOAD", old)
<1>1. CancelledAll(m, d) = [again EXCEPT !.deleted = {}]
  BY DEF CancelledAll, Without, ActedOn, FoldLeft, MapThenFoldSet
<1>2. /\ Sound(m, d) /\ m.rows \subseteq DOMAIN m.acc /\ fresh \in SUBSET m.rows
      /\ \A o \in fresh : m.acc[o].id = None
      /\ edits \subseteq m.rows \ fresh /\ old \subseteq m.rows \ fresh
  BY DEF Following, Sound, Lawful
<1> HIDE DEF fresh, edits, old, left, back, again
<1>3. /\ Sound(left, d) /\ left.rows = m.rows \ fresh /\ left.taken = m.taken
      /\ DOMAIN left.acc \subseteq DOMAIN m.acc
      /\ \A p \in DOMAIN left.acc : left.acc[p] = m.acc[p]
      /\ left.rows \subseteq DOMAIN left.acc
  BY <1>2, WithoutFields, SoundFacts DEF left
<1>4. Following(left, d)
  <2>1. ASSUME Level(m, d) PROVE Level(left, d)
    <3>1. None \notin Ids(d)
      BY NamesAssumption DEF Ids
    <3>2. \A p \in left.rows : p \in m.rows /\ left.acc[p] = m.acc[p]
      BY <1>3
    <3>3. \A p \in m.rows : p \in left.rows \/ m.acc[p].id = None
      BY <1>2, <1>3
    <3> QED
      BY <1>3, <2>1, <3>1, <3>2, <3>3 DEF Level
  <2> QED
    BY <1>3, <2>1 DEF Following
<1>5. Following(back, d) /\ DOMAIN back.acc = DOMAIN left.acc
  <2>1. edits \in SUBSET DOMAIN left.acc
    BY <1>2, <1>3
  <2> QED
    BY <1>4, <2>1, ActedOnKeeps DEF back
<1>6. Following(again, d)
  <2>1. old \in SUBSET DOMAIN back.acc
    BY <1>2, <1>3, <1>5
  <2> QED
    BY <1>5, <2>1, ActedOnKeeps DEF again
<1> QED
  BY <1>1, <1>6, ForgottenFields

-----------------------------------------------------------------------------
(* The theorems.                                                           *)

IInv == Following(accounts, daemon)

\* The list that init() fills follows the daemon.
LEMMA InitFollows == Init => IInv
<1> SUFFICES ASSUME Init PROVE IInv
  OBVIOUS
<1> DEFINE m == [acc |-> <<>>, rows |-> {}, deleted |-> {}, taken |-> {}]
<1>1. PICK present \in SUBSET AccountId :
        /\ daemon = [details |-> [i \in AccountId |-> IF i \in present THEN Template ELSE "free"],
                     queue |-> <<>>]
        /\ accounts = updateAccounts(m, daemon)
  BY DEF Init
<1>2. daemon \in Daemon
  <2>1. [i \in AccountId |-> IF i \in present THEN Template ELSE "free"]
          \in [AccountId -> Detail \cup Absent]
    BY DetailAssumption DEF Absent
  <2> QED
    BY <1>1, <2>1 DEF Daemon
<1>3. Sound(m, daemon)
  <2>1. DOMAIN m.acc = {}
    OBVIOUS
  <2>2. m.acc \in [{} -> AccountRecord]
    OBVIOUS
  <2>3. m.acc \in Table
    BY <2>2, TableMember
  <2>4. m \in Model
    BY <2>3 DEF Model
  <2> QED
    BY <2>1, <2>4, FS_EmptySet DEF Sound
<1> HIDE DEF m
<1>4. Sound(accounts, daemon) /\ Level(accounts, daemon)
  BY <1>1, <1>2, <1>3, UpdateAccounts
<1> QED
  BY <1>2, <1>4 DEF IInv, Following

LEMMA UserFollows ==
  ASSUME IInv, User
  PROVE  IInv'
<1> USE DEF IInv
<1>1. /\ accounts \in Model /\ daemon \in Daemon /\ Sound(accounts, daemon)
      /\ DOMAIN accounts.acc \subseteq Nat \ {0}
      /\ accounts.rows \subseteq DOMAIN accounts.acc
      /\ accounts.acc \in [DOMAIN accounts.acc -> AccountRecord]
  BY SoundFacts DEF Following
<1>2. CASE CreateAccount
  <2>1. PICK v \in Incomplete \cup {Template} :
          accounts' = Inserted(accounts, [id |-> None, state |-> ModifiedState(v), details |-> v])
    BY <1>2 DEF CreateAccount
  <2> DEFINE c == [id |-> None, state |-> ModifiedState(v), details |-> v]
  <2>2. c \in AccountRecord /\ c.id = None /\ Lawful(c) /\ Present(c)
    BY DetailAssumption DEF AccountRecord, ModifiedState, EditState, Lawful, Present
  <2>3. daemon' = daemon /\ accounts' = Inserted(accounts, c)
    BY <1>2, <2>1 DEF CreateAccount
  <2> HIDE DEF c
  <2> DEFINE n == Inserted(accounts, c)
  <2>4. PICK o \in (Nat \ {0}) \ DOMAIN accounts.acc :
          /\ n \in Model /\ IsFiniteSet(DOMAIN n.acc)
          /\ DOMAIN n.acc = DOMAIN accounts.acc \cup {o} /\ n.acc[o] = c
          /\ \A p \in DOMAIN accounts.acc : n.acc[p] = accounts.acc[p]
          /\ n.rows = accounts.rows \cup {o}
          /\ n.taken = accounts.taken \ {c.id}
    BY <1>1, <2>2, InsertedFields
  <2> HIDE DEF n
  <2>5. \A p \in accounts.rows : n.acc[p] = accounts.acc[p]
    BY <1>1, <2>4
  <2>6. Sound(n, daemon)
    <3>1. n.rows \subseteq DOMAIN n.acc
      BY <1>1, <2>4
    <3>2. \A p \in DOMAIN n.acc :
            /\ Lawful(n.acc[p]) /\ Present(n.acc[p])
            /\ n.acc[p].id # None => daemon.details[n.acc[p].id] # "free"
            /\ p \notin n.rows => n.acc[p].id = None
      BY <1>1, <2>2, <2>4 DEF Sound
    <3>3. \A p, q \in n.rows : n.acc[p].id = n.acc[q].id /\ n.acc[p].id # None => p = q
      BY <1>1, <2>2, <2>4, <2>5 DEF Sound
    <3> QED
      BY <2>4, <3>1, <3>2, <3>3 DEF Sound
  <2>7. ASSUME Level(accounts, daemon) PROVE Level(n, daemon)
    <3>1. None \notin Ids(daemon)
      BY NamesAssumption DEF Ids
    <3>2. Fresh(c, daemon)
      BY <2>2, <3>1 DEF Fresh
    <3>3. "REMOVE" \notin Operations => \A p \in n.rows : Fresh(n.acc[p], daemon)
      BY <2>4, <2>5, <2>7, <3>2 DEF Level
    <3>4. \A p \in n.rows : n.acc[p].id # None => n.acc[p].id \in Ids(daemon)
      BY <2>2, <2>4, <2>5, <2>7 DEF Level
    <3>5. \A i \in Ids(daemon) : i \in n.taken \/ \E p \in n.rows : n.acc[p].id = i
      BY <2>2, <2>4, <2>5, <2>7, <3>1 DEF Level
    <3> QED
      BY <3>3, <3>4, <3>5 DEF Level
  <2>8. Following(n, daemon)
    BY <2>6, <2>7 DEF Following
  <2> QED
    BY <2>3, <2>8 DEF n
<1>3. CASE SaveAll
  <2>1. PICK answer \in Answer :
          /\ accounts' = SavedAll(accounts, daemon, answer).model
          /\ daemon' = SavedAll(accounts, daemon, answer).daemon
    BY <1>3 DEF SaveAll
  <2> QED
    BY <2>1, SaveAllKeeps
<1>4. CASE CancelAll
  BY <1>4, CancelAllKeeps DEF CancelAll
<1>5. ASSUME NEW o \in DOMAIN accounts.acc, SetAccountProperty(o) PROVE IInv'
  <2>1. PICK v \in Detail : accounts' = Acted([accounts EXCEPT !.acc[o].details = v], daemon, o, "MODIFY")
    BY <1>5 DEF SetAccountProperty
  <2> DEFINE c == accounts.acc[o]
             q == [c EXCEPT !.details = v]
             n == Retold(accounts, o, q)
  <2>2. daemon' = daemon /\ accounts' = Acted(n, daemon, o, "MODIFY")
    BY <1>5, <2>1 DEF SetAccountProperty, Retold
  <2>3. c \in AccountRecord /\ Lawful(c) /\ Present(c)
    BY <1>1 DEF Sound
  <2>4. q \in AccountRecord /\ q.id = c.id /\ q.state = c.state
    BY <2>3 DEF AccountRecord
  <2> HIDE DEF q
  <2>5. n \in Model /\ o \in DOMAIN n.acc /\ n.acc[o] = q
    BY <1>1, <2>4, RetoldFields
  <2>6. PICK r : Acted(n, daemon, o, "MODIFY") = Retold(n, o, r) /\ Outcome(q, r, daemon, "MODIFY")
    <3> HIDE DEF n, c
    <3>1. "MODIFY" \in EditAction \ {"SAVE"} /\ n.acc[o].state # "NEW"
      BY <2>3, <2>4, <2>5 DEF EditAction, Lawful
    <3> QED
      BY <1>1, <2>5, <3>1, ActedIs
  <2>7. accounts' = Retold(accounts, o, r)
    BY <1>1, <2>2, <2>6, RetoldTwice
  <2>8. r \in AccountRecord /\ r.id = c.id /\ Lawful(r) /\ Present(r) /\ Fresh(r, daemon)
    BY <2>3, <2>4, <2>6 DEF Outcome, Present
  <2>9. Following(Retold(accounts, o, r), daemon)
    BY <2>8, RetoldKeeps
  <2> QED
    BY <2>2, <2>7, <2>9
<1>6. ASSUME NEW o \in DOMAIN accounts.acc, RemoveAccount(o) PROVE IInv'
  <2> DEFINE l == TakenOut(accounts, o)
             t == accounts.taken \cup ({accounts.acc[o].id} \ {None})
             n == [l EXCEPT !.taken = t]
  <2>1. o \in accounts.rows /\ daemon' = daemon
    BY <1>6 DEF RemoveAccount
  <2>2. /\ Sound(l, daemon)
        /\ l.rows = accounts.rows \ {o}
        /\ DOMAIN l.acc = {p \in DOMAIN accounts.acc : p = o => accounts.acc[p].id = None}
        /\ \A p \in DOMAIN l.acc : l.acc[p] = accounts.acc[p]
        /\ l.taken = accounts.taken
    BY <1>1, <2>1, TakenOutFields
  <2> HIDE DEF l
  <2>3. accounts' = n
    BY <1>6, <2>2 DEF RemoveAccount, l
  <2>4. t \in SUBSET AccountId
    BY <1>1, <2>1 DEF Model, AccountRecord
  <2> HIDE DEF t
  <2>5. n \in Model /\ n.acc = l.acc /\ n.rows = l.rows /\ n.taken = t
    BY <2>2, <2>4, SoundFacts DEF Model
  <2> HIDE DEF n
  <2>6. Sound(n, daemon)
    BY <2>2, <2>5 DEF Sound
  <2>7. ASSUME Level(accounts, daemon) PROVE Level(n, daemon)
    <3>1. \A p \in n.rows : p \in accounts.rows /\ n.acc[p] = accounts.acc[p]
      BY <2>2, <2>5, SoundFacts
    <3>2. \A p \in accounts.rows : p \in n.rows \/ p = o
      BY <2>2, <2>5
    <3>3. None \notin Ids(daemon)
      BY NamesAssumption DEF Ids
    <3>4. \A i \in Ids(daemon) : i \in n.taken \/ \E p \in n.rows : n.acc[p].id = i
      BY <2>5, <2>7, <3>1, <3>2, <3>3 DEF Level, t
    <3> QED
      BY <2>7, <3>1, <3>4 DEF Level
  <2> QED
    BY <1>1, <2>1, <2>3, <2>6, <2>7 DEF Following
<1>7. ASSUME NEW o \in DOMAIN accounts.acc, NEW a \in EditAction, PerformAction(o, a)
      PROVE  IInv'
  <2>1. CASE a = "SAVE"
    <3>1. PICK answer \in Answer :
            /\ accounts' = performAction(accounts, daemon, o, "SAVE", answer).model
            /\ daemon' = performAction(accounts, daemon, o, "SAVE", answer).daemon
      BY <1>7, <2>1 DEF PerformAction
    <3> QED
      BY <3>1, SavePerformed
  <2>2. CASE a # "SAVE"
    <3>1. /\ accounts' = performAction(accounts, daemon, o, a, "as given").model
          /\ daemon' = performAction(accounts, daemon, o, a, "as given").daemon
          /\ a \in Operations
      BY <1>7, <2>2 DEF PerformAction
    <3> DEFINE w == performAction(accounts, daemon, o, a, "as given")
    <3>2. a \in EditAction \ {"SAVE"} /\ (a = "REMOVE" => "REMOVE" \in Operations)
      BY <2>2, <3>1
    <3>3. w.daemon = daemon /\ Following(w.model, daemon)
      BY <3>2, PerformKeeps
    <3> HIDE DEF w
    <3> QED
      BY <3>1, <3>3 DEF w
  <2> QED
    BY <2>1, <2>2
<1> QED
  BY <1>2, <1>3, <1>4, <1>5, <1>6, <1>7 DEF User

LEMMA RingFollows ==
  ASSUME IInv, Ring
  PROVE  IInv'
<1> USE DEF IInv
<1>1. daemon \in Daemon /\ Sound(accounts, daemon) /\ Ids(daemon) \subseteq AccountId
      /\ FreeIds(daemon) \subseteq AccountId
  BY DEF Following, Ids, FreeIds
<1>2. ASSUME NEW i \in AccountId, NEW v \in Detail \cup {"gone"},
             daemon' = Stored(daemon, i, v), accounts' = accounts
      PROVE  IInv'
  BY <1>1, <1>2, StoredKeeps
<1>3. CASE RingAdds
  BY <1>1, <1>2, <1>3, DetailAssumption DEF RingAdds
<1>4. CASE RingChanges
  BY <1>1, <1>2, <1>4 DEF RingChanges
<1>5. CASE RingRemoves
  BY <1>1, <1>2, <1>5 DEF RingRemoves
<1>6. CASE RingRegisters
  <2>1. PICK i \in Ids(daemon) :
          daemon' = [daemon EXCEPT
            !.queue = Append(@, [signal |-> "registrationStateChanged", id |-> i])]
    BY <1>6 DEF RingRegisters
  <2> DEFINE q == daemon.queue
             e == [signal |-> "registrationStateChanged", id |-> i]
             t == Append(q, e)
  <2>2. q \in Seq(Signal) /\ e \in Signal
    BY <1>1 DEF Daemon, Signal
  <2> HIDE DEF e
  <2>3. t \in Seq(Signal) /\ \A k \in 1..Len(q) : k \in 1..Len(t) /\ t[k] = q[k]
    <3> HIDE DEF q
    <3> QED
      BY <2>2
  <2> HIDE DEF t
  <2>4. daemon' \in Daemon /\ daemon'.details = daemon.details /\ daemon'.queue = t
    BY <1>1, <2>1, <2>3 DEF Daemon, t, e
  <2>5. Announced(daemon) => Announced(daemon')
    BY <2>3, <2>4 DEF Announced
  <2>6. accounts' = accounts
    BY <1>6 DEF RingRegisters
  <2>7. Following(accounts, daemon')
    BY <2>4, <2>5, SameDetails DEF Following
  <2> QED
    BY <2>6, <2>7
<1> QED
  BY <1>3, <1>4, <1>5, <1>6 DEF Ring

\* A delivery, which also keeps what the user edits.
LEMMA DeliverFollows ==
  ASSUME IInv, Deliver
  PROVE  /\ IInv'
         /\ \A o \in DOMAIN accounts.acc \cap DOMAIN accounts'.acc :
              Account(o).state \in BeingEdited /\ accounts'.acc[o].id = Account(o).id
                => accounts'.acc[o].details = Account(o).details
<1> USE DEF IInv
<1> DEFINE e == Head(daemon.queue)
           n == updateAccounts(accounts, daemon)
           c == slotDaemonAccountChanged(accounts, daemon, e.id)
           d == [daemon EXCEPT !.queue = Tail(@)]
<1>1. daemon \in Daemon /\ Sound(accounts, daemon)
  BY DEF Following
<1>2. /\ daemon' = d
      /\ accounts' = IF e.signal = "accountsChanged" THEN n ELSE c
      /\ daemon.queue # <<>>
  BY DEF Deliver
<1>3. /\ d \in Daemon /\ d.details = daemon.details
      /\ Announced(daemon) /\ e.signal # "accountsChanged" => Announced(d)
  BY <1>1, <1>2, HandledFields
<1>4. Sound(n, daemon) /\ Level(n, daemon) /\ Survives(accounts, n, daemon)
  BY <1>1, UpdateAccounts
<1>5. /\ Sound(c, daemon) /\ (Level(accounts, daemon) => Level(c, daemon))
      /\ \A o \in DOMAIN accounts.acc \cap DOMAIN c.acc : c.acc[o] = accounts.acc[o]
  BY <1>1, AccountChanged
<1> HIDE DEF d, n, c, e
<1>6. CASE e.signal = "accountsChanged"
  <2>1. Sound(n, d) /\ Level(n, d)
    BY <1>3, <1>4, SameDetails
  <2>2. accounts' = n
    BY <1>2, <1>6
  <2> QED
    BY <1>2, <1>3, <1>4, <2>1, <2>2 DEF Following, Survives, Account
<1>7. CASE e.signal # "accountsChanged"
  <2>1. Sound(c, d) /\ (Announced(daemon) => Announced(d))
        /\ (Level(accounts, daemon) => Level(c, d))
    BY <1>3, <1>5, <1>7, SameDetails
  <2>2. Following(c, d)
    BY <1>3, <2>1 DEF Following
  <2>3. accounts' = c
    BY <1>2, <1>7
  <2> QED
    BY <1>2, <1>5, <2>2, <2>3 DEF Account
<1> QED
  BY <1>6, <1>7

LEMMA NextFollows == IInv /\ [Next]_vars => IInv'
<1> SUFFICES ASSUME IInv, [Next]_vars PROVE IInv'
  OBVIOUS
<1>1. CASE Next
  BY <1>1, UserFollows, RingFollows, DeliverFollows DEF Next
<1>2. CASE UNCHANGED vars
  BY <1>2 DEF vars, IInv
<1> QED
  BY <1>1, <1>2

\* The list follows the daemon, or the signal that makes it follow is on its way.
THEOREM AccountsFollow == Spec => []IInv
BY InitFollows, NextFollows, PTL DEF Spec

\* Every account has its type, and its state says what its details are.
THEOREM TypeCorrect == Spec => []TypeOK
<1>1. IInv => TypeOK
  <2> SUFFICES ASSUME IInv PROVE TypeOK
    OBVIOUS
  <2>1. /\ accounts \in Model /\ daemon \in Daemon /\ Sound(accounts, daemon)
        /\ DOMAIN accounts.acc \subseteq Nat \ {0}
        /\ accounts.acc \in [DOMAIN accounts.acc -> AccountRecord]
        /\ accounts.rows \subseteq DOMAIN accounts.acc
    BY SoundFacts DEF IInv, Following
  <2>2. Range(accounts.acc) \subseteq AccountRecord
    BY <2>1 DEF Range
  <2>3. {accounts.deleted, accounts.taken} \subseteq SUBSET AccountId
    BY <2>1 DEF Model
  <2>4. /\ daemon.details \in [AccountId -> Detail \cup Absent]
        /\ daemon.queue \in Seq([signal : {"accountsChanged", "registrationStateChanged"},
                                  id : AccountId \cup {None}])
    BY <2>1 DEF Daemon, Signal
  <2>5. \A o \in DOMAIN accounts.acc :
          /\ o \notin accounts.rows => Account(o).id = None
          /\ Account(o).state = "MODIFIED_COMPLETE" => Account(o).details \notin Incomplete
          /\ Account(o).state = "MODIFIED_INCOMPLETE" => Account(o).details \in Incomplete
    BY <2>1 DEF Sound, Lawful, Account
  <2> QED
    BY <2>1, <2>2, <2>3, <2>4, <2>5 DEF TypeOK
<1> QED
  BY <1>1, AccountsFollow, PTL

\* No account of the daemon has two rows.
THEOREM OneRowCorrect == Spec => []OneRow
<1>1. IInv => OneRow
  BY DEF IInv, Following, Sound, OneRow, Account
<1> QED
  BY <1>1, AccountsFollow, PTL

LEMMA QuietIsLevel == IInv /\ Quiet => Level(accounts, daemon)
<1>1. ~(1 \in 1..Len(<<>>)) /\ Len(<<>>) = 0
  OBVIOUS
<1>2. 1..0 = {}
  OBVIOUS
<1> QED
  BY <1>1, <1>2 DEF IInv, Following, Quiet, Announced

\* At rest the list has the accounts of the daemon but those that were taken out.
THEOREM ListMatchesDaemonCorrect == Spec => []ListMatchesDaemon
<1>1. IInv => ListMatchesDaemon
  <2> SUFFICES ASSUME IInv, Quiet
               PROVE  LET listed == {Account(o).id : o \in accounts.rows} \ {None}
                      IN  /\ listed \subseteq Ids(daemon)
                          /\ Ids(daemon) \ listed \subseteq accounts.taken
    BY DEF ListMatchesDaemon
  <2>1. Level(accounts, daemon) /\ None \notin Ids(daemon)
    BY QuietIsLevel, NamesAssumption DEF Ids
  <2> QED
    BY <2>1 DEF Level, Account
<1> QED
  BY <1>1, AccountsFollow, PTL

\* Where nothing removes an account by an action, an account that is READY shows,
\* at rest, what the daemon keeps.
THEOREM SynchronizedCorrect ==
  ASSUME "REMOVE" \notin Operations
  PROVE  Spec => []Synchronized
<1>1. IInv => Synchronized
  BY QuietIsLevel DEF Synchronized, Level, Fresh, Account
<1> QED
  BY <1>1, AccountsFollow, PTL

\* No signal overwrites what the user edits.
THEOREM EditsSurviveCorrect == Spec => EditsSurvive
<1>1. ASSUME IInv, [Next]_vars
      PROVE  [Deliver => \A o \in DOMAIN accounts.acc \cap DOMAIN accounts'.acc :
                Account(o).state \in BeingEdited /\ accounts'.acc[o].id = Account(o).id
                  => accounts'.acc[o].details = Account(o).details]_vars
  BY <1>1, DeliverFollows
<1> QED
  BY <1>1, AccountsFollow, PTL DEF Spec, EditsSurvive
=============================================================================
