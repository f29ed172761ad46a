-------------------------- MODULE TaskCreateProofs --------------------------
(***************************************************************************)
(* Proofs about TaskCreate for any number of calls, names and labels.      *)
(***************************************************************************)
EXTENDS TaskCreate, WellFoundedInduction, TLAPS

-----------------------------------------------------------------------------
(* Facts about the labels of a payload                                      *)

\* A set of positive numbers that is not empty has a least one.
LEMMA MinFacts ==
    ASSUME NEW S \in SUBSET Nat, S # {}
    PROVE  Min(S) \in S
<1>1. PICK n \in S : \A m \in S : n <= m
  <2>1. PICK x \in S : \A y \in S : ~(<<y, x>> \in OpToRel(<, Nat))
    BY NatLessThanWellFounded, WFMin
  <2>2. \A y \in S : ~(y < x)
    BY <2>1 DEF OpToRel
  <2> QED
    BY <2>2
<1> QED
  BY <1>1 DEF Min

\* A payload has a list of labels, numbered from one.
LEMMA ListFacts ==
    ASSUME NEW s \in LabelLists
    PROVE  /\ DOMAIN s \in SUBSET Nat
           /\ \A i \in DOMAIN s : s[i] \in Labels
           /\ Range(s) \in SUBSET Labels
           /\ \A l \in Range(s) : \E i \in DOMAIN s : s[i] = l
<1>1. PICK n \in 0 .. Cardinality(Labels) : s \in [1 .. n -> Labels]
  BY DEF LabelLists
<1> QED
  BY <1>1 DEF Range

\* The next label is one that was asked for, was not there and is not inserted.
LEMMA NextFacts ==
    ASSUME TypeOK, NEW c \in Creators, Missing(c) # {}
    PROVE  /\ NextLabel(c) \in Wanted(c)
           /\ NextLabel(c) \in Labels
<1>1. asks[c].labels \in LabelLists
  BY DEF TypeOK
<1>2. Missing(c) \in SUBSET DOMAIN asks[c].labels
  BY DEF Missing
<1>3. Min(Missing(c)) \in DOMAIN asks[c].labels
  BY <1>1, <1>2, ListFacts, MinFacts
<1> QED
  BY <1>1, <1>3, ListFacts DEF NextLabel, Wanted, Range

-----------------------------------------------------------------------------
(* The inductive invariant                                                  *)

\* A label is claimed by a call that asked for it, a name by one that has
\* inserted its task.
ClaimInv ==
    /\ \A l \in Labels : claim[l] # Nobody =>
         l \in Wanted(claim[l]) /\ pc[claim[l]] \in {"flush", "commit"}
    /\ \A n \in Names : claim[n] # Nobody =>
         asks[claim[n]].name = n /\ pc[claim[n]] = "commit"

\* A call that is about to commit has every label and the only claim to its name.
FlushInv ==
    \A c \in Creators :
        /\ pc[c] = "flush" => found[c] \subseteq tags
        /\ pc[c] = "commit" =>
             /\ \A l \in Wanted(c) : l \in tags \/ claim[l] = c
             /\ claim[asks[c].name] = c
             /\ ~NameTaken(asks[c].name)

IInv == TypeOK /\ ClaimInv /\ FlushInv /\ AllOrNothing /\ OneTaskPerName

-----------------------------------------------------------------------------
(* Every step preserves it                                                  *)

\* The types.
LEMMA TypeNext ==
    TypeOK /\ ClaimInv /\ [Next]_vars => TypeOK'
<1> SUFFICES ASSUME TypeOK, ClaimInv, [Next]_vars PROVE TypeOK'
  OBVIOUS
<1> USE DEF TypeOK, Ends, Keys, ClaimInv
<1>1. ASSUME NEW c \in Creators, ReadTags(c)
      PROVE  TypeOK'
  BY <1>1, NobodyAssumption, KeysAssumption, ListFacts DEF ReadTags, Go, Wanted
<1>2. ASSUME NEW c \in Creators, InsertTag(c)
      PROVE  TypeOK'
  BY <1>2, NobodyAssumption, KeysAssumption, NextFacts DEF InsertTag
<1>3. ASSUME NEW c \in Creators, TagExists(c)
      PROVE  TypeOK'
  BY <1>3, NobodyAssumption, KeysAssumption DEF TagExists, Go, Rollback, Unclaim
<1>4. ASSUME NEW c \in Creators, InsertTask(c)
      PROVE  TypeOK'
  BY <1>4, NobodyAssumption, KeysAssumption DEF InsertTask, Go, Flushing
<1>5. ASSUME NEW c \in Creators, NameExists(c)
      PROVE  TypeOK'
  BY <1>5, NobodyAssumption, KeysAssumption DEF NameExists, Go, Flushing, Rollback, Unclaim
<1>6. ASSUME NEW c \in Creators, Commit(c)
      PROVE  TypeOK'
  BY <1>6, NobodyAssumption, KeysAssumption, ListFacts DEF Commit, Go, Unclaim, Wanted
<1>7. ASSUME NEW c \in Creators, DeadlockVictim(c)
      PROVE  TypeOK'
  BY <1>7, NobodyAssumption, KeysAssumption
     DEF DeadlockVictim, Go, Rollback, Unclaim, Deadlocked, WaitsFor
<1>8. ASSUME UNCHANGED vars
      PROVE  TypeOK'
  BY <1>8 DEF vars
<1> QED
  BY <1>1, <1>2, <1>3, <1>4, <1>5, <1>6, <1>7, <1>8 DEF Next, CreateStep

\* Claims are given back by the call that has them.
LEMMA ClaimNext ==
    TypeOK /\ TypeOK' /\ ClaimInv /\ [Next]_vars => ClaimInv'
<1> SUFFICES ASSUME TypeOK, TypeOK', ClaimInv, [Next]_vars PROVE ClaimInv'
  OBVIOUS
<1> USE DEF TypeOK, Ends, Keys, ClaimInv, Wanted
<1>1. ASSUME NEW c \in Creators, ReadTags(c)
      PROVE  ClaimInv'
  BY <1>1, NobodyAssumption, KeysAssumption DEF ReadTags, Go
<1>2. ASSUME NEW c \in Creators, InsertTag(c)
      PROVE  ClaimInv'
  BY <1>2, NobodyAssumption, KeysAssumption, NextFacts DEF InsertTag
<1>3. ASSUME NEW c \in Creators, TagExists(c)
      PROVE  ClaimInv'
  BY <1>3, NobodyAssumption, KeysAssumption DEF TagExists, Go, Rollback, Unclaim
<1>4. ASSUME NEW c \in Creators, InsertTask(c)
      PROVE  ClaimInv'
  BY <1>4, NobodyAssumption, KeysAssumption DEF InsertTask, Go, Flushing
<1>5. ASSUME NEW c \in Creators, NameExists(c)
      PROVE  ClaimInv'
  BY <1>5, NobodyAssumption, KeysAssumption DEF NameExists, Go, Flushing, Rollback, Unclaim
<1>6. ASSUME NEW c \in Creators, Commit(c)
      PROVE  ClaimInv'
  BY <1>6, NobodyAssumption, KeysAssumption DEF Commit, Go, Unclaim
<1>7. ASSUME NEW c \in Creators, DeadlockVictim(c)
      PROVE  ClaimInv'
  BY <1>7, NobodyAssumption, KeysAssumption
     DEF DeadlockVictim, Go, Rollback, Unclaim, Deadlocked, WaitsFor
<1>8. ASSUME UNCHANGED vars
      PROVE  ClaimInv'
  BY <1>8 DEF vars
<1> QED
  BY <1>1, <1>2, <1>3, <1>4, <1>5, <1>6, <1>7, <1>8 DEF Next, CreateStep

\* A call ends and gives back its claims.
Leaves(c) ==
    /\ pc' = [pc EXCEPT ![c] = pc'[c]] /\ pc'[c] \in Ends
    /\ claim' = [k \in Keys |-> IF claim[k] = c THEN Nobody ELSE claim[k]]
    /\ UNCHANGED <<asks, found>>

\* A call that ends takes nothing from the others.
LEMMA LeavesFlush ==
    ASSUME TypeOK, FlushInv, NEW c \in Creators, Leaves(c), UNCHANGED <<tags, tasks>>
    PROVE  FlushInv'
<1> SUFFICES ASSUME NEW d \in Creators
             PROVE  /\ pc'[d] = "flush" => found'[d] \subseteq tags'
                    /\ pc'[d] = "commit" =>
                         /\ \A l \in Wanted(d)' : l \in tags' \/ claim'[l] = d
                         /\ claim'[asks'[d].name] = d
                         /\ ~NameTaken(asks[d].name)'
  BY DEF FlushInv, Leaves
<1>1. CASE d = c
  BY <1>1 DEF Leaves, TypeOK, Ends
<1>2. CASE d # c
  <2>1. pc'[d] = pc[d] /\ asks' = asks /\ found' = found
    BY <1>2 DEF Leaves, TypeOK
  <2>2. \A k \in Keys : claim[k] = d => claim'[k] = d
    BY <1>2 DEF Leaves
  <2>3. asks[d].name \in Keys /\ Wanted(d) \subseteq Keys
    BY ListFacts DEF TypeOK, Wanted, Keys
  <2>4. Wanted(d)' = Wanted(d) /\ NameTaken(asks[d].name)' = NameTaken(asks[d].name)
    BY <2>1 DEF Wanted, NameTaken
  <2> QED
    BY <2>1, <2>2, <2>3, <2>4 DEF FlushInv
<1> QED
  BY <1>1, <1>2

\* What a call has found or inserted stays until it commits.
LEMMA FlushNext ==
    TypeOK /\ TypeOK' /\ ClaimInv /\ FlushInv /\ [Next]_vars => FlushInv'
<1> SUFFICES ASSUME TypeOK, TypeOK', ClaimInv, FlushInv, [Next]_vars PROVE FlushInv'
  OBVIOUS
<1> USE DEF TypeOK, Ends, Keys, ClaimInv, FlushInv, Wanted, NameTaken
<1>1. ASSUME NEW c \in Creators, ReadTags(c)
      PROVE  FlushInv'
  BY <1>1, NobodyAssumption, KeysAssumption DEF ReadTags, Go
<1>2. ASSUME NEW c \in Creators, InsertTag(c)
      PROVE  FlushInv'
  BY <1>2, NobodyAssumption, KeysAssumption, NextFacts DEF InsertTag
<1>3. ASSUME NEW c \in Creators, TagExists(c)
      PROVE  FlushInv'
  <2>1. Leaves(c) /\ UNCHANGED <<tags, tasks>>
    BY <1>3 DEF TagExists, Rollback, Unclaim, Go, Leaves
  <2> QED
    BY <2>1, LeavesFlush
<1>4. ASSUME NEW c \in Creators, InsertTask(c)
      PROVE  FlushInv'
  BY <1>4, NobodyAssumption, KeysAssumption, ListFacts DEF InsertTask, Go, Flushing, Missing
<1>5. ASSUME NEW c \in Creators, NameExists(c)
      PROVE  FlushInv'
  <2>1. Leaves(c) /\ UNCHANGED <<tags, tasks>>
    BY <1>5 DEF NameExists, Rollback, Unclaim, Go, Leaves
  <2> QED
    BY <2>1, LeavesFlush
<1>6. ASSUME NEW c \in Creators, Commit(c)
      PROVE  FlushInv'
  <2>1. /\ Leaves(c)
        /\ tags \subseteq tags'
        /\ pc[c] = "commit"
    BY <1>6 DEF Commit, Go, Unclaim, Leaves
  <2> SUFFICES ASSUME NEW d \in Creators
               PROVE  /\ pc'[d] = "flush" => found'[d] \subseteq tags'
                      /\ pc'[d] = "commit" =>
                           /\ \A l \in Wanted(d)' : l \in tags' \/ claim'[l] = d
                           /\ claim'[asks'[d].name] = d
                           /\ ~NameTaken(asks[d].name)'
    BY <2>1 DEF Leaves
  <2>2. CASE d = c
    BY <2>1, <2>2 DEF Leaves
  <2>3. CASE d # c
    <3>1. pc'[d] = pc[d] /\ asks' = asks /\ found' = found
      BY <2>1, <2>3 DEF Leaves
    <3>2. \A k \in Keys : claim[k] = d => claim'[k] = d
      BY <2>1, <2>3 DEF Leaves
    <3>3. pc[d] = "commit" => asks[d].name # asks[c].name
      BY <2>1, <2>3
    <3>4. asks[d].name \in Keys /\ Wanted(d) \subseteq Keys
      BY ListFacts
    <3>5. pc[d] = "commit" => ~NameTaken(asks[d].name)'
      <4> DEFINE n == asks[d].name
      <4>1. n' = n
        BY <3>1
      <4>2. (\E t \in tasks' : t.name = n) => (\E t \in tasks : t.name = n) \/ n = asks[c].name
        BY <1>6 DEF Commit
      <4>3. pc[d] = "commit" => ~\E t \in tasks' : t.name = n
        BY <3>3, <4>2
      <4> QED
        BY <4>1, <4>3
    <3>6. Wanted(d)' = Wanted(d)
      BY <3>1
    <3>7. pc[d] = "commit" => \A l \in Wanted(d) : l \in tags' \/ claim'[l] = d
      BY <2>1, <3>2, <3>4
    <3>8. pc[d] = "commit" => claim'[asks[d].name] = d
      BY <3>2, <3>4
    <3>9. pc[d] = "flush" => found[d] \subseteq tags'
      BY <2>1
    <3> HIDE DEF Wanted, NameTaken, TypeOK, FlushInv
    <3> QED
      BY <3>1, <3>5, <3>6, <3>7, <3>8, <3>9
  <2> QED
    BY <2>2, <2>3
<1>7. ASSUME NEW c \in Creators, DeadlockVictim(c)
      PROVE  FlushInv'
  <2>1. Leaves(c) /\ UNCHANGED <<tags, tasks>>
    BY <1>7 DEF DeadlockVictim, Rollback, Unclaim, Go, Leaves
  <2> QED
    BY <2>1, LeavesFlush
<1>8. ASSUME UNCHANGED vars
      PROVE  FlushInv'
  BY <1>8 DEF vars
<1> QED
  BY <1>1, <1>2, <1>3, <1>4, <1>5, <1>6, <1>7, <1>8 DEF Next, CreateStep

\* What is committed.
LEMMA StoreNext ==
    TypeOK /\ ClaimInv /\ FlushInv /\ AllOrNothing /\ OneTaskPerName /\ [Next]_vars
    => (AllOrNothing /\ OneTaskPerName)'
<1> SUFFICES ASSUME TypeOK, ClaimInv, FlushInv, AllOrNothing, OneTaskPerName, [Next]_vars
             PROVE  (AllOrNothing /\ OneTaskPerName)'
  OBVIOUS
<1> USE DEF AllOrNothing, OneTaskPerName
<1>1. ASSUME NEW c \in Creators, ReadTags(c)
      PROVE  (AllOrNothing /\ OneTaskPerName)'
  BY <1>1 DEF ReadTags, Go
<1>2. ASSUME NEW c \in Creators, InsertTag(c)
      PROVE  (AllOrNothing /\ OneTaskPerName)'
  BY <1>2 DEF InsertTag
<1>3. ASSUME NEW c \in Creators, TagExists(c)
      PROVE  (AllOrNothing /\ OneTaskPerName)'
  BY <1>3 DEF TagExists, Go, Rollback, Unclaim
<1>4. ASSUME NEW c \in Creators, InsertTask(c)
      PROVE  (AllOrNothing /\ OneTaskPerName)'
  BY <1>4 DEF InsertTask, Go, Flushing
<1>5. ASSUME NEW c \in Creators, NameExists(c)
      PROVE  (AllOrNothing /\ OneTaskPerName)'
  BY <1>5 DEF NameExists, Go, Flushing, Rollback, Unclaim
<1>6. ASSUME NEW c \in Creators, Commit(c)
      PROVE  (AllOrNothing /\ OneTaskPerName)'
  <2> DEFINE own == {k \in Labels : claim[k] = c}
             task == [by |-> c, name |-> asks[c].name, labels |-> Wanted(c)]
  <2>1. tags' = tags \cup own /\ tasks' = tasks \cup {task} /\ pc[c] = "commit"
    BY <1>6 DEF Commit
  <2>2. own \subseteq Wanted(c)
    BY NobodyAssumption DEF ClaimInv
  <2>3. Wanted(c) \subseteq tags \cup own
    BY <2>1, ListFacts DEF TypeOK, FlushInv, Wanted
  <2>4. AllOrNothing'
    <3>1. task.labels = Wanted(c)
      OBVIOUS
    <3>2. UNION {t.labels : t \in tasks \cup {task}} =
            (UNION {t.labels : t \in tasks}) \cup Wanted(c)
      BY <3>1
    <3> QED
      BY <2>1, <2>2, <2>3, <3>2
  <2>5. \A t \in tasks : t.name # task.name
    BY <2>1 DEF FlushInv, NameTaken
  <2>6. OneTaskPerName'
    BY <2>1, <2>5
  <2> QED
    BY <2>4, <2>6
<1>7. ASSUME NEW c \in Creators, DeadlockVictim(c)
      PROVE  (AllOrNothing /\ OneTaskPerName)'
  BY <1>7 DEF DeadlockVictim, Go, Rollback, Unclaim, Deadlocked, WaitsFor
<1>8. ASSUME UNCHANGED vars
      PROVE  (AllOrNothing /\ OneTaskPerName)'
  BY <1>8 DEF vars
<1> QED
  BY <1>1, <1>2, <1>3, <1>4, <1>5, <1>6, <1>7, <1>8 DEF Next, CreateStep

-----------------------------------------------------------------------------
(* Theorems                                                                 *)

\* In the initial state nothing is claimed or stored.
LEMMA InitIInv == Init => IInv
<1> SUFFICES ASSUME Init PROVE IInv
  OBVIOUS
<1>1. TypeOK
  BY NobodyAssumption DEF Init, TypeOK
<1>2. ClaimInv /\ FlushInv
  BY DEF Init, ClaimInv, FlushInv, Keys
<1>3. AllOrNothing /\ OneTaskPerName
  BY DEF Init, AllOrNothing, OneTaskPerName
<1> QED
  BY <1>1, <1>2, <1>3 DEF IInv

\* The inductive invariant of task creation.
THEOREM Invariants == Spec => []IInv
<1>1. IInv /\ [Next]_vars => IInv'
  BY TypeNext, ClaimNext, FlushNext, StoreNext DEF IInv
<1> QED
  BY InitIInv, <1>1, PTL DEF Spec

\* Every reachable state is well typed, and a call that has ended claims nothing.
THEOREM TypeCorrect == Spec => []TypeOK
<1>1. IInv => TypeOK
  BY DEF IInv
<1> QED
  BY Invariants, <1>1, PTL

\* The committed tags are those of the committed tasks, however many calls share
\* their labels and in whatever order they insert them.
THEOREM NoTagLeftBehind == Spec => []AllOrNothing
<1>1. IInv => AllOrNothing
  BY DEF IInv
<1> QED
  BY Invariants, <1>1, PTL

\* A name has one task, however many calls ask for it.
THEOREM NamesAreUnique == Spec => []OneTaskPerName
<1>1. IInv => OneTaskPerName
  BY DEF IInv
<1> QED
  BY Invariants, <1>1, PTL

-----------------------------------------------------------------------------
(* Concurrent creates are as good as one after the other                    *)

\* A call is told something once, when its transaction ends.
LEMMA Told ==
    ASSUME TypeOK, NEW c \in Creators, NEW to \in Ends, pc[c] \notin Ends,
           pc' = [pc EXCEPT ![c] = to], asks' = asks
    PROVE  Catalogue!Tell(c, to)
<1>1. \A d \in Creators : pc'[d] = IF d = c THEN to ELSE pc[d]
  BY DEF TypeOK
<1>2. answerOf[c] = "none" /\ answerOf' = [answerOf EXCEPT ![c] = to]
  BY <1>1 DEF answerOf
<1> QED
  BY <1>2 DEF Catalogue!Tell, Wanted

\* Before that it is told nothing.
LEMMA NotTold ==
    ASSUME TypeOK, NEW c \in Creators, NEW to \in {"new", "flush", "commit"}, pc[c] \notin Ends,
           pc' = [pc EXCEPT ![c] = to], UNCHANGED <<tags, tasks, asks>>
    PROVE  UNCHANGED Catalogue!vars
<1>1. \A d \in Creators : pc'[d] = IF d = c THEN to ELSE pc[d]
  BY DEF TypeOK
<1>2. answerOf' = answerOf
  BY <1>1 DEF answerOf, Ends
<1> QED
  BY <1>2 DEF Catalogue!vars, Wanted

\* A call that fails leaves no trace.
LEMMA FailureIsClean ==
    ASSUME TypeOK, NEW c \in Creators, TagExists(c) \/ DeadlockVictim(c)
    PROVE  Catalogue!Next
<1>1. UNCHANGED <<tags, tasks, asks>> /\ pc' = [pc EXCEPT ![c] = "failed"]
  BY DEF TagExists, DeadlockVictim, Go, Rollback
<1>2. pc[c] \notin Ends
  <2>1. CASE TagExists(c)
    BY <2>1 DEF TagExists, Ends
  \* a call in a circle waits for a call, and only one that flushes waits
  <2>2. CASE DeadlockVictim(c)
    <3>1. PICK S \in SUBSET Creators : c \in S /\ {WaitsFor(d) : d \in S} = S
      BY <2>2 DEF DeadlockVictim, Deadlocked
    <3>2. WaitsFor(c) # Nobody
      BY <3>1, NobodyAssumption
    <3> QED
      BY <3>2 DEF WaitsFor, Ends
  <2> QED
    BY <2>1, <2>2
<1>3. Catalogue!Fail(c)
  BY <1>1, <1>2, Told DEF Catalogue!Fail, Ends
<1> QED
  BY <1>3 DEF Catalogue!Next

\* A commit creates the task with all of its labels, of which it has inserted those
\* that were not there.
LEMMA CommitCreates ==
    ASSUME TypeOK, ClaimInv, FlushInv, NEW c \in Creators, Commit(c)
    PROVE  Catalogue!Next
<1> DEFINE own == {k \in Labels : claim[k] = c}
<1>1. /\ pc[c] = "commit" /\ pc' = [pc EXCEPT ![c] = "created"] /\ asks' = asks
      /\ tags' = tags \cup own
      /\ tasks' = tasks \cup {[by |-> c, name |-> asks[c].name, labels |-> Wanted(c)]}
  BY DEF Commit, Go
<1>2. ~NameTaken(asks[c].name)
  BY <1>1 DEF FlushInv
<1>3. tags' = tags \cup Wanted(c)
  <2>1. own \subseteq Wanted(c)
    BY NobodyAssumption DEF ClaimInv
  <2>2. Wanted(c) \subseteq tags \cup own
    BY <1>1, ListFacts DEF TypeOK, FlushInv, Wanted
  <2> QED
    BY <1>1, <2>1, <2>2
<1>4. Catalogue!Tell(c, "created")
  BY <1>1, Told DEF Ends
<1>5. Catalogue!Create(c)
  BY <1>1, <1>2, <1>3, <1>4 DEF Catalogue!Create, Catalogue!Taken, NameTaken
<1> QED
  BY <1>5 DEF Catalogue!Next

LEMMA CatalogueStep == IInv /\ [Next]_vars => [Catalogue!Next]_(Catalogue!vars)
<1> SUFFICES ASSUME IInv, [Next]_vars PROVE Catalogue!Next \/ UNCHANGED Catalogue!vars
  OBVIOUS
<1> USE DEF IInv
<1>1. ASSUME NEW c \in Creators, ReadTags(c) PROVE UNCHANGED Catalogue!vars
  BY <1>1, NotTold DEF ReadTags, Go, Ends
<1>2. ASSUME NEW c \in Creators, InsertTag(c) PROVE UNCHANGED Catalogue!vars
  BY <1>2 DEF InsertTag, Catalogue!vars, answerOf, Wanted
<1>3. ASSUME NEW c \in Creators, InsertTask(c) PROVE UNCHANGED Catalogue!vars
  BY <1>3, NotTold DEF InsertTask, Flushing, Go, Ends
<1>4. ASSUME NEW c \in Creators, NameExists(c) PROVE Catalogue!Next
  <2>1. /\ pc[c] = "flush" /\ NameTaken(asks[c].name)
        /\ pc' = [pc EXCEPT ![c] = "duplicate"] /\ UNCHANGED <<tags, tasks, asks>>
    BY <1>4 DEF NameExists, Flushing, Go, Rollback
  <2>2. Catalogue!Tell(c, "duplicate")
    BY <2>1, Told DEF Ends
  <2>3. Catalogue!Refuse(c)
    BY <2>1, <2>2 DEF Catalogue!Refuse, Catalogue!Taken, NameTaken
  <2> QED
    BY <2>3 DEF Catalogue!Next
<1>5. CASE UNCHANGED vars
  BY <1>5 DEF vars, Catalogue!vars, answerOf, Wanted
<1> QED
  BY <1>1, <1>2, <1>3, <1>4, <1>5, FailureIsClean, CommitCreates DEF Next, CreateStep

\* Refinement: concurrent creates are a catalogue that takes one call at a time
\* (create_task and transaction()).
THEOREM CreatesImplementCatalogue == Spec => ImplementsCatalogue
<1>1. Init => Catalogue!Init
  <2> SUFFICES ASSUME Init PROVE Catalogue!Init
    OBVIOUS
  <2>1. answerOf = [c \in Creators |-> "none"]
    BY DEF Init, answerOf, Ends
  <2>2. \A c \in Creators : asks[c].name \in Names /\ Wanted(c) \in SUBSET Labels
    BY ListFacts DEF Init, Wanted
  <2> QED
    BY <2>1, <2>2 DEF Init, Catalogue!Init, Catalogue!Asked
<1> QED
  BY <1>1, CatalogueStep, Invariants, PTL DEF Spec, ImplementsCatalogue, Catalogue!Spec
=============================================================================
