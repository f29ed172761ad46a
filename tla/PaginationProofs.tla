-------------------------- MODULE PaginationProofs --------------------------
(***************************************************************************)
(* The pages of a walk through the list, put end to end, are in its strict *)
(* order and miss no task that stays in it, for any set of tasks, any      *)
(* limits and whatever is created, deleted and changed between two pages.  *)
(***************************************************************************)
EXTENDS Pagination, FiniteSetTheorems, FunctionTheorems, TLAPS

-----------------------------------------------------------------------------
(* The order of the list                                                    *)

LEMMA LeastNumber ==
    ASSUME NEW T, T \subseteq Nat, T # {}
    PROVE  \E m \in T : \A n \in T : m <= n
<1> DEFINE Below == {0 .. n : n \in T}
<1>1. IsWellFoundedOn(StrictSubsetOrdering(Nat), FiniteSubsetsOf(Nat))
  BY FS_StrictSubsetOrderingWellFounded
<1>2. Below \subseteq FiniteSubsetsOf(Nat)
  <2>1. \A n \in Nat : IsFiniteSet(0 .. n)
    BY FS_Interval
  <2> QED
    BY <2>1 DEF FiniteSubsetsOf
<1>3. PICK s \in Below : \A u \in Below : ~(<<u, s>> \in StrictSubsetOrdering(Nat))
  <2>1. Below # {}
    OBVIOUS
  <2> HIDE DEF Below
  <2> QED
    BY <1>1, <1>2, <2>1, WFMin
<1>4. PICK m \in T : s = 0 .. m
  BY <1>3
<1>5. \A n \in T : m <= n
  <2> SUFFICES ASSUME NEW n \in T, n < m PROVE FALSE
    BY <1>4
  <2>1. 0 .. n \subseteq 0 .. m /\ m \in 0 .. m /\ m \notin 0 .. n
    OBVIOUS
  <2>2. <<0 .. n, s>> \in StrictSubsetOrdering(Nat)
    BY <1>4, <2>1 DEF StrictSubsetOrdering
  <2> QED
    BY <1>3, <2>2
<1> QED
  BY <1>5

\* A set of tasks in which an id is there once.
Distinct(S) == S \subseteq Task /\ \A s, t \in S : s.id = t.id => s = t

LEMMA TaskType ==
    /\ \A t \in Task : t.id \in Nat /\ t.at \in Nat /\ t.id \in Ids /\ t.at \in 0 .. MaxTime
    /\ -1 \notin Ids
    /\ Ids \subseteq Nat /\ 0 .. MaxTime \subseteq Nat
<1>1. -1 \notin Ids
  BY PageAssumption DEF PageAssumption
<1>2. \A t \in Task : t.id \in Ids /\ t.at \in 0 .. MaxTime
  BY DEF Task
<1>3. Ids \subseteq Nat /\ 0 .. MaxTime \subseteq Nat
  BY PageAssumption DEF PageAssumption
<1> QED
  BY <1>1, <1>2, <1>3

\* Of tasks with ids of their own, one of any two is older, and never both.
LEMMA OrderIsTotal ==
    ASSUME NEW S, Distinct(S)
    PROVE  /\ \A s, t \in S : s = t \/ Older(s, t) \/ Older(t, s)
           /\ \A s, t \in S : ~(Older(s, t) /\ Older(t, s)) /\ ~Older(s, s)
           /\ \A s, t, u \in S : Older(s, t) /\ Older(t, u) => Older(s, u)
<1>1. \A t \in S : t.id \in Nat /\ t.at \in Nat
  BY TaskType DEF Distinct
<1> QED
  BY <1>1 DEF Distinct, Older

\* The oldest of some tasks: the least time, and of its tasks the least id.
LEMMA LastOne ==
    ASSUME NEW S, Distinct(S), S # {}
    PROVE  \E m \in S : \A t \in S \ {m} : Older(m, t)
<1>1. \A t \in S : t.id \in Nat /\ t.at \in Nat
  BY TaskType DEF Distinct
<1>2. PICK a \in {t.at : t \in S} : \A b \in {t.at : t \in S} : a <= b
  <2>1. {t.at : t \in S} \subseteq Nat /\ {t.at : t \in S} # {}
    BY <1>1
  <2> QED
    BY <2>1, LeastNumber
<1> DEFINE Early == {t \in S : t.at = a}
<1>3. PICK i \in {t.id : t \in Early} : \A j \in {t.id : t \in Early} : i <= j
  <2>1. {t.id : t \in Early} \subseteq Nat /\ {t.id : t \in Early} # {}
    BY <1>1, <1>2
  <2> HIDE DEF Early
  <2> QED
    BY <2>1, LeastNumber
<1>4. PICK m \in Early : m.id = i
  BY <1>3
<1>5. ASSUME NEW t \in S, t # m PROVE Older(m, t)
  <2>1. m \in S /\ m.at = a /\ a <= t.at /\ m.id # t.id
    BY <1>2, <1>4, <1>5 DEF Distinct
  <2>2. t.at = a => m.id <= t.id
    BY <1>3, <1>4
  <2> QED
    BY <1>1, <2>1, <2>2 DEF Older
<1> QED
  BY <1>4, <1>5

\* A list of S, newest first.
Sorted(f, S) ==
    /\ f \in [1 .. Cardinality(S) -> S]
    /\ \A i, j \in DOMAIN f : i < j => Older(f[j], f[i])

\* Every finite set of tasks has such a list: the list of the others, and the oldest.
LEMMA SortedExists ==
    ASSUME NEW S, IsFiniteSet(S), Distinct(S)
    PROVE  \E f : Sorted(f, S)
<1> DEFINE Bad == {T \in SUBSET S : ~ \E f : Sorted(f, T)}
<1> SUFFICES ASSUME Bad # {} PROVE FALSE
  OBVIOUS
<1>1. IsWellFoundedOn(StrictSubsetOrdering(S), FiniteSubsetsOf(S))
  BY FS_StrictSubsetOrderingWellFounded
<1>2. Bad \subseteq FiniteSubsetsOf(S)
  <2>1. \A T \in SUBSET S : IsFiniteSet(T)
    BY FS_Subset
  <2> QED
    BY <2>1 DEF FiniteSubsetsOf
<1>3. PICK T \in Bad : \A U \in Bad : ~(<<U, T>> \in StrictSubsetOrdering(S))
  <2> HIDE DEF Bad
  <2> QED
    BY <1>1, <1>2, WFMin
<1>4. T \in SUBSET S /\ IsFiniteSet(T) /\ Distinct(T)
  BY FS_Subset DEF Distinct
<1>5. T # {}
  <2> SUFFICES ASSUME T = {} PROVE FALSE
    OBVIOUS
  <2>1. Cardinality(T) = 0
    BY FS_EmptySet
  <2>2. Sorted(<<>>, T)
    BY <2>1 DEF Sorted
  <2> QED
    BY <2>2
<1>6. PICK m \in T : \A t \in T \ {m} : Older(m, t)
  BY <1>4, <1>5, LastOne
<1> DEFINE U == T \ {m}
           n == Cardinality(T)
<1>7. IsFiniteSet(U) /\ Cardinality(U) = n - 1 /\ n \in Nat \ {0}
  <2>1. n \in Nat /\ n # 0
    BY <1>4, <1>5, FS_CardinalityType, FS_EmptySet
  <2> QED
    BY <1>4, <2>1, FS_RemoveElement
<1>8. PICK f : Sorted(f, U)
  <2>1. <<U, T>> \in StrictSubsetOrdering(S)
    BY <1>4 DEF StrictSubsetOrdering
  <2>2. U \notin Bad
    BY <1>3, <2>1
  <2> QED
    BY <1>4, <2>2
<1> DEFINE g == [i \in 1 .. n |-> IF i = n THEN m ELSE f[i]]
<1>9. Sorted(g, T)
  <2>1. /\ f \in [1 .. (n - 1) -> U]
        /\ \A i, j \in 1 .. (n - 1) : i < j => Older(f[j], f[i])
    BY <1>7, <1>8 DEF Sorted
  <2>2. \A i \in 1 .. n : i = n \/ i \in 1 .. (n - 1)
    BY <1>7
  <2>3. g \in [1 .. n -> T]
    <3> HIDE DEF n
    <3> QED
      BY <2>1, <2>2
  <2>4. ASSUME NEW i \in 1 .. n, NEW j \in 1 .. n, i < j PROVE Older(g[j], g[i])
    <3>1. i \in 1 .. (n - 1) /\ i # n
      BY <1>7, <2>4
    <3>2. CASE j = n
      <4>1. g[j] = m /\ g[i] = f[i] /\ f[i] \in U
        BY <2>1, <3>1, <3>2
      <4> QED
        BY <1>6, <4>1
    <3>3. CASE j # n
      <4>1. j \in 1 .. (n - 1) /\ g[j] = f[j] /\ g[i] = f[i]
        BY <2>2, <3>1, <3>3
      <4> QED
        BY <2>1, <2>4, <3>1, <4>1
    <3> QED
      BY <3>2, <3>3
  <2>5. DOMAIN g = 1 .. n
    OBVIOUS
  <2> HIDE DEF g
  <2> QED
    BY <2>3, <2>4, <2>5 DEF Sorted
<1> QED
  BY <1>9

\* The list holds every task once, newest first.
LEMMA InOrderSorted ==
    ASSUME NEW S, IsFiniteSet(S), Distinct(S)
    PROVE  /\ Cardinality(S) \in Nat
           /\ InOrder(S) \in [1 .. Cardinality(S) -> S]
           /\ \A i, j \in 1 .. Cardinality(S) : i < j => Older(InOrder(S)[j], InOrder(S)[i])
           /\ \A s \in S : \E i \in 1 .. Cardinality(S) : InOrder(S)[i] = s
<1> DEFINE n == Cardinality(S)
           rows == InOrder(S)
<1>1. n \in Nat
  BY FS_CardinalityType
<1>2. PICK f : Sorted(f, S)
  BY SortedExists
<1>3. /\ f \in [1 .. Cardinality(S) -> S]
      /\ \A i, j \in DOMAIN f : i < j => Older(f[j], f[i])
  BY <1>2 DEF Sorted
<1>4. /\ rows \in [1 .. n -> S]
      /\ \A i, j \in DOMAIN rows : i < j => Older(rows[j], rows[i])
  BY <1>3 DEF InOrder
<1>5. \A i, j \in 1 .. n : i < j => Older(rows[j], rows[i])
  <2> HIDE DEF rows
  <2> QED
    BY <1>4
<1>6. rows \in Surjection(1 .. n, S)
  <2>1. \A i, j \in 1 .. n : rows[i] = rows[j] => i = j
    <3> SUFFICES ASSUME NEW i \in 1 .. n, NEW j \in 1 .. n, rows[i] = rows[j], i < j
                 PROVE  FALSE
      BY <1>1
    <3>1. rows[i] \in S /\ Older(rows[j], rows[i])
      BY <1>4, <1>5
    <3> HIDE DEF rows
    <3> QED
      BY <3>1, OrderIsTotal
  <2>2. IsFiniteSet(1 .. n) /\ Cardinality(1 .. n) = n
    BY <1>1, FS_Interval
  <2>3. rows \in Injection(1 .. n, S)
    <3> HIDE DEF rows, n
    <3> QED
      BY <1>4, <2>1, Fun_IsInj
  <2> HIDE DEF rows
  <2> QED
    BY <2>2, <2>3, FS_Injection
<1> QED
  BY <1>1, <1>4, <1>5, <1>6 DEF Surjection

-----------------------------------------------------------------------------
(* The invariant                                                            *)

\* What came is behind the cursor, and what is still to come lies before it.
WalkInv ==
    /\ walk = "new" => returned = <<>> /\ cursor = NoCursor
    /\ walk = "on" <=> cursor # NoCursor
    /\ NewestFirst
    /\ walk = "on" => \A i \in DOMAIN returned : ~Older(returned[i], cursor)

Returned(id) == \E i \in DOMAIN returned : returned[i].id = id

\* An id that has been in the list all along came, or comes after the cursor.
CoverInv ==
    /\ walk = "new" => stable = {}
    /\ stable \subseteq Listed(tasks)
    /\ walk = "on" => \A t \in tasks : t.id \in stable => Returned(t.id) \/ Older(t, cursor)
    /\ WalkComplete

IInv ==
    /\ TypeOK
    /\ IsFiniteSet(tasks)
    /\ WalkInv
    /\ CoverInv

LEMMA InitInv == Init => IInv
<1> SUFFICES ASSUME Init PROVE IInv
  OBVIOUS
<1>1. TypeOK
  BY DEF Init, TypeOK
<1>2. IsFiniteSet(tasks)
  BY FS_EmptySet DEF Init
<1>3. WalkInv
  BY DEF Init, WalkInv, NewestFirst
<1>4. CoverInv
  BY DEF Init, CoverInv, WalkComplete
<1> QED
  BY <1>1, <1>2, <1>3, <1>4 DEF IInv

\* What others do between two pages: the tasks that stay in the list keep their
\* times, and a walk owes nothing to the others.
LEMMA ChangeInv ==
    ASSUME IInv, NEW S, Change(S), IsFiniteSet(S), Distinct(S),
           \A t \in S : t \in tasks \/ (\E u \in tasks : u.id = t.id /\ u.at = t.at)
                                    \/ t.id \notin {u.id : u \in tasks}
    PROVE  IInv'
<1>1. /\ tasks' = S
      /\ stable' = stable \cap Listed(S)
      /\ UNCHANGED <<cursor, walk, returned>>
  BY DEF Change
<1>2. TypeOK'
  BY <1>1 DEF IInv, TypeOK, Distinct
<1>3. WalkInv'
  BY <1>1 DEF IInv, WalkInv, NewestFirst
<1>4. CoverInv'
  <2>1. stable' \subseteq stable /\ stable' \subseteq Listed(tasks')
    BY <1>1
  <2>2. WalkComplete' /\ (walk' = "new" => stable' = {})
    BY <1>1, <2>1 DEF IInv, CoverInv, WalkComplete
  <2>3. ASSUME walk = "on", NEW t \in S, t.id \in stable'
        PROVE  Returned(t.id) \/ Older(t, cursor)
    <3>1. t.id \in stable /\ t.id \in Listed(tasks)
      BY <2>1, <2>3 DEF IInv, CoverInv
    <3>2. t.id \in {u.id : u \in tasks}
      BY <3>1 DEF Listed
    <3>3. PICK u \in tasks : u.id = t.id /\ u.at = t.at
      BY <3>2
    <3>4. Returned(u.id) \/ Older(u, cursor)
      BY <2>3, <3>1, <3>3 DEF IInv, CoverInv
    <3> QED
      BY <3>3, <3>4 DEF Older
  <2> QED
    BY <1>1, <2>1, <2>2, <2>3 DEF CoverInv, Returned
<1> QED
  BY <1>1, <1>2, <1>3, <1>4 DEF IInv

LEMMA Others ==
    ASSUME IInv,
           \/ \E id \in Ids, at \in 0 .. MaxTime : Create(id, at)
           \/ \E t \in tasks : Delete(t) \/ ChangeStatus(t)
    PROVE  IInv'
<1>1. IsFiniteSet(tasks) /\ Distinct(tasks)
  BY DEF IInv, TypeOK, Distinct
<1>2. ASSUME NEW id \in Ids, NEW at \in 0 .. MaxTime, Create(id, at) PROVE IInv'
  <2> DEFINE new == [id |-> id, at |-> at, matches |-> TRUE]
             S == tasks \cup {new}
  <2>1. id \notin {t.id : t \in tasks} /\ Change(S)
    BY <1>2 DEF Create
  <2>2. new \in Task /\ new.id = id
    BY DEF Task
  <2>3. IsFiniteSet(S)
    BY <1>1, FS_AddElement
  <2>4. Distinct(S)
    BY <1>1, <2>1, <2>2 DEF Distinct
  <2>5. \A t \in S : t \in tasks \/ t.id \notin {u.id : u \in tasks}
    BY <2>1, <2>2
  <2> HIDE DEF S
  <2> QED
    BY <2>1, <2>3, <2>4, <2>5, ChangeInv
<1>3. ASSUME NEW t \in tasks, Delete(t) PROVE IInv'
  <2>1. Change(tasks \ {t}) /\ IsFiniteSet(tasks \ {t}) /\ Distinct(tasks \ {t})
    BY <1>1, <1>3, FS_RemoveElement DEF Delete, Distinct
  <2> QED
    BY <2>1, ChangeInv
<1>4. ASSUME NEW t \in tasks, ChangeStatus(t) PROVE IInv'
  <2> DEFINE new == [t EXCEPT !.matches = ~@]
             S == (tasks \ {t}) \cup {new}
  <2>1. Change(S)
    BY <1>4 DEF ChangeStatus
  <2>2. new \in Task /\ new.id = t.id /\ new.at = t.at
    BY <1>1 DEF Task, Distinct
  <2>3. IsFiniteSet(S)
    BY <1>1, FS_AddElement, FS_RemoveElement
  <2>4. Distinct(S)
    <3> HIDE DEF new
    <3> QED
      BY <1>1, <2>2 DEF Distinct
  <2>5. \A s \in S : s \in tasks \/ \E u \in tasks : u.id = s.id /\ u.at = s.at
    BY <2>2
  <2> HIDE DEF S
  <2> QED
    BY <2>1, <2>3, <2>4, <2>5, ChangeInv
<1> QED
  BY <1>2, <1>3, <1>4

-----------------------------------------------------------------------------
(* One page                                                                 *)

\* The key of a task stands for it in the order.
LEMMA KeyOrder ==
    ASSUME NEW s, NEW t
    PROVE  /\ Older(s, Key(t)) <=> Older(s, t)
           /\ Key(t).id = t.id /\ Key(t).at = t.at
BY DEF Older, Key

\* A page is a stretch of the list after the cursor: all of it when no cursor
\* follows, and up to the next cursor, with more behind it, otherwise.
LEMMA PageIs ==
    ASSUME TypeOK, IsFiniteSet(tasks), NEW limit \in Limits
    PROVE  LET items == Page(cursor, limit).items
               next == Page(cursor, limit).next
           IN  /\ items \in Seq(Rows(cursor))
               /\ \A i, j \in DOMAIN items : i < j => Older(items[j], items[i])
               /\ next = NoCursor =>
                    \A t \in Rows(cursor) : \E i \in DOMAIN items : items[i] = t
               /\ next # NoCursor =>
                    /\ next \in [id : Ids, at : 0 .. MaxTime]
                    /\ \A t \in Rows(cursor) :
                         (\E i \in DOMAIN items : items[i] = t) \/ Older(t, next)
                    /\ \A i \in DOMAIN items : ~Older(items[i], next)
                    /\ \E i \in DOMAIN items : next = Key(items[i])
                    /\ \E t \in Rows(cursor) : Older(t, next)
<1> DEFINE S == Rows(cursor)
           n == Cardinality(S)
           rows == InOrder(S)
           items == Page(cursor, limit).items
           next == Page(cursor, limit).next
<1>1. IsFiniteSet(S) /\ Distinct(S)
  <2>1. S \subseteq tasks
    BY DEF Rows
  <2> QED
    BY <2>1, FS_Subset DEF TypeOK, Distinct
<1>2. /\ n \in Nat
      /\ rows \in [1 .. n -> S]
      /\ \A i, j \in 1 .. n : i < j => Older(rows[j], rows[i])
      /\ \A s \in S : \E i \in 1 .. n : rows[i] = s
  <2> HIDE DEF S
  <2> QED
    BY <1>1, InOrderSorted
<1>3. limit \in Nat \ {0}
  BY PageAssumption DEF PageAssumption
<1>4. rows \in Seq(S) /\ Len(rows) = n /\ DOMAIN rows = 1 .. n
  <2> HIDE DEF S, n, rows
  <2> QED
    BY <1>2
<1>5. CASE ~(n > limit)
  <2>1. items = rows /\ next = NoCursor
    BY <1>4, <1>5 DEF Page
  <2>2. /\ items \in Seq(S)
        /\ \A i, j \in DOMAIN items : i < j => Older(items[j], items[i])
        /\ \A t \in S : \E i \in DOMAIN items : items[i] = t
    <3> HIDE DEF S, n, rows, items, next
    <3> QED
      BY <1>2, <1>4, <2>1
  <2> HIDE DEF rows
  <2> QED
    BY <2>1, <2>2
<1>6. CASE n > limit
  <2>1. items = SubSeq(rows, 1, limit) /\ next = Key(rows[limit])
    BY <1>4, <1>6 DEF Page
  <2>2. limit \in 1 .. n /\ limit + 1 \in 1 .. n
    <3> HIDE DEF n
    <3> QED
      BY <1>2, <1>3, <1>6
  <2>3. /\ items \in Seq(S) /\ DOMAIN items = 1 .. limit
        /\ \A i \in 1 .. limit : items[i] = rows[i]
    <3> HIDE DEF S, n, rows, items
    <3> QED
      BY <1>2, <1>3, <1>4, <2>1, <2>2
  <2>4. \A s \in S : s \in Task
    BY <1>1 DEF Distinct
  <2>5. rows[limit] \in S /\ rows[limit + 1] \in S
    <3> HIDE DEF S, n, rows
    <3> QED
      BY <1>2, <2>2
  <2>6. next \in [id : Ids, at : 0 .. MaxTime] /\ next # NoCursor
    <3>1. rows[limit] \in Task
      BY <2>4, <2>5
    <3> HIDE DEF rows, next
    <3> QED
      BY <2>1, <3>1, TaskType DEF Key, NoCursor
  <2>7. ASSUME NEW t \in S PROVE (\E i \in DOMAIN items : items[i] = t) \/ Older(t, next)
    <3> HIDE DEF S, n, rows, items, next
    <3>1. PICK i \in 1 .. n : rows[i] = t
      BY <1>2
    <3>2. CASE i <= limit
      BY <1>2, <2>2, <2>3, <3>1, <3>2
    <3>3. CASE i > limit
      <4>1. Older(t, rows[limit])
        BY <1>2, <2>2, <3>1, <3>3
      <4> QED
        BY <2>1, <4>1, KeyOrder
    <3> QED
      BY <1>2, <1>3, <3>2, <3>3
  <2>8. ASSUME NEW i \in DOMAIN items PROVE ~Older(items[i], next)
    <3> HIDE DEF S, n, rows, items, next
    <3>1. i \in 1 .. limit /\ i \in 1 .. n /\ items[i] = rows[i] /\ rows[i] \in S
      BY <1>2, <2>2, <2>3, <2>8
    <3>2. i = limit \/ Older(rows[limit], rows[i])
      BY <1>2, <2>2, <3>1
    <3>3. ~Older(rows[i], rows[limit])
      BY <1>1, <2>5, <3>1, <3>2, OrderIsTotal
    <3> QED
      BY <2>1, <3>1, <3>3, KeyOrder
  <2>9. \E t \in S : Older(t, next)
    <3> HIDE DEF S, n, rows, items, next
    <3>1. Older(rows[limit + 1], rows[limit])
      BY <1>2, <1>3, <2>2
    <3> QED
      BY <2>1, <2>5, <3>1, KeyOrder
  <2>10. \A i, j \in DOMAIN items : i < j => Older(items[j], items[i])
    <3> HIDE DEF S, n, rows, items, next
    <3> QED
      BY <1>2, <2>2, <2>3
  <2>11. \E i \in DOMAIN items : next = Key(items[i])
    <3> HIDE DEF S, n, rows, items, next
    <3> QED
      BY <1>3, <2>1, <2>3
  <2> HIDE DEF rows
  <2> QED
    BY <2>3, <2>6, <2>7, <2>8, <2>9, <2>10, <2>11
<1> QED
  BY <1>5, <1>6

LEMMA FetchInv ==
    ASSUME IInv, NEW limit \in Limits, Fetch(limit)
    PROVE  IInv'
<1> DEFINE S == Rows(cursor)
           items == Page(cursor, limit).items
           next == Page(cursor, limit).next
           n == Len(returned)
<1>1. /\ walk # "over"
      /\ returned' = returned \o items
      /\ cursor' = next
      /\ walk' = IF next = NoCursor THEN "over" ELSE "on"
      /\ stable' = IF walk = "new" THEN Listed(tasks) ELSE stable
      /\ tasks' = tasks
  BY DEF Fetch
<1>2. /\ items \in Seq(S)
      /\ \A i, j \in DOMAIN items : i < j => Older(items[j], items[i])
      /\ next = NoCursor => \A t \in S : \E i \in DOMAIN items : items[i] = t
      /\ next # NoCursor =>
           /\ next \in [id : Ids, at : 0 .. MaxTime]
           /\ \A t \in S : (\E i \in DOMAIN items : items[i] = t) \/ Older(t, next)
           /\ \A i \in DOMAIN items : ~Older(items[i], next)
           /\ \E i \in DOMAIN items : next = Key(items[i])
           /\ \E t \in S : Older(t, next)
  BY PageIs DEF IInv
<1>3. Distinct(tasks) /\ S \subseteq tasks
  BY DEF IInv, TypeOK, Distinct, Rows
<1> HIDE DEF S, items, next
<1>4. items \in Seq(Task) /\ returned \in Seq(Task)
  BY <1>2, <1>3 DEF IInv, TypeOK, Distinct
<1>5. /\ n \in Nat /\ DOMAIN returned = 1 .. n /\ DOMAIN items = 1 .. Len(items)
      /\ Len(items) \in Nat
      /\ returned' \in Seq(Task)
      /\ DOMAIN returned' = 1 .. (n + Len(items))
      /\ \A i \in 1 .. n : returned'[i] = returned[i]
      /\ \A i \in DOMAIN items : n + i \in DOMAIN returned' /\ returned'[n + i] = items[i]
      /\ \A i \in DOMAIN returned' : i \in 1 .. n \/ (i - n \in DOMAIN items /\ returned'[i] = items[i - n])
  BY <1>1, <1>4
<1> HIDE DEF n
<1>6. TypeOK'
  <2>1. cursor' \in [id : Ids, at : 0 .. MaxTime] \cup {NoCursor}
    BY <1>1, <1>2
  <2>2. stable' \subseteq Ids
    BY <1>1, <1>3, TaskType DEF IInv, TypeOK, Listed, Distinct
  <2> QED
    BY <1>1, <1>5, <2>1, <2>2 DEF IInv, TypeOK
\* Every row of the page is older than the cursor, which is not older than any
\* task that came before.
<1>7. ASSUME NEW i \in 1 .. n, NEW j \in DOMAIN items PROVE Older(items[j], returned[i])
  <2>1. walk = "on" /\ cursor # NoCursor
    BY <1>1, <1>5, <1>7 DEF IInv, WalkInv, TypeOK
  <2>2. items[j] \in S
    BY <1>2
  <2>3. Older(items[j], cursor)
    BY <2>1, <2>2 DEF S, Rows
  <2>4. ~Older(returned[i], cursor)
    BY <1>5, <2>1 DEF IInv, WalkInv
  <2>5. /\ items[j].id \in Nat /\ items[j].at \in Nat
        /\ returned[i].id \in Nat /\ returned[i].at \in Nat
    BY <1>4, <1>5, TaskType
  <2>6. cursor.id \in Nat /\ cursor.at \in Nat
    <3>1. cursor.id \in Ids /\ cursor.at \in 0 .. MaxTime
      BY <2>1 DEF IInv, TypeOK
    <3> QED
      BY <3>1, TaskType
  <2> QED
    BY <2>3, <2>4, <2>5, <2>6 DEF Older
<1>8. NewestFirst'
  <2> SUFFICES ASSUME NEW i \in DOMAIN returned', NEW j \in DOMAIN returned', i < j
               PROVE  Older(returned'[j], returned'[i])
    BY DEF NewestFirst
  <2>1. CASE i \in 1 .. n /\ j \in 1 .. n
    BY <1>5, <2>1 DEF IInv, WalkInv, NewestFirst
  <2>2. CASE i \in 1 .. n /\ j \notin 1 .. n
    BY <1>5, <1>7, <2>2
  <2>3. CASE i \notin 1 .. n
    <3>1. j \notin 1 .. n
      BY <1>5, <2>3
    <3>2. i - n < j - n
      BY <1>5
    <3> QED
      BY <1>2, <1>5, <2>3, <3>1, <3>2
  <2> QED
    BY <2>1, <2>2, <2>3
<1>9. WalkInv'
  <2>1. ASSUME next # NoCursor, NEW i \in DOMAIN returned' PROVE ~Older(returned'[i], next)
    <3>1. CASE i \notin 1 .. n
      BY <1>2, <1>5, <2>1, <3>1
    <3>2. CASE i \in 1 .. n
      <4>1. PICK k \in DOMAIN items : next = Key(items[k])
        BY <1>2, <2>1
      <4>2. returned'[i] = returned[i] /\ Older(items[k], returned[i])
        BY <1>5, <1>7, <3>2
      <4>3. /\ items[k].id \in Nat /\ items[k].at \in Nat
            /\ returned[i].id \in Nat /\ returned[i].at \in Nat
        BY <1>4, <1>5, <3>2, TaskType
      <4>4. ~Older(returned[i], items[k])
        BY <4>2, <4>3 DEF Older
      <4> QED
        BY <4>1, <4>2, <4>4, KeyOrder
    <3> QED
      BY <3>1, <3>2
  <2> QED
    BY <1>1, <1>8, <2>1 DEF WalkInv
\* A task of the list came before, or is a row of the statement: it is on the page
\* or after the next cursor.
<1>10. ASSUME NEW t \in tasks, t.id \in stable'
       PROVE  \/ \E i \in DOMAIN returned' : returned'[i].id = t.id
              \/ next # NoCursor /\ Older(t, next)
  <2>1. t.id \in Listed(tasks) /\ (walk # "new" => t.id \in stable)
    BY <1>1, <1>10 DEF IInv, CoverInv
  <2>2. Filtered => t.matches
    BY <1>3, <2>1 DEF Listed, Distinct
  <2>3. CASE t \in S
    <3>1. (\E i \in DOMAIN items : items[i] = t) \/ (next # NoCursor /\ Older(t, next))
      BY <1>2, <2>3
    <3> QED
      BY <1>5, <3>1
  <2>4. CASE t \notin S
    <3>1. cursor # NoCursor /\ ~Older(t, cursor)
      BY <2>2, <2>4 DEF S, Rows
    <3>2. walk = "on"
      BY <3>1 DEF IInv, WalkInv
    <3>3. Returned(t.id)
      BY <2>1, <3>1, <3>2 DEF IInv, CoverInv
    <3> QED
      BY <1>5, <3>3 DEF Returned
  <2> QED
    BY <2>3, <2>4
<1>11. CoverInv'
  <2>1. walk' \in {"on", "over"} /\ (walk' = "over" <=> next = NoCursor)
    BY <1>1
  <2>2. stable' \subseteq Listed(tasks')
    BY <1>1 DEF IInv, CoverInv
  <2>3. WalkComplete'
    <3> SUFFICES ASSUME next = NoCursor, NEW id \in stable'
                 PROVE  \E i \in DOMAIN returned' : returned'[i].id = id
      BY <2>1 DEF WalkComplete
    <3>1. PICK t \in tasks : t.id = id
      BY <1>1, <2>2 DEF Listed
    <3> QED
      BY <1>10, <3>1
  <2> QED
    BY <1>1, <1>10, <2>1, <2>2, <2>3 DEF CoverInv, Returned
<1>12. IsFiniteSet(tasks)'
  BY <1>1 DEF IInv
<1> QED
  BY <1>6, <1>9, <1>11, <1>12 DEF IInv

LEMMA StepInv == IInv /\ [Next]_vars => IInv'
<1> SUFFICES ASSUME IInv, [Next]_vars PROVE IInv'
  OBVIOUS
<1>1. CASE UNCHANGED vars
  BY <1>1 DEF vars, IInv, TypeOK, WalkInv, CoverInv, NewestFirst, WalkComplete, Returned, Listed
<1>2. CASE Next
  BY <1>2, Others, FetchInv DEF Next
<1> QED
  BY <1>1, <1>2

-----------------------------------------------------------------------------
(* The theorems                                                             *)

\* The inductive invariant: types, order and cover of the walk.
THEOREM Invariants == Spec => []IInv
BY InitInv, StepInv, PTL DEF Spec

\* list_tasks: whatever is created and deleted between pages, the pages end to end
\* are in the strict order of the list, and bring no task twice.
THEOREM PagesAreOrdered == Spec => []NewestFirst
<1>1. IInv => NewestFirst
  BY DEF IInv, WalkInv
<1> QED
  BY <1>1, Invariants, PTL

\* list_tasks: a walk that ends has seen every task that stayed in the list, ties
\* of created_at included.
THEOREM PagesAreComplete == Spec => []WalkComplete
<1>1. IInv => WalkComplete
  BY DEF IInv, CoverInv
<1> QED
  BY <1>1, Invariants, PTL

\* list_tasks: next_cursor is given only with a row of the list behind it.
THEOREM CursorsAreHonest == Spec => CursorPromisesMore
<1> DEFINE A == walk # "over" /\ cursor' # cursor /\ cursor' # NoCursor =>
                  \E t \in tasks : Older(t, cursor') /\ (Filtered => t.matches)
<1>1. IInv /\ [Next]_vars => [A]_vars
  <2> SUFFICES ASSUME IInv, [Next]_vars, cursor' # cursor, cursor' # NoCursor
               PROVE  \E t \in tasks : Older(t, cursor') /\ (Filtered => t.matches)
    OBVIOUS
  <2>1. PICK limit \in Limits : Fetch(limit)
    BY DEF Next, Create, Delete, ChangeStatus, Change, vars
  <2>2. cursor' = Page(cursor, limit).next
    BY <2>1 DEF Fetch
  <2>3. \E t \in Rows(cursor) : Older(t, cursor')
    BY <2>2, PageIs DEF IInv
  <2> QED
    BY <2>3 DEF Rows
<1> HIDE DEF A
<1>2. Spec => [][A]_vars
  BY <1>1, Invariants, PTL DEF Spec
<1> QED
  BY <1>2 DEF CursorPromisesMore, A
=============================================================================
