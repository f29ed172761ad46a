-------------------------- MODULE ReadinessProofs ---------------------------
(***************************************************************************)
(* What the revision number says about the schema, for every walk through *)
(* the revisions, and what a 200 of GET /readyz says, for any number of   *)
(* probes and connections.                                                *)
(***************************************************************************)
EXTENDS Readiness, FiniteSetTheorems, FunctionTheorems, TLAPS

\* The tables and the labels that each revision has brought.
SchemaInv ==
    /\ rev \in 0 .. Head_
    /\ rev \in 1 .. Head_ => SchemaLabels \subseteq labels
    /\ rev \in 2 .. Head_ => tagTables
    /\ rev = Head_ => "unknown" \in labels

\* An answer is typed, and a probe that has said ready has seen a whole schema.
VerdictInv ==
    /\ verdict \in [Probes -> {"none", "ready", "notReady"}]
    /\ sound \in [Probes -> BOOLEAN]
    /\ ReadyMeansMigrated

ReadyInv == SchemaInv /\ VerdictInv

\* The actions that touch neither the revision nor the schema.
LEMMA ProgramKeepsSchema ==
    Program => UNCHANGED <<rev, tagTables, labels>>
BY DEF Program, CreateTask, StoreBlob, StoreRow

\* Every revision brings and takes what its number says.
LEMMA AlembicSchema == SchemaInv /\ Alembic => SchemaInv'
<1> SUFFICES ASSUME SchemaInv, Alembic PROVE SchemaInv'
  OBVIOUS
<1> USE DEF SchemaInv, Head_
<1>1. CASE UpgradeV1 \/ DowngradeV1
  BY <1>1 DEF UpgradeV1, DowngradeV1
<1>2. CASE UpgradeV2 \/ UpgradeV2Fails \/ DowngradeV2
  BY <1>2 DEF UpgradeV2, UpgradeV2Fails, DowngradeV2
<1>3. CASE UpgradeV3 \/ DowngradeV3
  <2>1. /\ rev \in {2, 3} /\ rev' \in {2, 3}
        /\ tagTables' = tagTables /\ labels' = labels
    BY <1>3 DEF UpgradeV3, DowngradeV3
  <2> QED
    BY <2>1
<1>4. CASE UpgradeV4 \/ DowngradeV4
  BY <1>4 DEF UpgradeV4, DowngradeV4
<1> QED
  BY <1>1, <1>2, <1>3, <1>4 DEF Alembic

LEMMA SchemaStep == SchemaInv /\ [ProbeNext]_allVars => SchemaInv'
<1> SUFFICES ASSUME SchemaInv, [ProbeNext]_allVars PROVE SchemaInv'
  OBVIOUS
<1>1. CASE Database
  BY <1>1, ProgramKeepsSchema, AlembicSchema DEF Database, Next, SchemaInv
<1>2. CASE UNCHANGED vars
  BY <1>2 DEF vars, SchemaInv
<1>3. ProbeNext => Database \/ UNCHANGED vars
  BY DEF ProbeNext, Flip, ProbeStep, Checkout, NoConnection, Ping, ReadRevision
<1> QED
  BY <1>1, <1>2, <1>3 DEF allVars

\* A probe says ready only in ReadRevision, which compares with the schema there.
LEMMA VerdictStep == SchemaInv /\ VerdictInv /\ [ProbeNext]_allVars => VerdictInv'
<1> SUFFICES ASSUME SchemaInv, VerdictInv, [ProbeNext]_allVars PROVE VerdictInv'
  OBVIOUS
<1> USE DEF VerdictInv, ReadyMeansMigrated
<1>1. CASE UNCHANGED <<verdict, sound>>
  BY <1>1
<1>2. ASSUME NEW p \in Probes, verdict' = [verdict EXCEPT ![p] = "notReady"], sound' = sound
      PROVE  VerdictInv'
  BY <1>2
<1>3. ASSUME NEW p \in Probes, ReadRevision(p)
      PROVE  VerdictInv'
  <2> DEFINE answer == Compared(HeadRevision, CurrentRevision)
  <2>1. /\ verdict' = [verdict EXCEPT ![p] = answer]
        /\ sound' = [sound EXCEPT ![p] = SchemaWhole]
    BY <1>3 DEF ReadRevision, Says
  <2>2. answer \in {"ready", "notReady"} /\ SchemaWhole \in BOOLEAN
    BY DEF Compared, SchemaWhole
  <2>3. answer = "ready" => SchemaWhole
    <3>1. answer = "ready" => up /\ rev = Head_
      BY DEF Compared, HeadRevision, CurrentRevision, Unknown, Head_, SchemaInv
    <3> QED
      BY <3>1 DEF SchemaWhole, SchemaInv, Head_
  <2> HIDE DEF answer
  <2> QED
    BY <2>1, <2>2, <2>3
<1>4. ASSUME NEW p \in Probes, ProbeStep(p)
      PROVE  VerdictInv'
  <2>1. CASE Checkout(p, "idle", "pinging") \/ Checkout(p, "pinged", "reading")
    BY <1>1, <2>1 DEF Checkout
  <2>2. CASE NoConnection(p) \/ Ping(p)
    BY <1>1, <1>2, <2>2 DEF NoConnection, Ping, Says
  <2> QED
    BY <1>3, <1>4, <2>1, <2>2 DEF ProbeStep
<1>5. CASE Database \/ Flip \/ UNCHANGED allVars
  BY <1>1, <1>5 DEF Database, Flip, probeVars, allVars
<1> QED
  BY <1>4, <1>5 DEF ProbeNext

\* At the bottom there is nothing, and nobody has asked.
LEMMA ReadyInit == ProbeInit => ReadyInv
BY DEF ProbeInit, Init, ReadyInv, SchemaInv, VerdictInv, ReadyMeansMigrated, Head_

\* The inductive invariant: the schema is what the revision says, and the answers
\* given are sound.
THEOREM Invariants == ProbeSpec => []ReadyInv
<1>1. ReadyInv /\ [ProbeNext]_allVars => ReadyInv'
  BY SchemaStep, VerdictStep DEF ReadyInv
<1> QED
  BY ReadyInit, <1>1, PTL DEF ProbeSpec

\* readyz (health.py): a 200 is given only when, at the moment the revision was
\* read, the database was there with the whole schema of the head revision.
THEOREM ReadyIsMigrated == ProbeSpec => []ReadyMeansMigrated
<1>1. ReadyInv => ReadyMeansMigrated
  BY DEF ReadyInv, VerdictInv
<1> QED
  BY <1>1, Invariants, PTL

-----------------------------------------------------------------------------
(* The data that the revisions move                                         *)

LEMMA LeastNumber ==
    ASSUME NEW T, T \subseteq Nat, T # {}
    PROVE  \E m \in T : \A n \in T : m <= n
<1> DEFINE Below == {0 .. n : n \in T}
<1>1. IsWellFoundedOn(StrictSubsetOrdering(Nat), FiniteSubsetsOf(Nat))
  BY FS_StrictSubsetOrderingWellFounded
<1>2. Below \subseteq FiniteSubsetsOf(Nat)
  <2>1. \A n \in Nat : IsFiniteSet(0 .. n)
    BY FS_Interval
  <2> QED
    BY <2>1 DEF FiniteSubsetsOf
<1>3. PICK s \in Below : \A u \in Below : ~(<<u, s>> \in StrictSubsetOrdering(Nat))
  <2>1. Below # {}
    OBVIOUS
  <2> HIDE DEF Below
  <2> QED
    BY <1>1, <1>2, <2>1, WFMin
<1>4. PICK m \in T : s = 0 .. m
  BY <1>3
<1>5. \A n \in T : m <= n
  <2> SUFFICES ASSUME NEW n \in T, n < m PROVE FALSE
    BY <1>4
  <2>1. 0 .. n \subseteq 0 .. m /\ m \in 0 .. m /\ m \notin 0 .. n
    OBVIOUS
  <2>2. <<0 .. n, s>> \in StrictSubsetOrdering(Nat)
    BY <1>4, <2>1 DEF StrictSubsetOrdering
  <2> QED
    BY <1>3, <2>2
<1> QED
  BY <1>5

\* SetToSeq lists a finite set.
LEMMA Listing ==
    ASSUME NEW S, IsFiniteSet(S)
    PROVE  /\ Cardinality(S) \in Nat
           /\ SetToSeq(S) \in [1 .. Cardinality(S) -> S]
           /\ \A x \in S : \E i \in 1 .. Cardinality(S) : SetToSeq(S)[i] = x
<1> DEFINE n == Cardinality(S)
           f == SetToSeq(S)
<1>1. n \in Nat /\ ExistsBijection(1 .. n, S)
  BY FS_CardinalityType
<1>2. PICK g \in [1 .. n -> S] : IsInjective(g)
  BY <1>1 DEF ExistsBijection, Bijection, Injection
<1>3. f \in [1 .. n -> S] /\ IsInjective(f)
  BY <1>2 DEF SetToSeq
<1>4. f \in Surjection(1 .. n, S)
  <2>1. IsFiniteSet(1 .. n) /\ Cardinality(1 .. n) = n
    BY <1>1, FS_Interval
  <2>2. f \in Injection(1 .. n, S)
    BY <1>3 DEF Injection
  <2> HIDE DEF f
  <2> QED
    BY <2>1, <2>2, FS_Injection
<1> QED
  BY <1>1, <1>3, <1>4 DEF Surjection

\* The oldest row of a task is one of its rows, and none is before it.
LEMMA OldestRow ==
    ASSUME NEW rows \in Seq(Row), NEW t, RowsOf(rows, t) # {}
    PROVE  /\ Min(RowsOf(rows, t)) \in RowsOf(rows, t)
           /\ \A i \in RowsOf(rows, t) : Min(RowsOf(rows, t)) <= i
<1>1. RowsOf(rows, t) \subseteq Nat
  BY DEF RowsOf
<1> QED
  BY <1>1, LeastNumber DEF Min

\* It is the one row of the task with no row of the task before it.
LEMMA OldestIs ==
    ASSUME NEW rows \in Seq(Row), NEW t, NEW i \in RowsOf(rows, t),
           \A j \in RowsOf(rows, t) : i <= j
    PROVE  Oldest(rows, t) = rows[i].payload
<1>1. RowsOf(rows, t) \subseteq Nat
  BY DEF RowsOf
<1>2. Min(RowsOf(rows, t)) = i
  <2> DEFINE m == Min(RowsOf(rows, t))
  <2>1. m \in RowsOf(rows, t) /\ m <= i
    BY OldestRow
  <2>2. i <= m
    BY <2>1
  <2>3. m = i
    <3> HIDE DEF m
    <3> QED
      BY <1>1, <2>1, <2>2
  <2> QED
    BY <2>3
<1> QED
  BY <1>2 DEF Oldest

\* A row at the end is the oldest of its task only if it is the first.
LEMMA OldestAppend ==
    ASSUME NEW rows \in Seq(Row), NEW row \in Row, NEW t
    PROVE  /\ RowsOf(rows, t) # {} => Oldest(Append(rows, row), t) = Oldest(rows, t)
           /\ RowsOf(rows, t) = {} =>
                Oldest(Append(rows, row), t) = IF row.task = t THEN row.payload ELSE NoBlob
<1> DEFINE longer == Append(rows, row)
           n == Len(rows) + 1
<1>1. /\ longer \in Seq(Row)
      /\ DOMAIN longer = 1 .. n /\ DOMAIN rows = 1 .. (n - 1) /\ n \in Nat \ {0}
      /\ \A i \in 1 .. (n - 1) : longer[i] = rows[i]
      /\ longer[n] = row
  OBVIOUS
<1>2. RowsOf(longer, t) = RowsOf(rows, t) \cup (IF row.task = t THEN {n} ELSE {})
  <2> HIDE DEF longer, n
  <2>1. 1 .. n = (1 .. (n - 1)) \cup {n} /\ n \notin 1 .. (n - 1)
    BY <1>1
  <2>2. \A i : i \in RowsOf(longer, t) <=> i \in RowsOf(rows, t) \/ (i = n /\ row.task = t)
    BY <1>1, <2>1 DEF RowsOf
  <2> QED
    BY <2>2
<1>3. RowsOf(rows, t) \subseteq 1 .. (n - 1)
  BY <1>1 DEF RowsOf
<1>4. CASE RowsOf(rows, t) # {}
  <2> DEFINE m == Min(RowsOf(rows, t))
  <2>1. m \in RowsOf(rows, t) /\ \A i \in RowsOf(rows, t) : m <= i
    BY <1>4, OldestRow
  <2>2. m \in RowsOf(longer, t) /\ \A i \in RowsOf(longer, t) : m <= i
    <3> HIDE DEF longer, n, m
    <3> QED
      BY <1>1, <1>2, <1>3, <2>1
  <2>3. Oldest(longer, t) = longer[m].payload /\ Oldest(rows, t) = rows[m].payload
    <3> HIDE DEF longer, n, m
    <3> QED
      BY <1>1, <2>1, <2>2, OldestIs
  <2>4. Oldest(longer, t) = Oldest(rows, t)
    <3> HIDE DEF longer, n, m
    <3> QED
      BY <1>1, <1>3, <2>1, <2>3
  <2> QED
    BY <1>4, <2>4
<1>5. CASE RowsOf(rows, t) = {} /\ row.task = t
  <2>1. n \in RowsOf(longer, t) /\ \A i \in RowsOf(longer, t) : n <= i
    BY <1>1, <1>2, <1>5
  <2>2. Oldest(longer, t) = longer[n].payload
    <3> HIDE DEF longer, n
    <3> QED
      BY <1>1, <2>1, OldestIs
  <2> QED
    BY <1>1, <1>5, <2>2
<1>6. CASE RowsOf(rows, t) = {} /\ row.task # t
  BY <1>2, <1>6 DEF Oldest
<1> QED
  BY <1>4, <1>5, <1>6

\* Where the oldest result of every task is kept at each revision.
OldestInv ==
    /\ rev = 0 => written = <<>>
    /\ \A t \in Ids : name[t] = NoTask => Oldest(written, t) = NoBlob
    /\ rev \in {1, 2} => \A t \in Ids : blob[t] = Oldest(written, t)
    /\ rev >= 3 => \A t \in Ids : Oldest(results, t) = Oldest(written, t)

DataInv == TypeOK /\ OldestInv

LEMMA NothingWritten ==
    /\ <<>> \in Seq(Row)
    /\ \A t : RowsOf(<<>>, t) = {} /\ Oldest(<<>>, t) = NoBlob
BY DEF RowsOf, Oldest

\* What a row holds is never nothing.
LEMMA OldestHolds ==
    ASSUME NEW rows \in Seq(Row), NEW t
    PROVE  /\ RowsOf(rows, t) # {} => Oldest(rows, t) \in Payloads
           /\ RowsOf(rows, t) = {} <=> Oldest(rows, t) = NoBlob
<1>1. ASSUME RowsOf(rows, t) # {} PROVE Oldest(rows, t) \in Payloads
  <2> DEFINE m == Min(RowsOf(rows, t))
  <2>1. m \in DOMAIN rows
    BY <1>1, OldestRow DEF RowsOf
  <2>2. rows[m] \in Row
    <3> HIDE DEF m
    <3> QED
      BY <2>1
  <2>3. rows[m].payload \in Payloads
    BY <2>2 DEF Row
  <2> QED
    BY <1>1, <2>3 DEF Oldest
<1>2. RowsOf(rows, t) = {} => Oldest(rows, t) = NoBlob
  BY DEF Oldest
<1> QED
  BY <1>1, <1>2, AbsentAssumption

LEMMA DataInit == Init => DataInv
<1> SUFFICES ASSUME Init PROVE DataInv
  OBVIOUS
<1>1. TypeOK
  <2>1. results \in Seq(Row) /\ written \in Seq(Row)
    BY DEF Init
  <2>2. /\ rev \in 0 .. Head_ /\ rev < 3 /\ stamps \in Nat
        /\ results = <<>> /\ labels = {}
    BY DEF Init, Head_
  <2>4. tagTables \in BOOLEAN
    BY Zenon DEF Init
  <2>3. /\ name \in [Ids -> Names \cup {NoTask}]
        /\ blob \in [Ids -> Payloads \cup {NoBlob}]
        /\ \A t \in Ids : blob[t] = NoBlob
    BY DEF Init
  <2> QED
    BY <2>1, <2>2, <2>3, <2>4 DEF TypeOK
<1>2. OldestInv
  BY NothingWritten DEF Init, OldestInv
<1> QED
  BY <1>1, <1>2 DEF DataInv

\* The program stores a first result as the blob or as a row, and further results
\* after it.
LEMMA ProgramData == DataInv /\ Program => DataInv'
<1> SUFFICES ASSUME DataInv, Program PROVE DataInv'
  OBVIOUS
<1> USE DEF DataInv
<1>1. ASSUME NEW t \in Ids, NEW n \in Names, CreateTask(t, n) PROVE DataInv'
  <2>1. TypeOK'
    <3>1. name' \in [Ids -> Names \cup {NoTask}]
      BY <1>1 DEF CreateTask, TypeOK
    <3>2. \A u \in Ids : (rev' \notin {1, 2} \/ name'[u] = NoTask) => blob'[u] = NoBlob
      BY <1>1, AbsentAssumption DEF CreateTask, TypeOK
    <3> QED
      BY <1>1, <3>1, <3>2 DEF CreateTask, TypeOK
  <2>2. \A u \in Ids : name'[u] = NoTask => name[u] = NoTask
    BY <1>1, AbsentAssumption DEF CreateTask, TypeOK
  <2>3. OldestInv'
    BY <1>1, <2>2 DEF CreateTask, OldestInv
  <2> QED
    BY <2>1, <2>3
<1>2. ASSUME NEW t \in Ids, NEW p \in Payloads, StoreBlob(t, p) PROVE DataInv'
  <2> DEFINE row == [task |-> t, payload |-> p, run |-> 0]
  <2>1. row \in Row /\ row.task = t /\ row.payload = p
    BY DEF Row
  <2>2. /\ rev \in {1, 2} /\ name[t] # NoTask /\ blob[t] = NoBlob
        /\ blob' = [blob EXCEPT ![t] = p]
        /\ written' = Append(written, row)
        /\ UNCHANGED <<rev, name, results, tagTables, labels, stamps>>
    BY <1>2 DEF StoreBlob
  <2> HIDE DEF row
  <2>3. TypeOK'
    <3>1. written' \in Seq(Row)
      BY <2>1, <2>2 DEF TypeOK
    <3>2. blob' \in [Ids -> Payloads \cup {NoBlob}]
      BY <2>2 DEF TypeOK
    <3>3. \A u \in Ids : (rev' \notin {1, 2} \/ name'[u] = NoTask) => blob'[u] = NoBlob
      BY <2>2 DEF TypeOK
    <3> QED
      BY <2>2, <3>1, <3>2, <3>3 DEF TypeOK
  <2>4. \A u \in Ids : blob'[u] = Oldest(written', u)
    <3> SUFFICES ASSUME NEW u \in Ids PROVE blob'[u] = Oldest(written', u)
      OBVIOUS
    <3>1. written \in Seq(Row) /\ blob[u] = Oldest(written, u)
      BY <2>2 DEF TypeOK, OldestInv
    <3>2. CASE u = t
      BY <2>1, <2>2, <3>1, <3>2, OldestHolds, OldestAppend DEF TypeOK
    <3>3. CASE u # t
      <4>1. Oldest(written', u) = Oldest(written, u)
        BY <2>1, <2>2, <3>1, <3>3, OldestHolds, OldestAppend
      <4> QED
        BY <2>2, <3>1, <3>3, <4>1 DEF TypeOK
    <3> QED
      BY <3>2, <3>3
  <2>5. \A u \in Ids : name'[u] = NoTask => Oldest(written', u) = NoBlob
    BY <2>2, <2>3, <2>4 DEF TypeOK
  <2> QED
    BY <2>2, <2>3, <2>4, <2>5 DEF OldestInv
<1>3. ASSUME NEW t \in Ids, NEW p \in Payloads, StoreRow(t, p) PROVE DataInv'
  <2> DEFINE row == [task |-> t, payload |-> p, run |-> stamps + 1]
  <2>1. row \in Row
    BY DEF Row, TypeOK
  <2>2. /\ rev >= 3
        /\ results' = Append(results, row)
        /\ written' = Append(written, row)
        /\ stamps' = stamps + 1
        /\ UNCHANGED <<rev, name, blob, tagTables, labels>>
    BY <1>3 DEF StoreRow
  <2> HIDE DEF row
  <2>3. TypeOK'
    <3>1. written' \in Seq(Row) /\ results' \in Seq(Row)
      BY <2>1, <2>2 DEF TypeOK
    <3> QED
      BY <2>2, <3>1 DEF TypeOK
  <2>4. ASSUME NEW u \in Ids PROVE Oldest(results', u) = Oldest(written', u)
    <3>1. /\ results \in Seq(Row) /\ written \in Seq(Row)
          /\ Oldest(results, u) = Oldest(written, u)
      BY <2>2 DEF TypeOK, OldestInv
    <3>2. RowsOf(results, u) = {} <=> RowsOf(written, u) = {}
      BY <3>1, OldestHolds
    <3> QED
      BY <2>1, <2>2, <3>1, <3>2, OldestAppend
  <2>5. rev' >= 3 /\ rev' \notin {0, 1, 2}
    BY <2>2 DEF TypeOK
  <2>6. ASSUME NEW u \in Ids, name'[u] = NoTask PROVE Oldest(written', u) = NoBlob
    <3>1. written \in Seq(Row) /\ name[u] = NoTask /\ Oldest(written, u) = NoBlob
      BY <2>2, <2>6 DEF TypeOK, OldestInv
    <3>2. u # t
      BY <1>3, <3>1 DEF StoreRow
    <3>3. row.task = t
      BY DEF row
    <3> QED
      BY <2>1, <2>2, <3>1, <3>2, <3>3, OldestHolds, OldestAppend
  <2> QED
    BY <2>3, <2>4, <2>5, <2>6 DEF OldestInv
<1> QED
  BY <1>1, <1>2, <1>3 DEF Program

\* The new rows of v3 are the blobs, a row each.
LEMMA UpgradeV3Data == DataInv /\ UpgradeV3 => DataInv'
<1> SUFFICES ASSUME DataInv, UpgradeV3 PROVE DataInv'
  OBVIOUS
<1> USE DEF DataInv
<1> DEFINE S == {t \in Ids : blob[t] # NoBlob}
           owners == SetToSeq(S)
           n == Cardinality(S)
<1>1. /\ rev = 2 /\ rev' = 3
      /\ results' = [i \in DOMAIN owners |->
                       [task |-> owners[i], payload |-> blob[owners[i]], run |-> stamps + i]]
      /\ stamps' = stamps + Len(owners)
      /\ blob' = [t \in Ids |-> NoBlob]
      /\ UNCHANGED <<name, tagTables, labels, written>>
  BY DEF UpgradeV3
<1>2. IsFiniteSet(S)
  BY IdsAssumption, FS_Subset DEF IdsAssumption
<1>3. /\ n \in Nat
      /\ owners \in [1 .. n -> S]
      /\ \A t \in S : \E i \in 1 .. n : owners[i] = t
  <2> HIDE DEF S
  <2> QED
    BY <1>2, Listing
<1>4. /\ DOMAIN results' = 1 .. n
      /\ \A i \in 1 .. n : /\ results'[i] \in Row
                           /\ results'[i].task = owners[i]
                           /\ results'[i].payload = blob[owners[i]]
  <2>1. DOMAIN owners = 1 .. n /\ \A i \in 1 .. n : owners[i] \in Ids /\ blob[owners[i]] \in Payloads
    <3>1. \A t \in S : t \in Ids /\ blob[t] \in Payloads
      BY DEF TypeOK
    <3> HIDE DEF S, owners, n
    <3> QED
      BY <1>3, <3>1
  <2>2. stamps \in Nat
    BY DEF TypeOK
  <2> HIDE DEF S, owners, n
  <2> QED
    BY <1>1, <1>3, <2>1, <2>2 DEF Row
<1>5. TypeOK'
  <2>1. results' \in Seq(Row)
    <3> HIDE DEF S, owners, n
    <3>1. results' = [i \in 1 .. n |-> results'[i]]
      BY <1>1, <1>4
    <3>2. [i \in 1 .. n |-> results'[i]] \in [1 .. n -> Row]
      BY <1>4
    <3> QED
      BY <1>3, <3>1, <3>2
  <2>2. stamps' \in Nat
    <3> HIDE DEF S, owners, n
    <3>1. Len(owners) \in Nat
      BY <1>3
    <3> QED
      BY <1>1, <3>1 DEF TypeOK
  <2>3. /\ rev' \in 0 .. Head_
        /\ blob' \in [Ids -> Payloads \cup {NoBlob}]
        /\ \A t \in Ids : blob'[t] = NoBlob
        /\ ~(rev' < 3)
    BY <1>1 DEF Head_
  <2> HIDE DEF S, owners, n
  <2> QED
    BY <1>1, <2>1, <2>2, <2>3 DEF TypeOK
<1>6. ASSUME NEW t \in Ids PROVE Oldest(results', t) = Oldest(written', t)
  <2>0. Oldest(written', t) = blob[t]
    BY <1>1 DEF OldestInv
  <2>1. CASE RowsOf(results', t) = {}
    <3>1. t \notin S
      <4> HIDE DEF S, owners, n
      <4> QED
        BY <1>3, <1>4, <2>1 DEF RowsOf
    <3> QED
      BY <2>0, <2>1, <3>1 DEF Oldest
  <2>2. CASE RowsOf(results', t) # {}
    <3> DEFINE m == Min(RowsOf(results', t))
    <3>1. m \in RowsOf(results', t)
      BY <1>5, <2>2, OldestRow DEF TypeOK
    <3>2. results'[m].payload = blob[t]
      <4> HIDE DEF S, owners, n, m
      <4> QED
        BY <1>4, <3>1 DEF RowsOf
    <3> QED
      BY <2>0, <2>2, <3>2 DEF Oldest
  <2> QED
    BY <2>1, <2>2
<1> QED
  BY <1>1, <1>5, <1>6 DEF OldestInv

\* The oldest row of every task goes back, and the other revisions move no result.
LEMMA AlembicData == DataInv /\ Alembic => DataInv'
<1> SUFFICES ASSUME DataInv, Alembic PROVE DataInv'
  OBVIOUS
<1> USE DEF DataInv
<1>1. CASE UpgradeV1
  <2>1. written = <<>> /\ \A t \in Ids : blob[t] = NoBlob
    BY <1>1 DEF UpgradeV1, TypeOK, OldestInv
  <2>2. TypeOK'
    BY <1>1, <2>1 DEF UpgradeV1, TypeOK, Head_
  <2> QED
    BY <1>1, <2>1, <2>2, NothingWritten DEF UpgradeV1, OldestInv
<1>2. CASE DowngradeV1
  <2>1. TypeOK'
    BY <1>2, NothingWritten DEF DowngradeV1, TypeOK, Head_
  <2> QED
    BY <1>2, <2>1, NothingWritten DEF DowngradeV1, OldestInv
<1>3. CASE UpgradeV2 \/ UpgradeV2Fails \/ DowngradeV2
  <2>1. /\ rev \in {1, 2} /\ rev' \in {1, 2} /\ tagTables' \in BOOLEAN
        /\ UNCHANGED <<name, blob, results, labels, written, stamps>>
    BY <1>3, DialectAssumption DEF UpgradeV2, UpgradeV2Fails, DowngradeV2, DialectAssumption
  <2>2. TypeOK'
    BY <2>1 DEF TypeOK, Head_
  <2> QED
    BY <2>1, <2>2 DEF OldestInv
<1>4. CASE UpgradeV3
  BY <1>4, UpgradeV3Data
<1>5. CASE DowngradeV3
  <2>1. /\ rev = 3 /\ rev' = 2 /\ results' = <<>>
        /\ blob' = [t \in Ids |-> Oldest(results, t)]
        /\ UNCHANGED <<name, tagTables, labels, written, stamps>>
    BY <1>5 DEF DowngradeV3, Kept
  <2>2. \A t \in Ids : blob'[t] \in Payloads \cup {NoBlob} /\ blob'[t] = Oldest(written, t)
    BY <2>1, OldestHolds DEF TypeOK, OldestInv
  <2>3. TypeOK'
    <3>1. \A t \in Ids : (rev' \notin {1, 2} \/ name'[t] = NoTask) => blob'[t] = NoBlob
      BY <2>1, <2>2 DEF OldestInv
    <3>2. rev' \in 0 .. Head_ /\ results' \in Seq(Row) /\ blob' \in [Ids -> Payloads \cup {NoBlob}]
      BY <2>1, <2>2, NothingWritten DEF Head_
    <3> QED
      BY <2>1, <3>1, <3>2 DEF TypeOK
  <2> QED
    BY <2>1, <2>2, <2>3 DEF OldestInv
<1>6. CASE UpgradeV4 \/ DowngradeV4
  <2>1. /\ rev \in {3, 4} /\ rev' \in {3, 4} /\ labels' \subseteq SchemaLabels \cup {"unknown"}
        /\ UNCHANGED <<name, blob, results, tagTables, written, stamps>>
    BY <1>6 DEF UpgradeV4, DowngradeV4, TypeOK, Head_
  <2>2. TypeOK'
    BY <2>1 DEF TypeOK, Head_
  <2> QED
    BY <2>1, <2>2 DEF OldestInv
<1> QED
  BY <1>1, <1>2, <1>3, <1>4, <1>5, <1>6 DEF Alembic

LEMMA DataStep == DataInv /\ [ProbeNext]_allVars => DataInv'
<1> SUFFICES ASSUME DataInv, [ProbeNext]_allVars PROVE DataInv'
  OBVIOUS
<1>1. CASE Program \/ Alembic
  BY <1>1, ProgramData, AlembicData
<1>2. CASE UNCHANGED vars
  BY <1>2 DEF vars, DataInv, TypeOK, OldestInv
<1>3. Alembic \/ Program \/ UNCHANGED vars
  BY DEF ProbeNext, Next, Database, Flip, ProbeStep, Checkout, NoConnection, Ping, ReadRevision,
         allVars
<1> QED
  BY <1>1, <1>2, <1>3

\* The types of the migrated database and the place of every oldest result.
THEOREM MigratedData == ProbeSpec => []DataInv
<1>1. ProbeInit => DataInv
  BY DataInit DEF ProbeInit
<1> QED
  BY <1>1, DataStep, PTL DEF ProbeSpec

\* v3_split_results.py: the oldest result of every task survives every walk up and
\* down the revisions, whatever the program has written in between.
THEOREM OldestSurvives == ProbeSpec => []FirstResultKept
<1>1. DataInv => FirstResultKept
  <2> SUFFICES ASSUME DataInv, NEW t \in Ids, RowsOf(written, t) # {}
               PROVE  \/ rev \in {1, 2} /\ blob[t] = Oldest(written, t)
                      \/ rev >= 3 /\ Kept(t) = Oldest(written, t)
    BY DEF FirstResultKept
  <2>1. rev \in {0, 1, 2} \/ rev >= 3
    BY DEF DataInv, TypeOK, Head_
  <2>2. rev # 0
    BY NothingWritten DEF DataInv, OldestInv
  <2> QED
    BY <2>1, <2>2 DEF DataInv, OldestInv, Kept
<1> QED
  BY <1>1, MigratedData, PTL

-----------------------------------------------------------------------------
(* The connections of the probes                                            *)

\* The connections out of the pool are those of the probes between checkout and
\* close, and never more than the pool has.
ConnsInv ==
    /\ up \in BOOLEAN
    /\ probe \in [Probes -> {"idle", "pinging", "pinged", "reading"}]
    /\ conns = {p \in Probes : probe[p] \in {"pinging", "reading"}}
    /\ IsFiniteSet(conns) /\ Cardinality(conns) <= PoolSize

LEMMA ConnsStep == ConnsInv /\ [ProbeNext]_allVars => ConnsInv'
<1> SUFFICES ASSUME ConnsInv, [ProbeNext]_allVars PROVE ConnsInv'
  OBVIOUS
<1> USE DEF ConnsInv
<1>1. CASE UNCHANGED <<conns, probe>> /\ up' \in BOOLEAN
  BY <1>1
<1>2. ASSUME NEW p \in Probes, NEW from \in {"idle", "pinged"}, NEW to \in {"pinging", "reading"},
             Checkout(p, from, to)
      PROVE  ConnsInv'
  <2>1. /\ probe[p] = from /\ Cardinality(conns) < PoolSize
        /\ conns' = conns \cup {p} /\ probe' = [probe EXCEPT ![p] = to] /\ up' = up
    BY <1>2 DEF Checkout
  <2>2. p \notin conns
    BY <2>1
  <2>3. conns' = {q \in Probes : probe'[q] \in {"pinging", "reading"}}
    BY <2>1
  <2>4. IsFiniteSet(conns') /\ Cardinality(conns') = Cardinality(conns) + 1
    BY <2>1, <2>2, FS_AddElement
  <2>5. Cardinality(conns) \in Nat /\ PoolSize \in Nat
    BY FS_CardinalityType, ProbeAssumption DEF ProbeAssumption
  <2>6. probe' \in [Probes -> {"idle", "pinging", "pinged", "reading"}]
    BY <2>1
  <2> QED
    BY <2>1, <2>3, <2>4, <2>5, <2>6
<1>3. ASSUME NEW p \in Probes, NEW to \in {"idle", "pinged"},
             conns' = conns \ {p}, probe' = [probe EXCEPT ![p] = to], up' = up
      PROVE  ConnsInv'
  <2>1. conns' = {q \in Probes : probe'[q] \in {"pinging", "reading"}}
    BY <1>3
  <2>2. conns' \subseteq conns
    BY <1>3
  <2>3. IsFiniteSet(conns') /\ Cardinality(conns') <= Cardinality(conns)
    BY <2>2, FS_Subset
  <2>4. Cardinality(conns) \in Nat /\ Cardinality(conns') \in Nat /\ PoolSize \in Nat
    BY <2>3, FS_CardinalityType, ProbeAssumption DEF ProbeAssumption
  <2>5. probe' \in [Probes -> {"idle", "pinging", "pinged", "reading"}]
    BY <1>3
  <2> QED
    BY <1>3, <2>1, <2>3, <2>4, <2>5
<1>4. ASSUME NEW p \in Probes, ProbeStep(p) PROVE ConnsInv'
  <2>1. CASE Checkout(p, "idle", "pinging") \/ Checkout(p, "pinged", "reading")
    BY <1>2, <2>1
  <2>2. CASE Ping(p)
    BY <1>3, <2>2 DEF Ping, Says
  <2>3. CASE ReadRevision(p)
    BY <1>3, <2>3 DEF ReadRevision, Says
  <2>4. CASE NoConnection(p)
    <3>1. probe[p] \in {"idle", "pinged"} /\ conns' = conns \ {p}
      BY <2>4 DEF NoConnection
    <3> QED
      BY <1>3, <2>4, <3>1 DEF NoConnection, Says
  <2> QED
    BY <1>4, <2>1, <2>2, <2>3, <2>4 DEF ProbeStep
<1>5. CASE Database \/ UNCHANGED allVars
  BY <1>1, <1>5 DEF Database, probeVars, allVars
<1>6. CASE Flip
  <2>1. up' \in BOOLEAN
    BY <1>6, Zenon DEF Flip
  <2> QED
    BY <1>1, <1>6, <2>1 DEF Flip, probeVars
<1> QED
  BY <1>4, <1>5, <1>6 DEF ProbeNext

\* readyz (health.py): a probe holds a connection only between a checkout and the
\* close that follows it, whatever it meets, and the pool is never exceeded.
THEOREM ConnectionsGoBack == ProbeSpec => [](ProbeTypeOK /\ Cardinality(conns) <= PoolSize)
<1>1. ProbeInit => ConnsInv
  <2>1. PoolSize \in Nat
    BY ProbeAssumption DEF ProbeAssumption
  <2> QED
    BY <2>1, FS_EmptySet DEF ProbeInit, ConnsInv
<1>2. ConnsInv /\ DataInv /\ ReadyInv => ProbeTypeOK /\ Cardinality(conns) <= PoolSize
  BY DEF ConnsInv, DataInv, ReadyInv, VerdictInv, ProbeTypeOK
<1> QED
  BY <1>1, <1>2, ConnsStep, MigratedData, Invariants, PTL DEF ProbeSpec
=============================================================================
