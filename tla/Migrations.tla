----------------------------- MODULE Migrations -----------------------------
(***************************************************************************)
(* The Alembic revisions of migrations/versions over a database that is in *)
(* use: upgrades and downgrades by one revision, in any order, between the *)
(* writes of the program that belongs to the schema.  What v3 moves, the   *)
(* results of runs, is kept by value; the other columns are left out.      *)
(***************************************************************************)
EXTENDS Integers, Sequences, FiniteSets, SequencesExt

CONSTANTS
    Ids,            \* task ids
    Names,          \* task names
    Payloads,       \* exit code, tails and duration of a run
    MaxRows,        \* bound: results written by the program
    MaxRuns,        \* bound: run ids given out
    Transactional,  \* DDL rolls back, as on PostgreSQL; not so on SQLite
    NoTask, NoBlob

ASSUME IdsAssumption == IsFiniteSet(Ids)
ASSUME RowsAssumption == MaxRows \in Nat /\ MaxRuns \in Nat
ASSUME DialectAssumption == Transactional \in BOOLEAN
ASSUME AbsentAssumption == NoTask \notin Names /\ NoBlob \notin Payloads

Head_ == 4

VARIABLES
    rev,        \* alembic_version: 0 is base
    name,       \* tasks: the name of each task, or NoTask
    blob,       \* tasks.result_json, at v1 and v2
    results,    \* the rows of task_results by id, from v3
    tagTables,  \* whether tags and task_tags exist
    labels,     \* the values of the enum task_status
    written,    \* history: the results the program stored, in order
    stamps      \* history: the run ids used so far

vars == <<rev, name, blob, results, tagTables, labels, written, stamps>>

\* A run id stands for itself and for started_at and finished_at.
Row == [task : Ids, payload : Payloads, run : Nat]

SchemaLabels == {"pending", "running", "done", "failed", "timeout", "interrupted"}

\* SQLAlchemy stores the names of the members of TaskStatus, not their values.
OrmLabels == {"PENDING", "RUNNING", "DONE", "FAILED", "TIMEOUT", "INTERRUPTED", "UNKNOWN"}

\* The types; what belongs to another revision is empty.
TypeOK ==
    /\ rev \in 0 .. Head_
    /\ name \in [Ids -> Names \cup {NoTask}]
    /\ blob \in [Ids -> Payloads \cup {NoBlob}]
    /\ results \in Seq(Row)
    /\ tagTables \in BOOLEAN
    /\ labels \subseteq SchemaLabels \cup {"unknown"}
    /\ written \in Seq(Row)
    /\ stamps \in Nat
    /\ rev < 3 => results = <<>>
    /\ \A t \in Ids : (rev \notin {1, 2} \/ name[t] = NoTask) => blob[t] = NoBlob

Init ==
    /\ rev = 0
    /\ name = [t \in Ids |-> NoTask]
    /\ blob = [t \in Ids |-> NoBlob]
    /\ results = <<>>
    /\ tagTables = FALSE
    /\ labels = {}
    /\ written = <<>>
    /\ stamps = 0

-----------------------------------------------------------------------------
(* The program                                                              *)

\* The unique name comes with v2.
CreateTask(t, n) ==
    /\ rev > 0
    /\ name[t] = NoTask
    /\ rev >= 2 => \A u \in Ids : name[u] # n
    /\ name' = [name EXCEPT ![t] = n]
    /\ UNCHANGED <<rev, blob, results, tagTables, labels, written, stamps>>

\* At v1 and v2 a task has one result, in its result_json.
StoreBlob(t, p) ==
    /\ rev \in {1, 2}
    /\ name[t] # NoTask
    /\ blob[t] = NoBlob
    /\ Len(written) < MaxRows
    /\ blob' = [blob EXCEPT ![t] = p]
    /\ written' = Append(written, [task |-> t, payload |-> p, run |-> 0])
    /\ UNCHANGED <<rev, name, results, tagTables, labels, stamps>>

\* From v3 each run has its row.
StoreRow(t, p) ==
    LET row == [task |-> t, payload |-> p, run |-> stamps + 1]
    IN  /\ rev >= 3
        /\ name[t] # NoTask
        /\ Len(written) < MaxRows /\ stamps < MaxRuns
        /\ results' = Append(results, row)
        /\ written' = Append(written, row)
        /\ stamps' = stamps + 1
        /\ UNCHANGED <<rev, name, blob, tagTables, labels>>

-----------------------------------------------------------------------------
(* upgrade() and downgrade() of each revision                               *)

UpgradeV1 ==
    /\ rev = 0
    /\ rev' = 1
    /\ labels' = SchemaLabels
    /\ UNCHANGED <<name, blob, results, tagTables, written, stamps>>

\* v1 drops its tables with all they hold, and the enum types.
DowngradeV1 ==
    /\ rev = 1
    /\ rev' = 0
    /\ name' = [t \in Ids |-> NoTask]
    /\ blob' = [t \in Ids |-> NoBlob]
    /\ labels' = {}
    /\ written' = <<>>
    /\ UNCHANGED <<results, tagTables, stamps>>

NamesUnique == \A t, u \in Ids : t # u /\ name[t] # NoTask => name[t] # name[u]

UpgradeV2 ==
    /\ rev = 1
    /\ ~tagTables
    /\ NamesUnique
    /\ rev' = 2
    /\ tagTables' = TRUE
    /\ UNCHANGED <<name, blob, results, labels, written, stamps>>

\* Two tasks have one name: the constraint fails, after the tables are made.  What is
\* left of the upgrade is for the database to say, and the constant says it here.
UpgradeV2Fails ==
    /\ rev = 1
    /\ ~tagTables
    /\ ~NamesUnique
    /\ tagTables' = ~Transactional
    /\ UNCHANGED <<rev, name, blob, results, labels, written, stamps>>

DowngradeV2 ==
    /\ rev = 2
    /\ rev' = 1
    /\ tagTables' = FALSE
    /\ UNCHANGED <<name, blob, results, labels, written, stamps>>

\* Each result_json becomes a row, with a new run id and new times.
UpgradeV3 ==
    LET owners == SetToSeq({t \in Ids : blob[t] # NoBlob})
    IN  /\ rev = 2
        /\ stamps + Len(owners) <= MaxRuns
        /\ rev' = 3
        /\ results' = [i \in DOMAIN owners |->
                         [task |-> owners[i], payload |-> blob[owners[i]], run |-> stamps + i]]
        /\ stamps' = stamps + Len(owners)
        /\ blob' = [t \in Ids |-> NoBlob]
        /\ UNCHANGED <<name, tagTables, labels, written>>

\* The rows of a task, by their ids.
RowsOf(rows, t) == {i \in DOMAIN rows : rows[i].task = t}

\* mutant: the newest row wins
KeptNewest(t) ==
    IF RowsOf(results, t) = {} THEN NoBlob ELSE results[Max(RowsOf(results, t))].payload

\* What the oldest row of a task holds, which goes back to its result_json.
Oldest(rows, t) ==
    IF RowsOf(rows, t) = {} THEN NoBlob ELSE rows[Min(RowsOf(rows, t))].payload

Kept(t) == Oldest(results, t)

DowngradeV3 ==
    /\ rev = 3
    /\ rev' = 2
    /\ blob' = [t \in Ids |-> Kept(t)]
    /\ results' = <<>>
    /\ UNCHANGED <<name, tagTables, labels, written, stamps>>

UpgradeV4 ==
    /\ rev = 3
    /\ rev' = 4
    /\ labels' = labels \cup {"unknown"}
    /\ UNCHANGED <<name, blob, results, tagTables, written, stamps>>

\* v4 leaves the value in the enum.
DowngradeV4 ==
    /\ rev = 4
    /\ rev' = 3
    /\ UNCHANGED <<name, blob, results, tagTables, labels, written, stamps>>

Program ==
    \E t \in Ids :
        \/ \E n \in Names : CreateTask(t, n)
        \/ \E p \in Payloads : StoreBlob(t, p) \/ StoreRow(t, p)

Alembic ==
    \/ UpgradeV1 \/ UpgradeV2 \/ UpgradeV2Fails \/ UpgradeV3 \/ UpgradeV4
    \/ DowngradeV1 \/ DowngradeV2 \/ DowngradeV3 \/ DowngradeV4

Next == Program \/ Alembic

Spec == Init /\ [][Next]_vars

-----------------------------------------------------------------------------
(* Properties                                                               *)

\* The oldest result of a task survives any walk through the revisions, with
\* its exit code, tails and duration, whatever was written in between
\* (downgrade of v3: "keep the first (oldest) result per task").
FirstResultKept ==
    \A t \in Ids : RowsOf(written, t) # {} =>
        \/ rev \in {1, 2} /\ blob[t] = Oldest(written, t)
        \/ rev >= 3 /\ Kept(t) = Oldest(written, t)

\* "Both must succeed" (SPEC FR-07), read of an upgrade that is tried again once the
\* names are repaired: a failed one leaves the database as the revision says.  Only a
\* database that does not roll back DDL can break it.
UpgradeRetriable == rev = 1 => ~tagTables

\* "The data must not be lost" (SPEC FR-07, v3): every result that was stored
\* has its row.
NothingLost == rev >= 3 => Len(results) >= Len(written)

\* "The values of the sample data must be the same, column by column" after a
\* downgrade and an upgrade (SPEC FR-07; v3: "preserving every column").
ColumnsKept ==
    rev >= 3 => \A i \in DOMAIN written : written[i].run # 0 =>
        \E j \in DOMAIN results : results[j] = written[i]

\* "The new UNKNOWN value lets the service distinguish" (v4): at head the enum
\* of PostgreSQL takes the statuses that the program writes.
HeadTakesStatuses == rev = Head_ => OrmLabels \subseteq labels
=============================================================================
