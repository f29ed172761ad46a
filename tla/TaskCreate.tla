----------------------------- MODULE TaskCreate -----------------------------
(***************************************************************************)
(* Concurrent transactions of POST /v1/tasks: create_task and _upsert_tags *)
(* of repository/task_repo.py.  A label or a name that a transaction has   *)
(* inserted is claimed in its unique index until that transaction ends;    *)
(* who wants to insert it too waits, and then meets it or inserts it.      *)
(***************************************************************************)
EXTENDS Integers, FiniteSets, FiniteSetsExt, Functions

CONSTANTS
    Creators,   \* calls of POST /v1/tasks
    Names,      \* the names they ask for
    Labels,     \* the tags they ask for
    Nobody

ASSUME NobodyAssumption == Nobody \notin Creators
ASSUME KeysAssumption == Names \cap Labels = {}

VARIABLES
    tags,       \* the committed labels
    tasks,      \* the committed tasks
    claim,      \* who has inserted a label or a name and has not ended
    pc,         \* where each call is
    asks,       \* what each call asks for: a name and cleaned labels, in order
    found       \* the labels each call has found in the table

vars == <<tags, tasks, claim, pc, asks, found>>

Keys == Names \cup Labels

\* The cleaned labels of a payload: no label twice.
LabelLists == {s \in UNION {[1 .. n -> Labels] : n \in 0 .. Cardinality(Labels)} : IsInjective(s)}

Wanted(c) == Range(asks[c].labels)

Ends == {"created", "duplicate", "failed"}

\* The types; a finished call has no claim.
TypeOK ==
    /\ tags \subseteq Labels
    /\ tasks \subseteq [by : Creators, name : Names, labels : SUBSET Labels]
    /\ claim \in [Keys -> Creators \cup {Nobody}]
    /\ pc \in [Creators -> {"new", "flush", "commit"} \cup Ends]
    /\ asks \in [Creators -> [name : Names, labels : LabelLists]]
    /\ found \in [Creators -> SUBSET Labels]
    /\ \A k \in Keys : claim[k] # Nobody => pc[claim[k]] \notin Ends

Init ==
    /\ tags = {}
    /\ tasks = {}
    /\ claim = [k \in Keys |-> Nobody]
    /\ pc = [c \in Creators |-> "new"]
    /\ asks \in [Creators -> [name : Names, labels : LabelLists]]
    /\ found = [c \in Creators |-> {}]

Go(c, to) == pc' = [pc EXCEPT ![c] = to]
Unclaim(c) == claim' = [k \in Keys |-> IF claim[k] = c THEN Nobody ELSE claim[k]]

\* mutant: the tags are committed although the task is refused
RollbackKeepsTags(c) ==
    /\ tags' = tags \cup {k \in Labels : claim[k] = c}
    /\ Unclaim(c)
    /\ UNCHANGED <<tasks, asks, found>>

\* mutant: the session of a failed call is neither rolled back nor closed
RollbackLeaks(c) == UNCHANGED <<claim, tags, tasks, asks, found>>

\* Any exception rolls back the whole transaction.
Rollback(c) ==
    /\ Unclaim(c)
    /\ UNCHANGED <<tags, tasks, asks, found>>

\* _upsert_tags() reads the labels that exist.
ReadTags(c) ==
    /\ pc[c] = "new"
    /\ found' = [found EXCEPT ![c] = Wanted(c) \cap tags]
    /\ Go(c, "flush")
    /\ UNCHANGED <<tags, tasks, claim, asks>>

\* The places of the labels that are not there and have not been inserted yet;
\* the flush inserts them in the order of the payload, and then the task.
Missing(c) ==
    {i \in DOMAIN asks[c].labels :
        asks[c].labels[i] \notin found[c] /\ claim[asks[c].labels[i]] # c}

NextLabel(c) == asks[c].labels[Min(Missing(c))]

Flushing(c) == pc[c] = "flush" /\ Missing(c) = {}

InsertTag(c) ==
    /\ pc[c] = "flush" /\ Missing(c) # {}
    /\ claim[NextLabel(c)] = Nobody
    /\ NextLabel(c) \notin tags
    /\ claim' = [claim EXCEPT ![NextLabel(c)] = c]
    /\ UNCHANGED <<tags, tasks, pc, asks, found>>

\* A label has been committed since it was read: IntegrityError, not caught.
TagExists(c) ==
    /\ pc[c] = "flush" /\ Missing(c) # {}
    /\ NextLabel(c) \in tags
    /\ Go(c, "failed")
    /\ Rollback(c)

NameTaken(n) == \E t \in tasks : t.name = n

\* mutant: the name is looked up without waiting for the one who inserts it
InsertTaskNoWait(c) ==
    /\ Flushing(c)
    /\ ~NameTaken(asks[c].name)
    /\ claim' = [claim EXCEPT ![asks[c].name] = c]
    /\ Go(c, "commit")
    /\ UNCHANGED <<tags, tasks, asks, found>>

InsertTask(c) ==
    LET n == asks[c].name
    IN  /\ Flushing(c)
        /\ claim[n] = Nobody
        /\ ~NameTaken(n)
        /\ claim' = [claim EXCEPT ![n] = c]
        /\ Go(c, "commit")
        /\ UNCHANGED <<tags, tasks, asks, found>>

\* The flush of the task fails on uq_tasks_name: DuplicateTaskNameError, and
\* transaction() rolls everything back, whatever the savepoint has kept.
NameExists(c) ==
    /\ Flushing(c)
    /\ NameTaken(asks[c].name)
    /\ Go(c, "duplicate")
    /\ Rollback(c)

Commit(c) ==
    /\ pc[c] = "commit"
    /\ tags' = tags \cup {k \in Labels : claim[k] = c}
    /\ tasks' = tasks \cup {[by |-> c, name |-> asks[c].name, labels |-> Wanted(c)]}
    /\ Unclaim(c)
    /\ Go(c, "created")
    /\ UNCHANGED <<asks, found>>

\* Whom c waits for, and whether it waits in a circle.
WaitsFor(c) ==
    IF pc[c] # "flush" THEN Nobody
    ELSE IF Missing(c) = {} THEN claim[asks[c].name] ELSE claim[NextLabel(c)]

Deadlocked(c) ==
    \E S \in SUBSET Creators : c \in S /\ {WaitsFor(d) : d \in S} = S

\* The database breaks the circle by aborting one of its transactions.
DeadlockVictim(c) ==
    /\ Deadlocked(c)
    /\ Go(c, "failed")
    /\ Rollback(c)

CreateStep(c) ==
    \/ ReadTags(c) \/ InsertTag(c) \/ TagExists(c)
    \/ InsertTask(c) \/ NameExists(c) \/ Commit(c)
    \/ DeadlockVictim(c)

Next == \E c \in Creators : CreateStep(c)

Spec == Init /\ [][Next]_vars

FairSpec == Spec /\ \A c \in Creators : WF_vars(CreateStep(c))

-----------------------------------------------------------------------------
(* Properties                                                               *)

\* A create is all or nothing: the committed tags are those of the committed
\* tasks, so a call that was refused or failed leaves no tag behind and a task
\* has every tag it asked for ("on any exception the transaction rolls back",
\* transaction()).
AllOrNothing == tags = UNION {t.labels : t \in tasks}

\* No two committed tasks have one name, although each call looks at its own
\* transaction only.
OneTaskPerName == \A s, t \in tasks : s.name = t.name => s = t

\* Every call ends, although two calls insert the same labels in the orders
\* their clients chose.
EveryCallEnds == <>(\A c \in Creators : pc[c] \in Ends)

\* "Idempotently resolve labels" (_upsert_tags): no call fails because another
\* one creates the same tag.
NoSpuriousFailure == \A c \in Creators : pc[c] # "failed"

-----------------------------------------------------------------------------
(* TaskCreate implements the catalogue of TaskCatalogue.                     *)

answerOf == [c \in Creators |-> IF pc[c] \in Ends THEN pc[c] ELSE "none"]

Catalogue == INSTANCE TaskCatalogue WITH
    asks <- [c \in Creators |-> [name |-> asks[c].name, labels |-> Wanted(c)]],
    answer <- answerOf

\* Concurrent creates are as good as one after the other: a call that says created
\* has added its task with the tags it asked for, one that says duplicate met a
\* committed task of that name, and one that fails has left no trace.
ImplementsCatalogue == Catalogue!Spec
=============================================================================
