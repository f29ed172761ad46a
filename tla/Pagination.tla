----------------------------- MODULE Pagination -----------------------------
(***************************************************************************)
(* The cursor pagination of GET /v1/tasks: list_tasks of                   *)
(* repository/task_repo.py, called page after page by one client while     *)
(* tasks are created, deleted and change their status.  Identifiers are    *)
(* random and ordered, and created_at is stamped before the commit, so     *)
(* that a task may appear behind tasks that are newer.                     *)
(***************************************************************************)
EXTENDS Integers, Sequences, FiniteSets

CONSTANTS
    Ids,        \* identifiers, a set of numbers
    MaxTime,    \* bound: the latest created_at
    Limits,     \* the limits the client chooses from, page by page, in 1..200
    Filtered    \* whether the client asks for one status only

ASSUME PageAssumption == Ids \subseteq Nat /\ MaxTime \in Nat /\ Limits \subseteq Nat \ {0}
ASSUME FilterAssumption == Filtered \in BOOLEAN

VARIABLES
    tasks,     \* the committed tasks, at most one for an id
    cursor,    \* the cursor the client sends next, or NoCursor
    walk,      \* "new", "on" or "over": the client stops at a null next_cursor
    returned,  \* history: the tasks of all pages, in order
    stable     \* history: ids that were in the list whenever a page was fetched

vars == <<tasks, cursor, walk, returned, stable>>

\* matches: whether the status is the one the client asks for
Task == [id : Ids, at : 0 .. MaxTime, matches : BOOLEAN]
NoCursor == [id |-> -1, at |-> -1]
Key(t) == [id |-> t.id, at |-> t.at]

\* The types; an id is never there twice.
TypeOK ==
    /\ tasks \subseteq Task
    /\ \A s, t \in tasks : s.id = t.id => s = t
    /\ cursor \in [id : Ids, at : 0 .. MaxTime] \cup {NoCursor}
    /\ walk \in {"new", "on", "over"}
    /\ returned \in Seq(Task)
    /\ stable \subseteq Ids

Init ==
    /\ tasks = {}
    /\ cursor = NoCursor
    /\ walk = "new"
    /\ returned = <<>>
    /\ stable = {}

-----------------------------------------------------------------------------
(* One page                                                                 *)

\* a comes after b in the order created_at DESC, id DESC.
Older(a, b) == a.at < b.at \/ (a.at = b.at /\ a.id < b.id)

\* mutant: the condition compares the time only
RowsTimeOnly(c) ==
    {t \in tasks : (Filtered => t.matches) /\ (c # NoCursor => t.at < c.at)}

\* The rows of the statement, before its limit.
Rows(c) ==
    {t \in tasks : (Filtered => t.matches) /\ (c # NoCursor => Older(t, c))}

\* mutant: the rows come as the primary key has them
InOrderById(S) ==
    CHOOSE rows \in [1 .. Cardinality(S) -> S] :
        \A i, j \in DOMAIN rows : i < j => rows[i].id > rows[j].id

\* The order of the list, newest first.
InOrder(S) ==
    CHOOSE rows \in [1 .. Cardinality(S) -> S] :
        \A i, j \in DOMAIN rows : i < j => Older(rows[j], rows[i])

\* mutant: without the extra row of limit + 1, a full page always has a cursor
PageEager(c, limit) ==
    LET rows == InOrder(Rows(c))
    IN  IF Len(rows) >= limit
        THEN [items |-> SubSeq(rows, 1, limit), next |-> Key(rows[limit])]
        ELSE [items |-> rows, next |-> NoCursor]

\* limit + 1 rows are fetched; if the last is there, the page has a next_cursor.
Page(c, limit) ==
    LET rows == InOrder(Rows(c))
    IN  IF Len(rows) > limit
        THEN [items |-> SubSeq(rows, 1, limit), next |-> Key(rows[limit])]
        ELSE [items |-> rows, next |-> NoCursor]

-----------------------------------------------------------------------------
(* The client, and what others do meanwhile                                 *)

Listed(S) == {t.id : t \in {u \in S : Filtered => u.matches}}

\* A walk stays complete for an id only as long as it is in the list.
Change(S) ==
    /\ tasks' = S
    /\ stable' = stable \cap Listed(S)
    /\ UNCHANGED <<cursor, walk, returned>>

Create(id, at) ==
    /\ id \notin {t.id : t \in tasks}
    /\ \A i \in DOMAIN returned : returned[i].id # id
    /\ Change(tasks \cup {[id |-> id, at |-> at, matches |-> TRUE]})

Delete(t) == t \in tasks /\ Change(tasks \ {t})

ChangeStatus(t) ==
    /\ t \in tasks
    /\ Filtered
    /\ Change((tasks \ {t}) \cup {[t EXCEPT !.matches = ~@]})

Fetch(limit) ==
    /\ walk # "over"
    /\ LET page == Page(cursor, limit)
       IN  /\ returned' = returned \o page.items
           /\ cursor' = page.next
           /\ walk' = IF page.next = NoCursor THEN "over" ELSE "on"
    /\ stable' = IF walk = "new" THEN Listed(tasks) ELSE stable
    /\ UNCHANGED tasks

Next ==
    \/ \E id \in Ids, at \in 0 .. MaxTime : Create(id, at)
    \/ \E t \in tasks : Delete(t) \/ ChangeStatus(t)
    \/ \E limit \in Limits : Fetch(limit)

Spec == Init /\ [][Next]_vars

-----------------------------------------------------------------------------
(* Properties                                                               *)

\* When the client sees a null next_cursor, it has seen every task that was in
\* the list from the first page to the last, ties of created_at included.
WalkComplete ==
    walk = "over" => \A id \in stable : \E i \in DOMAIN returned : returned[i].id = id

\* The concatenated pages are in the strict order of the list, newest first, so
\* that no task comes twice, whatever is created and deleted between pages.
NewestFirst ==
    \A i, j \in DOMAIN returned : i < j => Older(returned[j], returned[i])

\* A next_cursor promises another row: it is given only if the list goes on.
CursorPromisesMore ==
    [][walk # "over" /\ cursor' # cursor /\ cursor' # NoCursor =>
         \E t \in tasks : Older(t, cursor') /\ (Filtered => t.matches)]_vars
=============================================================================
