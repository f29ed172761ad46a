--------------------------- MODULE TaskCatalogue ---------------------------
(***************************************************************************)
(* What POST /v1/tasks promises, without transactions, claims and          *)
(* savepoints: a call is answered in one step.  It creates its task with   *)
(* all of its tags, or says that the name is taken when it is, or fails,   *)
(* and then it has changed nothing.                                        *)
(***************************************************************************)
CONSTANTS Creators, Names, Labels

VARIABLES
    tags,      \* the labels that exist
    tasks,     \* the tasks that exist
    asks,      \* the name and the labels each call asks for
    answer     \* what each call was told

vars == <<tags, tasks, asks, answer>>

Asked == [name : Names, labels : SUBSET Labels]

TypeOK ==
    /\ tags \subseteq Labels
    /\ tasks \subseteq [by : Creators, name : Names, labels : SUBSET Labels]
    /\ asks \in [Creators -> Asked]
    /\ answer \in [Creators -> {"none", "created", "duplicate", "failed"}]

Init ==
    /\ tags = {}
    /\ tasks = {}
    /\ asks \in [Creators -> Asked]
    /\ answer = [c \in Creators |-> "none"]

Tell(c, a) ==
    /\ answer[c] = "none"
    /\ answer' = [answer EXCEPT ![c] = a]
    /\ UNCHANGED asks

Taken(n) == \E t \in tasks : t.name = n

Create(c) ==
    /\ ~Taken(asks[c].name)
    /\ tasks' = tasks \cup {[by |-> c, name |-> asks[c].name, labels |-> asks[c].labels]}
    /\ tags' = tags \cup asks[c].labels
    /\ Tell(c, "created")

Refuse(c) ==
    /\ Taken(asks[c].name)
    /\ Tell(c, "duplicate")
    /\ UNCHANGED <<tags, tasks>>

Fail(c) == Tell(c, "failed") /\ UNCHANGED <<tags, tasks>>

Next == \E c \in Creators : Create(c) \/ Refuse(c) \/ Fail(c)

Spec == Init /\ [][Next]_vars
=============================================================================
