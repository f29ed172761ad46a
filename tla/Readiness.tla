----------------------------- MODULE Readiness -----------------------------
(***************************************************************************)
(* GET /readyz of api/health.py over a database that Alembic migrates, that *)
(* the program writes to, and that goes away and comes back.  A probe pings *)
(* the database in a session, then reads the head of the scripts and, over *)
(* a second connection, the revision of the database, and compares them.   *)
(***************************************************************************)
EXTENDS Migrations

CONSTANTS
    Probes,        \* the threads that serve /readyz, one request after another
    PoolSize,      \* connections of the engine's pool, its overflow included
    ScriptsFound   \* the scripts are where alembic.ini says, seen from the process

ASSUME ProbeAssumption == PoolSize \in Nat \ {0} /\ ScriptsFound \in BOOLEAN

VARIABLES
    up,       \* whether the database can be reached
    conns,    \* the probes that hold a connection
    probe,    \* where each of them is
    verdict,  \* its last answer: none, 200 "ready" or 503 "notReady"
    sound     \* history: when it read the revision, all of the schema was there

probeVars == <<conns, probe, verdict, sound>>
allVars == <<vars, up, probeVars>>

ProbeTypeOK ==
    /\ TypeOK
    /\ up \in BOOLEAN
    /\ conns = {p \in Probes : probe[p] \in {"pinging", "reading"}}
    /\ probe \in [Probes -> {"idle", "pinging", "pinged", "reading"}]
    /\ verdict \in [Probes -> {"none", "ready", "notReady"}]
    /\ sound \in [Probes -> BOOLEAN]

ProbeInit ==
    /\ Init
    /\ up \in BOOLEAN
    /\ conns = {}
    /\ probe = [p \in Probes |-> "idle"]
    /\ verdict = [p \in Probes |-> "none"]
    /\ sound = [p \in Probes |-> FALSE]

-----------------------------------------------------------------------------
Says(p, v) ==
    /\ verdict' = [verdict EXCEPT ![p] = v]
    /\ probe' = [probe EXCEPT ![p] = "idle"]

\* A connection of the pool; it is checked when it is taken (pool_pre_ping).
Checkout(p, from, to) ==
    /\ probe[p] = from
    /\ up
    /\ Cardinality(conns) < PoolSize
    /\ conns' = conns \cup {p}
    /\ probe' = [probe EXCEPT ![p] = to]
    /\ UNCHANGED <<vars, up, verdict, sound>>

\* The database does not answer, or the pool has waited its timeout: whether it
\* is the ping or the read of the revision, the answer is 503.
NoConnection(p) ==
    /\ probe[p] \in {"idle", "pinged"}
    /\ ~up \/ Cardinality(conns) >= PoolSize
    /\ Says(p, "notReady")
    /\ UNCHANGED <<vars, up, conns, sound>>

\* mutant: the session of a ping is not closed
PingLeak(p) ==
    /\ probe[p] = "pinging"
    /\ IF up
       THEN probe' = [probe EXCEPT ![p] = "pinged"] /\ UNCHANGED verdict
       ELSE Says(p, "notReady")
    /\ UNCHANGED <<vars, up, conns, sound>>

\* SELECT 1 in transaction(), which closes its session in every case.
Ping(p) ==
    /\ probe[p] = "pinging"
    /\ conns' = conns \ {p}
    /\ IF up
       THEN probe' = [probe EXCEPT ![p] = "pinged"] /\ UNCHANGED verdict
       ELSE Says(p, "notReady")
    /\ UNCHANGED <<vars, up, sound>>

Unknown == -1

\* _read_alembic_head()
HeadRevision == IF ScriptsFound THEN Head_ ELSE Unknown

\* _read_alembic_current(): an error, or no row in alembic_version, is None.
CurrentRevision == IF up /\ rev > 0 THEN rev ELSE Unknown

\* mutant: what cannot be read is taken for migrated
ComparedOpen(head, current) ==
    IF head # Unknown /\ current # Unknown /\ current # head THEN "notReady" ELSE "ready"

\* The comparison fails closed.
Compared(head, current) ==
    IF head = Unknown \/ current = Unknown \/ current # head THEN "notReady" ELSE "ready"

SchemaWhole == up /\ rev = Head_ /\ tagTables /\ SchemaLabels \cup {"unknown"} \subseteq labels

ReadRevision(p) ==
    /\ probe[p] = "reading"
    /\ conns' = conns \ {p}
    /\ Says(p, Compared(HeadRevision, CurrentRevision))
    /\ sound' = [sound EXCEPT ![p] = SchemaWhole]
    /\ UNCHANGED <<vars, up>>

-----------------------------------------------------------------------------
\* The database stops and restarts; committed data stay.
Flip == up' = ~up /\ UNCHANGED <<vars, probeVars>>

Database == up /\ Next /\ UNCHANGED <<up, probeVars>>

ProbeStep(p) ==
    \/ Checkout(p, "idle", "pinging") \/ Ping(p)
    \/ Checkout(p, "pinged", "reading") \/ ReadRevision(p)
    \/ NoConnection(p)

ProbeNext == Database \/ Flip \/ \E p \in Probes : ProbeStep(p)

\* The orchestrator goes on polling, and every probe ends: statements return or
\* fail, and the pool's timeout fires.
ProbeSpec == ProbeInit /\ [][ProbeNext]_allVars /\ \A p \in Probes : WF_allVars(ProbeStep(p))

-----------------------------------------------------------------------------
(* Properties                                                               *)

\* "200 only when DB is reachable AND migration is at head" (readyz): at the
\* moment the revision was read all of the schema was there, no revision had gone
\* half-way, and nothing that could not be read was taken for good.
ReadyMeansMigrated == \A p \in Probes : verdict[p] = "ready" => sound[p]

\* The answer follows the database in both directions: when it stays reachable and
\* at head the probes end up ready, and when it stays down or behind they end up
\* not ready; no probe takes away what the next one needs.
VerdictFollows ==
    \A p \in Probes :
        /\ <>[](up /\ rev = Head_ /\ ScriptsFound) => <>[](verdict[p] = "ready")
        /\ <>[](~up \/ rev # Head_) => <>[](verdict[p] = "notReady")

\* "This removes the CWD dependency" (health.py): a service whose database is
\* reachable and at head is ready, from whatever directory it was started.
ReadyFromAnywhere ==
    \A p \in Probes : <>[](up /\ rev = Head_) => <>[](verdict[p] = "ready")
=============================================================================
