----------------------------- MODULE RunHistory -----------------------------
(* history.Store: the run_records of one tenant, written by the backup runs *)
(* of that tenant and trimmed by each of them.  Every run has a store of    *)
(* its own, so the store's mutex excludes nothing: two runs that end        *)
(* together insert, list and delete in any order.                           *)
(*                                                                          *)
(* A record stands for its run: a run's id is fresh and it appends once, so *)
(* Append always creates.  No two runs start at the same nanosecond.        *)
EXTENDS Naturals, FiniteSets

CONSTANTS
    Runs,       \* backup runs of the tenant
    Limit,      \* history_limit
    Days,       \* history_retention_days
    MaxClock,   \* bound: days that pass
    MaxUsers    \* bound: users that have the tenant's name in turn

ASSUME HistoryAssumption ==
    /\ IsFiniteSet(Runs)
    /\ Limit \in Nat \ {0}
    /\ Days \in Nat \ {0}
    /\ MaxClock \in Nat
    /\ MaxUsers \in Nat

VARIABLES
    clock,     \* the time
    user,      \* number of the user who has the name (for MaxUsers)
    rows,      \* runs with a row in the table
    start,     \* StartedAt of each run
    pc,        \* where each run's Append is
    scanned,   \* the rows that pruneLocked has read
    victims,   \* those of them that it has yet to delete
    recorded   \* history: runs that had a row since the user got the name

vars == <<clock, user, rows, start, pc, scanned, victims, recorded>>

\* off: not started; running: no row yet; kept: pruned to the end; lost: stopped
\* by an error or by the end of the process.
Pcs == {"off", "running", "scan", "delete", "age", "kept", "lost"}

Pruning == <<scanned, victims>>

Init ==
    /\ clock = 1 /\ user = 1
    /\ rows = {} /\ recorded = {}
    /\ start = [r \in Runs |-> 0]
    /\ pc = [r \in Runs |-> "off"]
    /\ scanned = [r \in Runs |-> {}]
    /\ victims = [r \in Runs |-> {}]

At(r, p)   == pc[r] = p
Goes(r, p) == pc' = [pc EXCEPT ![r] = p]
Ends(r, p) ==
    /\ Goes(r, p)
    /\ scanned' = [scanned EXCEPT ![r] = {}]
    /\ victims' = [victims EXCEPT ![r] = {}]

----------------------------------------------------------------------------
(* A run and its Append.                                                    *)

\* A run starts: its store is made for the tenant, by the name.
Begin(r) ==
    /\ At(r, "off")
    /\ clock < MaxClock
    /\ start' = [start EXCEPT ![r] = clock]
    /\ clock' = clock + 1
    /\ Goes(r, "running")
    /\ UNCHANGED <<user, rows, recorded, Pruning>>

\* Mutant: the record is found by its start.
InsertByTime(r) == rows' = rows \cup {start[r]}

\* The row that Append creates.
Insert(r) == rows' = rows \cup {r}

\* The run is over: Append writes its row.
Write(r) ==
    /\ At(r, "running")
    /\ Insert(r)
    /\ recorded' = recorded \cup {r}
    /\ Goes(r, "scan")
    /\ UNCHANGED <<clock, user, start, Pruning>>

\* Mutant: the rows are sorted the wrong way round.
OldestOf(S) == {K \in SUBSET S :
    Cardinality(K) = Limit /\ \A k \in K, q \in S \ K : start[k] < start[q]}

\* rows[:limit] of rows sorted by StartedAt, newest first.
NewestOf(S) == {K \in SUBSET S :
    Cardinality(K) = Limit /\ \A k \in K, q \in S \ K : start[k] > start[q]}

\* pruneLocked reads the rows and goes through those beyond the limit.
Scan(r) ==
    /\ At(r, "scan")
    /\ scanned' = [scanned EXCEPT ![r] = rows]
    /\ IF Cardinality(rows) <= Limit
       THEN Goes(r, "age") /\ UNCHANGED victims
       ELSE \E K \in NewestOf(rows) :
                victims' = [victims EXCEPT ![r] = rows \ K] /\ Goes(r, "delete")
    /\ UNCHANGED <<clock, user, rows, recorded, start>>

\* Mutant: the first row beyond the limit is the only one that is deleted.
DeleteFirstOnly(r, v) ==
    /\ rows' = rows \ {v}
    /\ victims' = [victims EXCEPT ![r] = {}]
    /\ Goes(r, "age")
    /\ UNCHANGED scanned

\* Mutant: a row that is gone is taken for the end of the list.
DeleteOneOrEnd(r, v) ==
    IF v \in rows
    THEN /\ rows' = rows \ {v}
         /\ victims' = [victims EXCEPT ![r] = @ \ {v}]
         /\ IF victims[r] = {v} THEN Goes(r, "age") ELSE UNCHANGED pc
         /\ UNCHANGED scanned
    ELSE Ends(r, "kept") /\ UNCHANGED rows

\* DeleteOne: a row that is gone is an error, and the prune ends there.
DeleteOne(r, v) ==
    IF v \in rows
    THEN /\ rows' = rows \ {v}
         /\ victims' = [victims EXCEPT ![r] = @ \ {v}]
         /\ IF victims[r] = {v} THEN Goes(r, "age") ELSE UNCHANGED pc
         /\ UNCHANGED scanned
    ELSE Ends(r, "lost") /\ UNCHANGED rows

\* The rows beyond the limit, newest first.
Delete(r) ==
    /\ At(r, "delete")
    /\ \E v \in victims[r] :
        /\ \A q \in victims[r] \ {v} : start[v] > start[q]
        /\ DeleteOne(r, v)
    /\ UNCHANGED <<clock, user, recorded, start>>

Expired(r) == start[r] + Days < clock

\* pruneByAgeLocked: one statement deletes what is too old.
Age(r) ==
    /\ At(r, "age")
    /\ rows' = {q \in rows : ~Expired(q)}
    /\ Ends(r, "kept")
    /\ UNCHANGED <<clock, user, recorded, start>>

\* A statement fails.  No caller does anything about it.
Fail(r) ==
    /\ pc[r] \in {"running", "scan", "delete", "age"}
    /\ Ends(r, "lost")
    /\ UNCHANGED <<clock, user, rows, recorded, start>>

----------------------------------------------------------------------------
(* Around it.                                                               *)

\* DeleteUser deletes the records of the name, UpdateUser moves them to another;
\* a new user may get the name.  Runs in progress go on.
Forget ==
    /\ user < MaxUsers
    /\ user' = user + 1
    /\ rows' = {} /\ recorded' = {}
    /\ UNCHANGED <<clock, pc, start, Pruning>>

Tick ==
    /\ clock < MaxClock
    /\ clock' = clock + 1
    /\ UNCHANGED <<user, rows, recorded, pc, start, Pruning>>

\* The process ends: a run that has not written its row leaves none.
Crash ==
    /\ \E r \in Runs : pc[r] \in {"running", "scan", "delete", "age"}
    /\ pc' = [r \in Runs |-> IF At(r, "off") \/ At(r, "kept") THEN pc[r] ELSE "lost"]
    /\ scanned' = [r \in Runs |-> {}]
    /\ victims' = [r \in Runs |-> {}]
    /\ UNCHANGED <<clock, user, rows, recorded, start>>

Next ==
    \/ \E r \in Runs :
        Begin(r) \/ Write(r) \/ Scan(r) \/ Delete(r) \/ Age(r) \/ Fail(r)
    \/ Forget \/ Tick \/ Crash

Spec == Init /\ [][Next]_vars

----------------------------------------------------------------------------
(* Properties.                                                              *)

\* A query of rows ordered by StartedAt, newest first, and limited.
Queried(S) == {r \in S : Cardinality({q \in S : start[q] > start[r]}) < Limit}

\* What List returns: of the rows that are not too old the newest.
Shown == Queried({r \in rows : ~Expired(r)})

TypeOK ==
    /\ clock \in Nat /\ user \in Nat
    /\ rows \subseteq recorded /\ recorded \subseteq Runs
    /\ start \in [Runs -> Nat]
    /\ pc \in [Runs -> Pcs]
    /\ scanned \in [Runs -> SUBSET Runs]
    /\ victims \in [Runs -> SUBSET Runs]

\* Prunes that overlap, stop halfway or go by rows long gone never take a run out
\* of what the history shows: it shows the newest of all runs ever recorded.
Promise == INSTANCE HistoryPromise WITH list <- Shown
KeepsPromise == Promise!Spec

\* A prune that reaches its end has left no more than the limit of the rows it
\* had read, whoever else was deleting.
TrimmedToLimit ==
    \A r \in Runs : At(r, "age") => Cardinality(rows \cap scanned[r]) <= Limit

\* The table holds at most one row beyond the limit for every recorded run whose
\* prune is under way or was cut short.
ExcessIsAccounted ==
    Cardinality(rows) <= Limit + Cardinality({r \in recorded : pc[r] # "kept"})
=============================================================================
