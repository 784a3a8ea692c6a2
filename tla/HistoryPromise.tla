--------------------------- MODULE HistoryPromise ---------------------------
(* What a user relies on when looking at the run history: it shows the      *)
(* latest runs of all that were recorded, as many as the limit allows and   *)
(* none older than the retention, however the table is kept small.          *)
EXTENDS Naturals, FiniteSets

CONSTANTS
    Runs,     \* backup runs
    Limit,    \* history_limit
    Days      \* history_retention_days

VARIABLES
    clock,     \* the time, in days
    start,     \* when each run started
    recorded,  \* runs recorded since the name was given to its user
    list       \* runs the history shows

vars == <<clock, start, recorded, list>>

\* Of the runs in S those that are not too old and have fewer than Limit newer
\* ones: what List returns of a table that holds S.
Latest(S, st, now) ==
    {r \in S : st[r] + Days >= now /\ Cardinality({q \in S : st[q] > st[r]}) < Limit}

Init ==
    /\ clock = 1
    /\ start = [r \in Runs |-> 0]
    /\ recorded = {}
    /\ list = {}

\* A run starts, or time passes.
Pass ==
    /\ clock' = clock + 1
    /\ \/ UNCHANGED start
       \/ \E r \in Runs : start[r] = 0 /\ start' = [start EXCEPT ![r] = clock]
    /\ UNCHANGED recorded

Record ==
    /\ \E r \in Runs \ recorded : recorded' = recorded \cup {r}
    /\ UNCHANGED <<clock, start>>

\* The user is deleted or renamed.
Forget ==
    /\ recorded' = {}
    /\ UNCHANGED <<clock, start>>

Next ==
    /\ Pass \/ Record \/ Forget
    /\ list' = Latest(recorded', start', clock')

Spec == Init /\ [][Next]_vars
=============================================================================
