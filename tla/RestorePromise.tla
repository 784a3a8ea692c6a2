--------------------------- MODULE RestorePromise ---------------------------
(* What a restore job promises its user, whatever its stages are: it is    *)
(* accepted once, its archive reaches the destination at most once, and it *)
(* says "completed" only of an import that succeeded.  It may fail at any  *)
(* time, even after the destination has the archive, and a process that    *)
(* ends forgets it.                                                        *)
EXTENDS Naturals

CONSTANT Jobs

VARIABLES
    status,    \* what GET /api/restore/jobs/{id} would report
    imports,   \* archives of the job that the destination has received
    import     \* the destination's import of that archive

vars == <<status, imports, import>>

Init ==
    /\ status = [j \in Jobs |-> "absent"]
    /\ imports = [j \in Jobs |-> 0]
    /\ import = [j \in Jobs |-> "none"]

Report(j, from, to) ==
    /\ status[j] = from
    /\ status' = [status EXCEPT ![j] = to]
    /\ UNCHANGED <<imports, import>>

Accept(j) == Report(j, "absent", "active")
Fail(j)   == Report(j, "active", "failed")

Complete(j) ==
    /\ import[j] = "ok"
    /\ Report(j, "active", "completed")

\* The archive arrives, at most once, and possibly after the job has failed or
\* been forgotten.
Deliver(j) ==
    /\ status[j] # "absent"
    /\ imports[j] = 0
    /\ imports' = [imports EXCEPT ![j] = 1]
    /\ import' = [import EXCEPT ![j] = "running"]
    /\ UNCHANGED status

ImportEnds(j) ==
    /\ import[j] = "running"
    /\ \E v \in {"ok", "bad"} : import' = [import EXCEPT ![j] = v]
    /\ UNCHANGED <<status, imports>>

\* The process ends: every job it had accepted is unknown to the next one.
Forget ==
    /\ status' = [j \in Jobs |-> IF status[j] = "absent" THEN "absent" ELSE "lost"]
    /\ UNCHANGED <<imports, import>>

Next ==
    \/ \E j \in Jobs : \/ Accept(j) \/ Fail(j) \/ Complete(j)
                       \/ Deliver(j) \/ ImportEnds(j)
    \/ Forget

Spec == Init /\ [][Next]_vars
=============================================================================
