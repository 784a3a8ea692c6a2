------------------------- MODULE MCTenantScheduler -------------------------
(* Instances of TenantScheduler for TLC: the task lists users save.        *)
EXTENDS TenantScheduler, TLC

CONSTANTS a, b

On(kind) == [kind |-> kind, enabled |-> TRUE]
Off      == [kind |-> "once", enabled |-> FALSE]
Gone     == [kind |-> "absent", enabled |-> FALSE]

\* One task: once, changed to repeating, switched off, and removed.
OneTask == [{a} -> {On("once"), On("repeat"), Off, Gone}]

\* One task, once or repeating.
OnceOrRepeat == [{a} -> {On("once"), On("repeat")}]

\* Two one-time tasks.
TwoOnce == [{a, b} -> {On("once")}]

HandlerSymmetry == Permutations(Handlers)
=============================================================================
