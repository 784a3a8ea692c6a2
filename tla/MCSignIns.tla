----------------------------- MODULE MCSignIns -----------------------------
(* Two people and the administrator; one person's first address is later     *)
(* the other's, one address is not verified and another not allowed.        *)
EXTENDS SignIns, TLC

CONSTANTS u1, u2, u3, b1, b2, e1, e2

SomeProfiles == {
    [subject |-> "s1", email |-> e1, verified |-> TRUE, allowed |-> TRUE, name |-> "n1"],
    [subject |-> "s1", email |-> e1, verified |-> FALSE, allowed |-> TRUE, name |-> "n1"],
    [subject |-> "s2", email |-> e1, verified |-> TRUE, allowed |-> TRUE, name |-> "n1"],
    [subject |-> "s2", email |-> e2, verified |-> TRUE, allowed |-> FALSE, name |-> "n1"]}

Symmetry == Permutations({u1, u2, u3}) \cup Permutations({b1, b2})
=============================================================================
