---------------------------- MODULE MCBackupRun ----------------------------
(* Instances of BackupRun for TLC: the retention policies its runs may find. *)
EXTENDS BackupRun, TLC

Last(n) == [mode |-> "keep_last", n |-> n]
Days(n) == [mode |-> "keep_days", n |-> n]

Unlimited == {NoRetention}
LastOne   == {Last(1)}
LastTwo   == {Last(2)}
Various   == {NoRetention, Last(1), Days(1)}

RunSymmetry == Permutations(Runs)
=============================================================================
