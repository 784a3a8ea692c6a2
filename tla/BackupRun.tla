------------------------------ MODULE BackupRun ------------------------------
(* backup.Runner over the remote directory of one task: every run, started *)
(* by the timer or by a request, packages an export, uploads it to all its *)
(* targets at once, applies the retention policy on each target it has     *)
(* uploaded to, and records the outcome in the history.  Nothing keeps two *)
(* runs apart: they share the directory on each target.                    *)
(*                                                                         *)
(* An action is one call to the storage with what follows up to the next.  *)
(* An object is its name (the second its run started in), the time the     *)
(* target gives it, and the run it is of.                                  *)
EXTENDS Naturals, FiniteSets

CONSTANTS
    Runs,          \* runs; each may be started once
    Targets,       \* storage targets
    Early,         \* targets that show an object as soon as it is opened (SFTP)
    Buffered,      \* targets that send it when it is closed (WebDAV)
    Retentions,    \* the retention policies a run may find in its task
    MaxClock,      \* bound: the last second
    MaxUploads,    \* bound: uploads over the whole behaviour
    MaxStops       \* bound: cancelled contexts and crashes, together

Modes     == {"none", "keep_last", "keep_days", "keep_after", "keep_before"}
Retention == [mode : Modes, n : Nat]

ASSUME BackupAssumption ==
    /\ Early \subseteq Targets /\ Buffered \subseteq Targets
    /\ Early \cap Buffered = {}
    /\ Retentions \subseteq Retention
    \* validateRetentionConfig
    /\ \A p \in Retentions : p.mode \in {"keep_last", "keep_days"} => p.n >= 1
    /\ MaxClock \in Nat /\ MaxUploads \in Nat /\ MaxStops \in Nat

VARIABLES
    clock,      \* now, in seconds
    run,        \* each run's own state
    work,       \* work[r][t]: the goroutine of run r for target t
    objects,    \* objects[t]: the backup objects in the directory on target t
    stored,     \* history: every complete object that was ever there
    recorded,   \* the status in the history store, "none" if there is no record
    stops       \* contexts cancelled and crashes so far

vars == <<clock, run, work, objects, stored, recorded, stops>>

Outcomes == {"success", "partial", "failed"}
Object   == [name : Nat, mod : Nat, by : Runs]
Points   == {"idle", "open", "write", "list", "stat", "delete", "missed", "success", "failed"}
Worker   == [pc : Points, files : SUBSET Object]
RunState == [pc : {"idle", "export", "upload", "append", "done", "lost"},
             started : Nat, retention : Retention, targets : SUBSET Targets,
             cancelled : BOOLEAN, status : Outcomes \cup {"none"}]

NoRetention == [mode |-> "none", n |-> 0]
NoRun  == [pc |-> "idle", started |-> 0, retention |-> NoRetention, targets |-> {},
           cancelled |-> FALSE, status |-> "none"]
NoWork == [pc |-> "idle", files |-> {}]

Init ==
    /\ clock = 1
    /\ run = [r \in Runs |-> NoRun]
    /\ work = [r \in Runs |-> [t \in Targets |-> NoWork]]
    /\ objects = [t \in Targets |-> {}]
    /\ stored = [t \in Targets |-> {}]
    /\ recorded = [r \in Runs |-> "none"]
    /\ stops = 0

Go(r, p)       == run' = [run EXCEPT ![r].pc = p]
Work(r, t, p)  == work' = [work EXCEPT ![r][t].pc = p]
At(r, t, p)    == run[r].pc = "upload" /\ work[r][t].pc = p
Remote         == <<objects, stored>>
Elsewhere      == <<clock, recorded, stops>>

----------------------------------------------------------------------------
(* Runner.run up to the upload.                                            *)

Uploads == Cardinality({u \in Runs \X Targets : u[2] \in run[u[1]].targets})

\* RunTask, RunTaskWithTargets and RunScheduledTask: the run keeps the
\* configuration it was made with.  Disabled and unselected targets are left out.
Start(r) ==
    /\ run[r].pc = "idle"
    /\ \E p \in Retentions, ts \in SUBSET Targets :
        /\ Uploads + Cardinality(ts) <= MaxUploads
        /\ run' = [run EXCEPT ![r] = [NoRun EXCEPT !.pc = "export", !.started = clock,
                                                   !.retention = p, !.targets = ts]]
    /\ UNCHANGED <<work, Remote, Elsewhere>>

\* Export and archive.Build succeed, and there is a target: one goroutine each.
Package(r) ==
    /\ run[r].pc = "export"
    /\ run[r].targets # {}
    /\ Go(r, "upload")
    /\ work' = [work EXCEPT ![r] = [t \in Targets |->
                    IF t \in run[r].targets THEN [NoWork EXCEPT !.pc = "open"] ELSE NoWork]]
    /\ UNCHANGED <<Remote, Elsewhere>>

\* The export or the packaging fails, or there is no target.
PackageFails(r) ==
    /\ run[r].pc = "export"
    /\ run' = [run EXCEPT ![r].pc = "append", ![r].status = "failed"]
    /\ UNCHANGED <<work, Remote, Elsewhere>>

\* The run's context ends: timeout, a closed timer, a client that went away.
Cancel(r) ==
    /\ run[r].pc \in {"export", "upload"}
    /\ ~run[r].cancelled
    /\ stops < MaxStops
    /\ stops' = stops + 1
    /\ run' = [run EXCEPT ![r].cancelled = TRUE]
    /\ UNCHANGED <<clock, work, Remote, recorded>>

----------------------------------------------------------------------------
(* storage.Write, and what the runner does with its result.                *)

Made(r) == [name |-> run[r].started, mod |-> clock, by |-> r]

\* The object takes the place of one of the same name.
Put(r, t) == objects' = [objects EXCEPT ![t] = {x \in @ : x.name # run[r].started} \cup {Made(r)}]

\* What was shown when it was opened has been removed, or replaced, since.
Unlinked(r, t) == t \in Early /\ \A x \in objects[t] : x.by # r

\* The object is complete; one that is no longer in the directory is lost.
Store(r, t) ==
    \/ Unlinked(r, t) /\ UNCHANGED Remote
    \/ /\ ~Unlinked(r, t)
       /\ Put(r, t)
       /\ stored' = [stored EXCEPT ![t] = @ \cup {Made(r)}]

\* Factory.Target, MkdirAll and OpenFile: SFTP dials, and WebDAV sends every
\* request, with the run's context.
Open(r, t) ==
    /\ At(r, t, "open")
    /\ t \in Early \cup Buffered => ~run[r].cancelled
    /\ Work(r, t, "write")
    /\ IF t \in Early THEN Put(r, t) ELSE UNCHANGED objects
    /\ UNCHANGED <<run, stored, Elsewhere>>

\* Where a good upload leads: to the retention policy, if there is one.
AfterWrite(r) == IF run[r].retention.mode = "none" THEN "success" ELSE "list"

\* The object is written and closed.
Wrote(r, t) ==
    /\ At(r, t, "write")
    /\ t \in Buffered => ~run[r].cancelled
    /\ Store(r, t)
    /\ Work(r, t, AfterWrite(r))
    /\ UNCHANGED <<run, Elsewhere>>

\* The context ended and the watching goroutine closed the file: the request it
\* made failed with the context, and the second Close of a WebDAV file is silent.
ClosedEarly(r, t) ==
    /\ At(r, t, "write")
    /\ t \in Buffered
    /\ run[r].cancelled
    /\ Work(r, t, AfterWrite(r))
    /\ UNCHANGED <<run, Remote, Elsewhere>>

\* Mutant: the retention policy is applied whether or not the upload succeeded.
WriteFailsButTrims(r, t) ==
    /\ At(r, t, "write")
    /\ Work(r, t, AfterWrite(r))
    /\ UNCHANGED <<run, Remote, Elsewhere>>

\* An error: what is there stays, or all of it did arrive and the answer is lost.
WriteFails(r, t) ==
    /\ At(r, t, "write")
    /\ Work(r, t, "failed")
    /\ UNCHANGED Remote \/ Store(r, t)
    /\ UNCHANGED <<run, Elsewhere>>

\* The target cannot be opened, the directory not be listed, or a deletion fails:
\* the target has failed, whatever has been uploaded.
StepFails(r, t) ==
    /\ \E p \in {"open", "list", "stat", "delete"} : At(r, t, p)
    /\ work' = [work EXCEPT ![r][t] = [pc |-> "failed", files |-> {}]]
    /\ UNCHANGED <<run, Remote, Elsewhere>>

----------------------------------------------------------------------------
(* storage.ApplyRetention.                                                 *)

\* Newest first: by time, then by name.
Newer(x, y) == x.mod > y.mod \/ (x.mod = y.mod /\ x.name > y.name)

NewerIn(S, x) == Cardinality({y \in S : Newer(y, x)})

\* Mutant: one too many is left.
CutOneLess(S, p) == {x \in S : p.mode = "keep_last" /\ NewerIn(S, x) > p.n}

\* Mutant: keep_days counts the present day.
CutADayEarly(S, p) ==
    {x \in S : \/ p.mode = "keep_last" /\ NewerIn(S, x) >= p.n
               \/ p.mode = "keep_days" /\ x.mod + p.n <= clock}

\* What the policy p cuts from a listing S.
Cut(S, p) ==
    {x \in S : \/ p.mode = "keep_last"   /\ NewerIn(S, x) >= p.n
               \/ p.mode = "keep_days"   /\ x.mod + p.n < clock
               \/ p.mode = "keep_after"  /\ x.mod < p.n
               \/ p.mode = "keep_before" /\ x.mod >= p.n}

\* The walk reads the names in the directory.  It looks at the context all along.
List(r, t) ==
    /\ At(r, t, "list")
    /\ ~run[r].cancelled
    /\ work' = [work EXCEPT ![r][t] = [pc |-> "stat", files |-> objects[t]]]
    /\ UNCHANGED <<run, Remote, Elsewhere>>

\* It asks for each file by its name, and the policy chooses among them.
Stat(r, t) ==
    /\ At(r, t, "stat")
    /\ ~run[r].cancelled
    /\ LET cut == Cut(work[r][t].files, run[r].retention) IN
        work' = [work EXCEPT ![r][t] =
                    [pc |-> IF cut = {} THEN "success" ELSE "delete", files |-> cut]]
    /\ UNCHANGED <<run, Remote, Elsewhere>>

\* A file is gone by then: the walk ends with "not exist", and that is taken for a
\* directory that does not exist.  Nothing is deleted, and it is no error.
StatMisses(r, t) ==
    /\ At(r, t, "stat")
    /\ t \in Buffered => ~run[r].cancelled
    /\ \E x \in work[r][t].files : \A y \in objects[t] : y.name # x.name
    /\ work' = [work EXCEPT ![r][t] = [pc |-> "missed", files |-> {}]]
    /\ UNCHANGED <<run, Remote, Elsewhere>>

\* One object is removed by its name, the newest of the cut first.  That it is
\* gone already is no error; if the answer is lost, the target has failed.
Delete(r, t) ==
    /\ At(r, t, "delete")
    /\ ~run[r].cancelled
    /\ \E x \in work[r][t].files :
        /\ \A y \in work[r][t].files : ~Newer(y, x)
        /\ objects' = [objects EXCEPT ![t] = {y \in @ : y.name # x.name}]
        /\ LET left == work[r][t].files \ {x} IN
            \E w \in {[pc |-> IF left = {} THEN "success" ELSE "delete", files |-> left],
                      [pc |-> "failed", files |-> {}]} :
                work' = [work EXCEPT ![r][t] = w]
    /\ UNCHANGED <<run, stored, Elsewhere>>

----------------------------------------------------------------------------
(* The end of a run.                                                       *)

Result(r, t) ==
    IF work[r][t].pc = "missed" THEN "success" ELSE work[r][t].pc
Failures(r)   == {t \in run[r].targets : Result(r, t) # "success"}

\* Mutant: one target that succeeds makes the run a success.
OutcomeOfAny(r) == IF Failures(r) = run[r].targets THEN "failed" ELSE "success"

\* Mutant: the status a run starts with is left.
OutcomeForgotten(r) == IF Failures(r) = run[r].targets THEN "failed" ELSE "running"

Outcome(r) ==
    IF Failures(r) = run[r].targets THEN "failed"
    ELSE IF Failures(r) # {} THEN "partial" ELSE "success"

\* wg.Wait returns.
Join(r) ==
    /\ run[r].pc = "upload"
    /\ \A t \in run[r].targets : Result(r, t) \in {"success", "failed"}
    /\ run' = [run EXCEPT ![r].pc = "append", ![r].status = Outcome(r)]
    /\ UNCHANGED <<work, Remote, Elsewhere>>

\* history.Append; an error there is logged at most.
Append(r) ==
    /\ run[r].pc = "append"
    /\ Go(r, "done")
    /\ recorded' \in {recorded, [recorded EXCEPT ![r] = run[r].status]}
    /\ UNCHANGED <<clock, work, Remote, stops>>

----------------------------------------------------------------------------

Tick ==
    /\ clock < MaxClock
    /\ clock' = clock + 1
    /\ UNCHANGED <<run, work, Remote, recorded, stops>>

Active(r) == run[r].pc \in {"export", "upload", "append"}

\* The process ends: runs in progress leave what they have written, and no record.
Crash ==
    /\ stops < MaxStops
    /\ stops' = stops + 1
    /\ run' = [r \in Runs |-> IF Active(r) THEN [run[r] EXCEPT !.pc = "lost"] ELSE run[r]]
    /\ work' = [r \in Runs |-> IF Active(r) THEN [t \in Targets |-> NoWork] ELSE work[r]]
    /\ UNCHANGED <<clock, Remote, recorded>>

Upload(r, t) ==
    \/ Open(r, t) \/ Wrote(r, t) \/ ClosedEarly(r, t) \/ WriteFails(r, t)
    \/ StepFails(r, t) \/ List(r, t) \/ Stat(r, t) \/ StatMisses(r, t) \/ Delete(r, t)

Progress(r) == Package(r) \/ PackageFails(r) \/ Join(r) \/ Append(r)

Next ==
    \/ \E r \in Runs : \/ Start(r) \/ Progress(r) \/ Cancel(r)
                       \/ \E t \in Targets : Upload(r, t)
    \/ Tick
    \/ Crash

Spec == Init /\ [][Next]_vars

----------------------------------------------------------------------------
(* Properties.                                                             *)

TypeOK ==
    /\ clock \in Nat
    /\ run \in [Runs -> RunState]
    /\ work \in [Runs -> [Targets -> Worker]]
    /\ objects \in [Targets -> SUBSET Object]
    /\ stored \in [Targets -> SUBSET Object]
    /\ recorded \in [Runs -> Outcomes \cup {"none"}]
    /\ stops \in Nat

Stored(r, t) == \E x \in stored[t] : x.by = r

\* What a run is told was written has been stored, unless another run that uses
\* the directory has removed it while it could be seen and was not complete.
Kept(r, t) == Stored(r, t) \/ (t \in Early /\ \E q \in Runs \ {r} : t \in run[q].targets)

\* No two runs have started in the same second, so no name is used twice.
NamesDiffer ==
    \A r, q \in Runs : run[r].started = run[q].started /\ run[r].started > 0 => r = q

\* The policy p has done with x, by what has been stored on t.
Superseded(t, x, p) ==
    \/ p.mode = "keep_last"   /\ NewerIn(stored[t], x) >= p.n
    \/ p.mode = "keep_days"   /\ x.mod + p.n < clock
    \/ p.mode = "keep_after"  /\ x.mod < p.n
    \/ p.mode = "keep_before" /\ x.mod >= p.n

\* A complete backup is gone only because a policy has done with it, however many
\* runs trim the directory from listings that are out of date: with keep_last the
\* newest n survive.  An incomplete object on the target, or two runs with one
\* name, can break this.
OnlySupersededAreGone ==
    NamesDiffer => \A t \in Targets \ Early : \A x \in stored[t] \ objects[t] :
        \E r \in Runs : run[r].started > 0 /\ Superseded(t, x, run[r].retention)

\* A target that could not be uploaded to loses no older backup: only a run that
\* has stored its own object deletes.
DeletesOnlyAfterStoring ==
    \A r \in Runs, t \in Targets : At(r, t, "delete") => Kept(r, t)

\* A recorded success has stored a complete object on every target.
SuccessIsTrue(r) ==
    recorded[r] = "success" =>
        run[r].targets # {} /\ \A t \in run[r].targets : Kept(r, t)

\* The history tells the truth about a run that was not cancelled: a success has
\* stored its object on every target, a partial one on some.
RecordIsTrue ==
    \A r \in Runs : ~run[r].cancelled =>
        /\ SuccessIsTrue(r)
        /\ recorded[r] = "partial" => \E t \in run[r].targets : Kept(r, t)

\* README.md:34, "Track backup ... operations in run history": also of a run that
\* was cancelled, a success in the history means that the backup is there.
SuccessMeansStored == \A r \in Runs : SuccessIsTrue(r)

Quiet == \A r \in Runs : ~Active(r)

\* The runs are over, all of them succeeded on t, and none asked for more than n.
AllKept(t, n) ==
    /\ Quiet
    /\ \A r \in Runs : t \in run[r].targets =>
          /\ Result(r, t) = "success"
          /\ run[r].retention.mode = "keep_last" /\ run[r].retention.n <= n

\* Once the runs are over and all have succeeded, a directory kept by keep_last
\* holds no more objects than the largest number asked for, if every run could
\* finish its listing: whoever lists last has seen every object.
RetentionHolds ==
    \A t \in Targets, p \in Retentions :
        AllKept(t, p.n) /\ (\A r \in Runs : work[r][t].pc # "missed")
            => Cardinality(objects[t]) <= p.n

\* README.md:30, "Clean up remote backups by keeping the latest N": also when a
\* file that one run had listed was removed by another, if all runs are successes.
CleanedUp ==
    \A t \in Targets, p \in Retentions :
        AllKept(t, p.n) => Cardinality(objects[t]) <= p.n

\* README.md:30, "keeping the latest N": between runs, a complete backup that
\* keep_last has deleted has n complete ones after it.
LatestAreKept ==
    Quiet /\ NamesDiffer => \A t \in Targets : \A x \in stored[t] \ objects[t] :
        \E r \in Runs : Superseded(t, x, run[r].retention)
=============================================================================
