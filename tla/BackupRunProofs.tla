-------------------------- MODULE BackupRunProofs --------------------------
(* Proofs about BackupRun, for any runs, targets, policies and bounds.     *)
EXTENDS BackupRun, FiniteSetTheorems, TLAPS

(* Types.                                                                  *)
USE BackupAssumption

LEMMA InitTypeOK == Init => TypeOK
  BY DEF Init, TypeOK, NoRun, NoWork, NoRetention, RunState, Worker, Retention,
         Modes, Outcomes, Points

LEMMA MadeType ==
    ASSUME TypeOK, NEW r \in Runs
    PROVE  Made(r) \in Object
  BY DEF TypeOK, Made, Object, RunState

LEMMA PutType ==
    ASSUME TypeOK, NEW r \in Runs, NEW t \in Targets, Put(r, t)
    PROVE  objects' \in [Targets -> SUBSET Object]
  BY MadeType DEF TypeOK, Put

LEMMA StoreType ==
    ASSUME TypeOK, NEW r \in Runs, NEW t \in Targets, Store(r, t)
    PROVE  /\ objects' \in [Targets -> SUBSET Object]
           /\ stored' \in [Targets -> SUBSET Object]
  BY MadeType, PutType DEF TypeOK, Store, Remote

LEMMA WorkType ==
    ASSUME TypeOK, NEW r \in Runs, NEW t \in Targets,
           NEW w \in Worker
    PROVE  [work EXCEPT ![r][t] = w] \in [Runs -> [Targets -> Worker]]
  BY DEF TypeOK

LEMMA WorkPcType ==
    ASSUME TypeOK, NEW r \in Runs, NEW t \in Targets,
           NEW p \in Points,
           Work(r, t, p)
    PROVE  work' \in [Runs -> [Targets -> Worker]]
  <1>0. work[r][t] \in Worker
    BY DEF TypeOK
  <1>1. [work[r][t] EXCEPT !.pc = p] \in Worker
    BY <1>0 DEF Worker
  <1>2. work' = [work EXCEPT ![r][t] = [work[r][t] EXCEPT !.pc = p]]
    BY DEF Work, TypeOK
  <1> QED BY <1>1, <1>2, WorkType

\* How the actions change the state of a run.
LEMMA RunFields ==
    ASSUME NEW s \in RunState
    PROVE  /\ \A p \in {"idle", "export", "upload", "append", "done", "lost"} :
                 [s EXCEPT !.pc = p] \in RunState
           /\ [s EXCEPT !.cancelled = TRUE] \in RunState
           /\ \A o \in Outcomes : [s EXCEPT !.pc = "append", !.status = o] \in RunState
  BY DEF RunState

LEMMA CutType == \A S : \A p : Cut(S, p) \subseteq S
  BY DEF Cut

LEMMA NextTypeOK == TypeOK /\ [Next]_vars => TypeOK'
  <1> SUFFICES ASSUME TypeOK, [Next]_vars PROVE TypeOK'
    OBVIOUS
  <1> USE DEF Elsewhere, Remote
  <1>1. ASSUME NEW r \in Runs, Start(r) PROVE TypeOK'
    <2> PICK p \in Retentions, ts \in SUBSET Targets :
          run' = [run EXCEPT ![r] = [NoRun EXCEPT !.pc = "export", !.started = clock,
                                                  !.retention = p, !.targets = ts]]
      BY <1>1 DEF Start
    <2>1. clock \in Nat /\ p \in Retention
      BY DEF TypeOK
    <2>2. [NoRun EXCEPT !.pc = "export", !.started = clock,
                        !.retention = p, !.targets = ts] \in RunState
      BY <2>1 DEF NoRun, RunState
    <2> QED BY <1>1, <2>2 DEF Start, TypeOK
  <1>2. ASSUME NEW r \in Runs, Package(r) PROVE TypeOK'
    <2>1. run[r] \in RunState /\ [run[r] EXCEPT !.pc = "upload"] \in RunState
      BY RunFields DEF TypeOK
    <2>2. run' = [run EXCEPT ![r] = [run[r] EXCEPT !.pc = "upload"]]
      BY <1>2 DEF Package, Go, TypeOK
    <2>3. run' \in [Runs -> RunState]
      BY <2>1, <2>2 DEF TypeOK
    <2>4. NoWork \in Worker /\ [NoWork EXCEPT !.pc = "open"] \in Worker
      BY DEF NoWork, Worker, Points
    <2>5. work' \in [Runs -> [Targets -> Worker]]
      BY <1>2, <2>4 DEF Package, TypeOK
    <2> QED BY <1>2, <2>3, <2>5 DEF Package, TypeOK
  <1>3. ASSUME NEW r \in Runs, PackageFails(r) PROVE TypeOK'
    <2>1. [run[r] EXCEPT !.pc = "append", !.status = "failed"] \in RunState
      BY RunFields DEF TypeOK, Outcomes
    <2>2. run' = [run EXCEPT ![r] = [run[r] EXCEPT !.pc = "append", !.status = "failed"]]
      BY <1>3 DEF PackageFails, TypeOK
    <2> QED BY <1>3, <2>1, <2>2 DEF PackageFails, TypeOK
  <1>4. ASSUME NEW r \in Runs, Cancel(r) PROVE TypeOK'
    <2>1. [run[r] EXCEPT !.cancelled = TRUE] \in RunState
      BY RunFields DEF TypeOK
    <2>2. run' = [run EXCEPT ![r] = [run[r] EXCEPT !.cancelled = TRUE]]
      BY <1>4 DEF Cancel, TypeOK
    <2> QED BY <1>4, <2>1, <2>2 DEF Cancel, TypeOK
  <1>5. ASSUME NEW r \in Runs, Join(r) PROVE TypeOK'
    <2>1. [run[r] EXCEPT !.pc = "append", !.status = Outcome(r)] \in RunState
      BY RunFields DEF TypeOK, Outcome, Outcomes
    <2>2. run' = [run EXCEPT ![r] = [run[r] EXCEPT !.pc = "append", !.status = Outcome(r)]]
      BY <1>5 DEF Join, TypeOK
    <2> QED BY <1>5, <2>1, <2>2 DEF Join, TypeOK
  <1>6. ASSUME NEW r \in Runs, Append(r) PROVE TypeOK'
    <2>1. run[r] \in RunState
      BY DEF TypeOK
    <2>2. [run[r] EXCEPT !.pc = "done"] \in RunState
      BY <2>1, RunFields
    <2>3. run' = [run EXCEPT ![r] = [run[r] EXCEPT !.pc = "done"]]
      BY <1>6 DEF Append, Go, TypeOK
    <2>4. run' \in [Runs -> RunState]
      BY <2>2, <2>3 DEF TypeOK
    <2>5. run[r].status \in Outcomes \cup {"none"}
      BY <2>1 DEF RunState
    <2>6. recorded' \in [Runs -> Outcomes \cup {"none"}]
      BY <1>6, <2>5 DEF Append, TypeOK
    <2> QED BY <1>6, <2>4, <2>6 DEF Append, TypeOK
  <1>7. ASSUME NEW r \in Runs, NEW t \in Targets, Open(r, t) PROVE TypeOK'
    BY <1>7, WorkPcType, PutType DEF Open, TypeOK, Points
  <1>8. ASSUME NEW r \in Runs, NEW t \in Targets, Wrote(r, t) PROVE TypeOK'
    BY <1>8, WorkPcType, StoreType DEF Wrote, AfterWrite, TypeOK, Points
  <1>9. ASSUME NEW r \in Runs, NEW t \in Targets, ClosedEarly(r, t) PROVE TypeOK'
    BY <1>9, WorkPcType DEF ClosedEarly, AfterWrite, TypeOK, Points
  <1>10. ASSUME NEW r \in Runs, NEW t \in Targets, WriteFails(r, t) PROVE TypeOK'
    BY <1>10, WorkPcType, StoreType DEF WriteFails, TypeOK, Points
  <1>11. ASSUME NEW r \in Runs, NEW t \in Targets, StepFails(r, t) PROVE TypeOK'
    BY <1>11, WorkType DEF StepFails, TypeOK, Worker, Points
  <1>12. ASSUME NEW r \in Runs, NEW t \in Targets, List(r, t) \/ StatMisses(r, t)
         PROVE  TypeOK'
    <2>1. /\ [pc |-> "stat", files |-> objects[t]] \in Worker
          /\ [pc |-> "missed", files |-> {}] \in Worker
      BY DEF TypeOK, Worker, Points
    <2>2. CASE List(r, t)
      BY <2>1, <2>2, WorkType DEF List, TypeOK
    <2>3. CASE StatMisses(r, t)
      BY <2>1, <2>3, WorkType DEF StatMisses, TypeOK
    <2> QED BY <1>12, <2>2, <2>3
  <1>17. ASSUME NEW r \in Runs, NEW t \in Targets, Stat(r, t) PROVE TypeOK'
    <2> DEFINE cut == Cut(work[r][t].files, run[r].retention)
    <2>0. work[r][t] \in Worker
      BY DEF TypeOK
    <2>1. cut \subseteq work[r][t].files /\ work[r][t].files \subseteq Object
      BY <2>0, CutType DEF Worker
    <2>2. [pc |-> IF cut = {} THEN "success" ELSE "delete", files |-> cut] \in Worker
      BY <2>1 DEF Worker, Points
    <2> QED BY <1>17, <2>2, WorkType DEF Stat, TypeOK
  <1>13. ASSUME NEW r \in Runs, NEW t \in Targets, Delete(r, t) PROVE TypeOK'
    <2> PICK x \in work[r][t].files :
          /\ objects' = [objects EXCEPT ![t] = {y \in @ : y.name # x.name}]
          /\ LET left == work[r][t].files \ {x} IN
              \E w \in {[pc |-> IF left = {} THEN "success" ELSE "delete", files |-> left],
                        [pc |-> "failed", files |-> {}]} :
                  work' = [work EXCEPT ![r][t] = w]
      BY <1>13 DEF Delete
    <2> DEFINE left == work[r][t].files \ {x}
    <2>1. /\ [pc |-> IF left = {} THEN "success" ELSE "delete", files |-> left] \in Worker
          /\ [pc |-> "failed", files |-> {}] \in Worker
      BY DEF TypeOK, Worker, Points
    <2>2. work' \in [Runs -> [Targets -> Worker]]
      <3> PICK w \in {[pc |-> IF left = {} THEN "success" ELSE "delete", files |-> left],
                      [pc |-> "failed", files |-> {}]} :
                  work' = [work EXCEPT ![r][t] = w]
        OBVIOUS
      <3>1. w \in Worker
        BY <2>1
      <3> QED BY <3>1, WorkType
    <2> QED BY <1>13, <2>2 DEF Delete, TypeOK
  <1>14. CASE Tick
    BY <1>14 DEF Tick, TypeOK
  <1>15. CASE Crash
    <2>1. \A r \in Runs : [run[r] EXCEPT !.pc = "lost"] \in RunState
      BY RunFields DEF TypeOK
    <2>2. run' \in [Runs -> RunState]
      BY <1>15, <2>1 DEF Crash, TypeOK
    <2>3. NoWork \in Worker
      BY DEF NoWork, Worker, Points
    <2>4. work' \in [Runs -> [Targets -> Worker]]
      BY <1>15, <2>3 DEF Crash, TypeOK
    <2> QED BY <1>15, <2>2, <2>4 DEF Crash, TypeOK
  <1>16. CASE UNCHANGED vars
    BY <1>16 DEF vars, TypeOK
  <1> QED
    BY <1>1, <1>2, <1>3, <1>4, <1>5, <1>6, <1>7, <1>8, <1>9, <1>10, <1>11, <1>12,
       <1>13, <1>14, <1>15, <1>16, <1>17 DEF Next, Progress, Upload

(* Every variable has its type: nothing but the listed states of a run and  *)
(* of its goroutines, and no status in the history but the three outcomes.  *)
THEOREM TypeCorrect == Spec => []TypeOK
  BY InitTypeOK, NextTypeOK, PTL DEF Spec

----------------------------------------------------------------------------
(* What is stored, and what a run may say of it.                           *)

\* A run that has not started has nothing; a record is that of a finished run.
Idle ==
    /\ clock > 0
    /\ \A r \in Runs :
        /\ run[r].pc = "idle" => run[r] = NoRun
        /\ run[r].pc # "idle" => run[r].started > 0
        /\ recorded[r] # "none" => run[r].pc = "done"

\* A goroutine belongs to a run that has got to its uploads, and to its target.
Owned ==
    \A r \in Runs, t \in Targets :
        /\ run[r].pc \in {"idle", "export"} => work[r][t] = NoWork
        /\ work[r][t].pc # "idle" => t \in run[r].targets

Other(r, t) == \E q \in Runs \ {r} : t \in run[q].targets

\* While an object is being written on a target that shows it, it is there,
\* unless another run uses the directory.
Shown ==
    \A r \in Runs, t \in Early :
        work[r][t].pc = "write" => (\E x \in objects[t] : x.by = r) \/ Other(r, t)

\* Only what has been stored gets to the retention policy, and past it.
Earned ==
    \A r \in Runs, t \in Targets :
        /\ work[r][t].pc = "delete" => Kept(r, t)
        /\ work[r][t].pc \in {"list", "stat", "missed", "success"} /\ ~run[r].cancelled
              => Kept(r, t)

\* What a status says of a run.
Claim(r, status) ==
    ~run[r].cancelled =>
        /\ status = "success" =>
              run[r].targets # {} /\ \A t \in run[r].targets : Kept(r, t)
        /\ status = "partial" => \E t \in run[r].targets : Kept(r, t)

Truthful ==
    \A r \in Runs :
        /\ run[r].pc = "append" => Claim(r, run[r].status)
        /\ Claim(r, recorded[r])

LEMMA InitIdle == Init => Idle /\ Owned /\ Shown /\ Earned /\ Truthful
  BY DEF Init, Idle, Owned, Shown, Earned, Truthful, Claim, NoRun, NoWork

LEMMA NextIdle == TypeOK /\ Idle /\ [Next]_vars => Idle'
  <1> SUFFICES ASSUME TypeOK, Idle, [Next]_vars PROVE Idle'
    OBVIOUS
  <1> USE DEF Elsewhere, Idle, TypeOK
  <1>1. ASSUME NEW r \in Runs, Start(r) PROVE Idle'
    BY <1>1 DEF Start, NoRun
  <1>2. ASSUME NEW r \in Runs, Progress(r) PROVE Idle'
    <2>1. CASE Package(r)
      BY <2>1 DEF Package, Go, NoRun, RunState
    <2>2. CASE PackageFails(r)
      BY <2>2 DEF PackageFails, NoRun, RunState
    <2>3. CASE Join(r)
      BY <2>3 DEF Join, NoRun, RunState
    <2>4. CASE Append(r)
      BY <2>4 DEF Append, Go, NoRun, RunState
    <2> QED BY <1>2, <2>1, <2>2, <2>3, <2>4 DEF Progress
  <1>3. ASSUME NEW r \in Runs, Cancel(r) PROVE Idle'
    BY <1>3 DEF Cancel, NoRun, RunState
  <1>4. ASSUME NEW r \in Runs, NEW t \in Targets, Upload(r, t) PROVE Idle'
    BY <1>4 DEF Upload, Open, Wrote, ClosedEarly, WriteFails, StepFails, List, Stat, StatMisses, Delete
  <1>5. CASE Tick
    BY <1>5 DEF Tick
  <1>6. CASE Crash
    BY <1>6 DEF Crash, Active
  <1>7. CASE UNCHANGED vars
    BY <1>7 DEF vars
  <1> QED
    BY <1>1, <1>2, <1>3, <1>4, <1>5, <1>6, <1>7 DEF Next

\* What the steps of every run do to any run: once it has started it keeps its
\* configuration and, if cancelled, stays so; nothing stored is forgotten.
LEMMA Steady ==
    ASSUME TypeOK, Idle, [Next]_vars
    PROVE  /\ \A r \in Runs :
                /\ run[r].pc # "idle" =>
                      /\ run'[r].targets = run[r].targets
                      /\ run'[r].started = run[r].started
                      /\ run'[r].retention = run[r].retention
                      /\ run'[r].pc # "idle"
                /\ run[r].targets \subseteq run'[r].targets
                /\ run[r].cancelled => run'[r].cancelled
           /\ \A t \in Targets : stored[t] \subseteq stored'[t]
           /\ clock' >= clock
  <1> DEFINE Runs1 == \A r \in Runs :
                /\ run[r].pc # "idle" =>
                      /\ run'[r].targets = run[r].targets
                      /\ run'[r].started = run[r].started
                      /\ run'[r].retention = run[r].retention
                      /\ run'[r].pc # "idle"
                /\ run[r].targets \subseteq run'[r].targets
                /\ run[r].cancelled => run'[r].cancelled
             Goal == /\ Runs1
                     /\ \A t \in Targets : stored[t] \subseteq stored'[t]
                     /\ clock' >= clock
  <1> USE DEF Elsewhere, Remote, TypeOK
  <1>1. ASSUME NEW r \in Runs, Start(r) PROVE Goal
    <2>1. run[r] = NoRun
      BY <1>1 DEF Start, Idle
    <2> QED BY <1>1, <2>1 DEF Start, NoRun
  <1>2. ASSUME NEW r \in Runs, Progress(r) PROVE Goal
    <2>1. CASE Package(r)
      BY <2>1 DEF Package, Go, RunState
    <2>2. CASE PackageFails(r)
      BY <2>2 DEF PackageFails, RunState
    <2>3. CASE Join(r)
      BY <2>3 DEF Join, RunState
    <2>4. CASE Append(r)
      BY <2>4 DEF Append, Go, RunState
    <2> QED BY <1>2, <2>1, <2>2, <2>3, <2>4 DEF Progress
  <1>3. ASSUME NEW r \in Runs, Cancel(r) PROVE Goal
    BY <1>3 DEF Cancel, RunState
  <1>4. ASSUME NEW r \in Runs, NEW t \in Targets, Upload(r, t) PROVE Goal
    <2>1. stored' = stored \/ Store(r, t)
      BY <1>4 DEF Upload, Open, Wrote, ClosedEarly, WriteFails, StepFails, List, Stat, StatMisses, Delete
    <2>2. \A u \in Targets : stored[u] \subseteq stored'[u]
      BY <2>1 DEF Store
    <2>3. run' = run /\ clock' = clock
      BY <1>4 DEF Upload, Open, Wrote, ClosedEarly, WriteFails, StepFails, List, Stat, StatMisses, Delete
    <2> QED BY <2>2, <2>3
  <1>5. CASE Tick
    BY <1>5 DEF Tick
  <1>6. CASE Crash
    BY <1>6 DEF Crash, Active, RunState
  <1>7. CASE UNCHANGED vars
    BY <1>7 DEF vars
  <1>8. Goal
    BY <1>1, <1>2, <1>3, <1>4, <1>5, <1>6, <1>7 DEF Next
  <1> QED BY <1>8

LEMMA KeptStays ==
    ASSUME TypeOK, Idle, [Next]_vars, NEW r \in Runs, NEW t \in Targets
    PROVE  /\ Kept(r, t) => Kept(r, t)'
           /\ Other(r, t) => Other(r, t)'
  BY Steady DEF Kept, Stored, Other

\* A step of the goroutine of run r for target t changes nothing of the others'.
LEMMA UploadStep ==
    ASSUME TypeOK, NEW r \in Runs, NEW t \in Targets, Upload(r, t)
    PROVE  /\ run' = run /\ clock' = clock /\ recorded' = recorded
           /\ run[r].pc = "upload"
           /\ work[r][t].pc \in {"open", "write", "list", "stat", "delete"}
           /\ work'[r][t].pc # "idle"
           /\ \A q \in Runs, u \in Targets :
                (q # r \/ u # t) => work'[q][u] = work[q][u]
           /\ \A u \in Targets : u # t => objects'[u] = objects[u] /\ stored'[u] = stored[u]
  <1> USE DEF Elsewhere, Remote, At
  <1>1. run' = run /\ clock' = clock /\ recorded' = recorded /\ run[r].pc = "upload"
    BY DEF Upload, Open, Wrote, ClosedEarly, WriteFails, StepFails, List, Stat, StatMisses, Delete
  <1>2. work[r][t].pc \in {"open", "write", "list", "stat", "delete"}
    BY DEF Upload, Open, Wrote, ClosedEarly, WriteFails, StepFails, List, Stat, StatMisses, Delete
  <1> DEFINE Moves == /\ work'[r][t].pc # "idle"
                      /\ \A q \in Runs, u \in Targets :
                           (q # r \/ u # t) => work'[q][u] = work[q][u]
  <1>3. ASSUME NEW p \in {"write", "list", "success", "failed"}, Work(r, t, p)
        PROVE  Moves
    BY <1>3 DEF Work, TypeOK, Worker
  <1>4. ASSUME Open(r, t) \/ Wrote(r, t) \/ ClosedEarly(r, t) \/ WriteFails(r, t)
        PROVE  Moves
    <2> PICK p \in {"write", "list", "success", "failed"} : Work(r, t, p)
      BY <1>4 DEF Open, Wrote, ClosedEarly, WriteFails, AfterWrite
    <2> QED BY <1>3
  <1>5. ASSUME StepFails(r, t) PROVE Moves
    BY <1>5 DEF StepFails, TypeOK
  <1>6. ASSUME List(r, t) PROVE Moves
    BY <1>6 DEF List, TypeOK
  <1>10. ASSUME Stat(r, t) PROVE Moves
    BY <1>10 DEF Stat, TypeOK
  <1>11. ASSUME StatMisses(r, t) PROVE Moves
    BY <1>11 DEF StatMisses, TypeOK
  <1>7. ASSUME Delete(r, t) PROVE Moves
    BY <1>7 DEF Delete, TypeOK
  <1>8. Moves
    BY <1>4, <1>5, <1>6, <1>7, <1>10, <1>11 DEF Upload
  <1>9. \A u \in Targets : u # t => objects'[u] = objects[u] /\ stored'[u] = stored[u]
    BY DEF Upload, Open, Wrote, ClosedEarly, WriteFails, StepFails, List, Stat, StatMisses, Delete,
           Store, Put, TypeOK
  <1> QED BY <1>1, <1>2, <1>8, <1>9

\* Steps that are no upload's leave the targets, and every goroutine that they do
\* not start or end, alone.
LEMMA OtherStep ==
    ASSUME TypeOK, Idle, Owned, [Next]_vars,
           \A r \in Runs, t \in Targets : ~Upload(r, t)
    PROVE  /\ objects' = objects /\ stored' = stored
           /\ \A q \in Runs, u \in Targets :
                \/ work'[q][u] = work[q][u]
                \/ work'[q][u] = NoWork
                \/ /\ work'[q][u] = [NoWork EXCEPT !.pc = "open"]
                   /\ u \in run[q].targets /\ run'[q].pc = "upload"
           /\ \A q \in Runs : run'[q].pc \in {"idle", "export"} =>
                \A u \in Targets : work'[q][u] = NoWork
  <1> DEFINE Goal ==
           /\ objects' = objects /\ stored' = stored
           /\ \A q \in Runs, u \in Targets :
                \/ work'[q][u] = work[q][u]
                \/ work'[q][u] = NoWork
                \/ /\ work'[q][u] = [NoWork EXCEPT !.pc = "open"]
                   /\ u \in run[q].targets /\ run'[q].pc = "upload"
           /\ \A q \in Runs : run'[q].pc \in {"idle", "export"} =>
                \A u \in Targets : work'[q][u] = NoWork
  <1> USE DEF Elsewhere, Remote, TypeOK
  <1>1. ASSUME NEW r \in Runs, Start(r) PROVE Goal
    BY <1>1 DEF Start, Owned
  <1>2. ASSUME NEW r \in Runs, Package(r) PROVE Goal
    BY <1>2 DEF Package, Go, Owned, RunState
  <1>3. ASSUME NEW r \in Runs, PackageFails(r) PROVE Goal
    BY <1>3 DEF PackageFails, Owned, RunState
  <1>4. ASSUME NEW r \in Runs, Join(r) PROVE Goal
    BY <1>4 DEF Join, Owned, RunState
  <1>5. ASSUME NEW r \in Runs, Append(r) PROVE Goal
    BY <1>5 DEF Append, Go, Owned, RunState
  <1>6. ASSUME NEW r \in Runs, Cancel(r) PROVE Goal
    BY <1>6 DEF Cancel, Owned, RunState
  <1>7. CASE Tick
    BY <1>7 DEF Tick, Owned
  <1>8. CASE Crash
    BY <1>8 DEF Crash, Active, Owned, RunState
  <1>9. CASE UNCHANGED vars
    BY <1>9 DEF vars, Owned
  <1>10. Goal
    BY <1>1, <1>2, <1>3, <1>4, <1>5, <1>6, <1>7, <1>8, <1>9 DEF Next, Progress
  <1> QED BY <1>10

LEMMA NextOwned == TypeOK /\ Idle /\ Owned /\ [Next]_vars => Owned'
  <1> SUFFICES ASSUME TypeOK, Idle, Owned, [Next]_vars PROVE Owned'
    OBVIOUS
  <1>1. ASSUME NEW r \in Runs, NEW t \in Targets, Upload(r, t) PROVE Owned'
    BY <1>1, UploadStep DEF Owned, NoWork
  <1>2. CASE \A r \in Runs, t \in Targets : ~Upload(r, t)
    BY <1>2, OtherStep, Steady DEF Owned, NoWork
  <1> QED BY <1>1, <1>2

\* Where a step takes a goroutine.
LEMMA WorkWrites ==
    ASSUME TypeOK, NEW r \in Runs, NEW t \in Targets, Upload(r, t)
    PROVE  /\ work'[r][t].pc = "write" => Open(r, t)
           /\ work'[r][t].pc = "list" => Wrote(r, t) \/ ClosedEarly(r, t)
           /\ work'[r][t].pc = "stat" => List(r, t)
           /\ work'[r][t].pc = "delete" => Stat(r, t) \/ Delete(r, t)
           /\ work'[r][t].pc = "missed" => StatMisses(r, t)
           /\ work'[r][t].pc = "success" =>
                 Wrote(r, t) \/ ClosedEarly(r, t) \/ Stat(r, t) \/ Delete(r, t)
  <1> USE DEF TypeOK, Worker
  <1>1. Wrote(r, t) \/ ClosedEarly(r, t) => work'[r][t].pc \in {"list", "success"}
    BY DEF Wrote, ClosedEarly, AfterWrite, Work
  <1>2. WriteFails(r, t) \/ StepFails(r, t) => work'[r][t].pc = "failed"
    BY DEF WriteFails, StepFails, Work
  <1>3. Stat(r, t) \/ Delete(r, t) => work'[r][t].pc \in {"delete", "success", "failed"}
    BY DEF Stat, Delete
  <1>5. /\ List(r, t) => work'[r][t].pc = "stat"
        /\ StatMisses(r, t) => work'[r][t].pc = "missed"
    BY DEF List, StatMisses
  <1>4. Open(r, t) => work'[r][t].pc = "write"
    BY DEF Open, Work
  <1> QED BY <1>1, <1>2, <1>3, <1>4, <1>5 DEF Upload

LEMMA NextShown == TypeOK /\ Idle /\ Owned /\ Shown /\ [Next]_vars => Shown'
  <1> SUFFICES ASSUME TypeOK, Idle, Owned, Shown, [Next]_vars,
                      NEW q \in Runs, NEW u \in Early, work'[q][u].pc = "write"
               PROVE  (\E x \in objects'[u] : x.by = q) \/ Other(q, u)'
    BY DEF Shown
  <1>0. u \in Targets
    OBVIOUS
  <1>1. Other(q, u) => Other(q, u)'
    BY <1>0, KeptStays
  <1>2. CASE \A r \in Runs, t \in Targets : ~Upload(r, t)
    <2>1. work[q][u].pc = "write" /\ objects' = objects
      BY <1>0, <1>2, OtherStep DEF NoWork
    <2> QED BY <2>1, <1>1 DEF Shown
  <1>3. ASSUME NEW r \in Runs, NEW t \in Targets, Upload(r, t)
        PROVE  (\E x \in objects'[u] : x.by = q) \/ Other(q, u)'
    <2>1. CASE t # u
      <3>1. work[q][u].pc = "write" /\ objects'[u] = objects[u]
        BY <1>0, <1>3, <2>1, UploadStep
      <3> QED BY <3>1, <1>1 DEF Shown
    <2>2. CASE t = u /\ r # q
      <3>1. t \in run[r].targets
        BY <1>3, UploadStep DEF Owned
      <3>2. Other(q, u)
        BY <2>2, <3>1 DEF Other
      <3> QED BY <3>2, <1>1
    <2>3. CASE t = u /\ r = q
      <3>1. Open(r, t)
        BY <1>0, <1>3, <2>3, WorkWrites
      <3>2. Made(r) \in objects'[t] /\ Made(r).by = r
        BY <3>1, <2>3 DEF Open, Put, TypeOK, Made
      <3> QED BY <3>2, <2>3
    <2> QED BY <2>1, <2>2, <2>3
  <1> QED BY <1>2, <1>3

\* An upload that returns without error has been stored, or removed by another.
LEMMA StoreKeeps ==
    ASSUME TypeOK, Shown, NEW r \in Runs, NEW t \in Targets,
           work[r][t].pc = "write", Store(r, t), run' = run
    PROVE  Kept(r, t)'
  <1>1. CASE Unlinked(r, t)
    <2>1. t \in Early /\ Other(r, t)
      BY <1>1 DEF Unlinked, Shown
    <2> QED BY <2>1 DEF Other, Kept
  <1>2. CASE ~Unlinked(r, t)
    <2>1. Made(r) \in stored'[t] /\ Made(r).by = r
      BY <1>2 DEF Store, TypeOK, Made
    <2> QED BY <2>1 DEF Kept, Stored
  <1> QED BY <1>1, <1>2

LEMMA NextEarned == TypeOK /\ Idle /\ Owned /\ Shown /\ Earned /\ [Next]_vars => Earned'
  <1> SUFFICES ASSUME TypeOK, Idle, Owned, Shown, Earned, [Next]_vars,
                      NEW q \in Runs, NEW u \in Targets
               PROVE  /\ work'[q][u].pc = "delete" => Kept(q, u)'
                      /\ work'[q][u].pc \in {"list", "stat", "missed", "success"} /\ ~run'[q].cancelled
                            => Kept(q, u)'
    BY DEF Earned
  <1> DEFINE Goal == /\ work'[q][u].pc = "delete" => Kept(q, u)'
                     /\ work'[q][u].pc \in {"list", "stat", "missed", "success"} /\ ~run'[q].cancelled
                            => Kept(q, u)'
  <1>0. /\ Kept(q, u) => Kept(q, u)'
        /\ run[q].cancelled => run'[q].cancelled
    BY KeptStays, Steady
  <1>1. CASE work'[q][u] = work[q][u]
    BY <1>0, <1>1 DEF Earned
  <1>2. CASE \A r \in Runs, t \in Targets : ~Upload(r, t)
    BY <1>1, <1>2, OtherStep DEF NoWork
  <1>3. ASSUME NEW r \in Runs, NEW t \in Targets, Upload(r, t) PROVE Goal
    <2>1. CASE q # r \/ u # t
      BY <1>1, <1>3, <2>1, UploadStep
    <2>2. CASE q = r /\ u = t
      <3>0. run' = run
        BY <1>3, UploadStep
      <3>1. CASE Wrote(r, t)
        <4>1. Kept(r, t)'
          BY <3>0, <3>1, StoreKeeps DEF Wrote, At
        <4> QED BY <2>2, <4>1
      <3>2. CASE ClosedEarly(r, t)
        <4>1. run'[r].cancelled /\ work'[r][t].pc # "delete"
          BY <3>0, <3>2 DEF ClosedEarly, AfterWrite, Work, TypeOK, Worker
        <4> QED BY <2>2, <4>1
      <3>3. CASE List(r, t) \/ Stat(r, t) \/ Delete(r, t)
        <4>1. ~run[r].cancelled /\ work[r][t].pc \in {"list", "stat", "delete"}
          BY <3>3 DEF List, Stat, Delete, At
        <4>2. Kept(r, t)
          BY <4>1 DEF Earned
        <4> QED BY <2>2, <4>2, <1>0
      <3>4. CASE StatMisses(r, t)
        <4>1. work[r][t].pc = "stat" /\ work'[r][t].pc = "missed"
          BY <3>4, WorkWrites DEF StatMisses, At, TypeOK
        <4> QED BY <2>2, <3>0, <4>1, <1>0 DEF Earned
      <3> QED BY <1>3, <2>2, <3>1, <3>2, <3>3, <3>4, WorkWrites
    <2> QED BY <2>1, <2>2
  <1> QED BY <1>2, <1>3

LEMMA NextTruthful ==
    TypeOK /\ Idle /\ Owned /\ Earned /\ Truthful /\ [Next]_vars => Truthful'
  <1> SUFFICES ASSUME TypeOK, Idle, Owned, Earned, Truthful, [Next]_vars, NEW q \in Runs
               PROVE  /\ run'[q].pc = "append" => Claim(q, run[q].status)'
                      /\ Claim(q, recorded[q])'
    BY DEF Truthful
  <1> DEFINE ClaimNext(o) ==
               ~run'[q].cancelled =>
                 /\ o = "success" =>
                       run'[q].targets # {} /\ \A t \in run'[q].targets : Kept(q, t)'
                 /\ o = "partial" => \E t \in run'[q].targets : Kept(q, t)'
             Goal == /\ run'[q].pc = "append" => ClaimNext(run'[q].status)
                     /\ ClaimNext(recorded'[q])
  \* A claim that holds goes on holding.
  <1>1. ASSUME NEW o, Claim(q, o), run[q].pc # "idle" PROVE ClaimNext(o)
    <2>1. /\ run'[q].targets = run[q].targets
          /\ run[q].targets \subseteq Targets
          /\ run[q].cancelled => run'[q].cancelled
      BY <1>1, Steady DEF TypeOK, RunState
    <2>2. \A t \in run[q].targets : Kept(q, t) => Kept(q, t)'
      BY <2>1, KeptStays
    <2> QED BY <1>1, <2>1, <2>2 DEF Claim
  <1>2. ClaimNext("none")
    OBVIOUS
  \* Most steps neither end a run's uploads nor write its record.
  <1>3. ASSUME recorded'[q] = recorded[q],
               run'[q].pc = "append" => run[q].pc = "append" /\ run'[q].status = run[q].status
        PROVE  Goal
    <2>1. CASE run[q].pc = "idle"
      <3>1. recorded[q] = "none"
        BY <2>1 DEF Idle, TypeOK
      <3> QED BY <1>2, <1>3, <2>1, <3>1
    <2>2. CASE run[q].pc # "idle"
      <3>1. ClaimNext(recorded[q])
        BY <1>1, <2>2 DEF Truthful
      <3>2. run[q].pc = "append" => ClaimNext(run[q].status)
        BY <1>1, <2>2 DEF Truthful
      <3> QED BY <1>3, <3>1, <3>2
    <2> QED BY <2>1, <2>2
  <1> HIDE DEF ClaimNext
  <1> USE DEF TypeOK, RunState, Elsewhere
  <1>4. ASSUME NEW r \in Runs, Start(r) PROVE Goal
    BY <1>3, <1>4 DEF Start, NoRun
  <1>5. ASSUME NEW r \in Runs, Package(r) PROVE Goal
    BY <1>3, <1>5 DEF Package, Go
  <1>6. ASSUME NEW r \in Runs, PackageFails(r) PROVE Goal
    <2>1. CASE q # r
      BY <1>3, <1>6, <2>1 DEF PackageFails
    <2>2. CASE q = r
      <3>1. run'[q].status = "failed" /\ recorded'[q] = "none"
        BY <1>6, <2>2 DEF PackageFails, Idle
      <3> QED BY <3>1 DEF ClaimNext
    <2> QED BY <2>1, <2>2
  <1>7. ASSUME NEW r \in Runs, Cancel(r) PROVE Goal
    BY <1>3, <1>7 DEF Cancel
  <1>8. ASSUME NEW r \in Runs, Join(r) PROVE Goal
    <2>1. CASE q # r
      BY <1>3, <1>8, <2>1 DEF Join
    <2>2. CASE q = r
      <3>1. /\ run[q].pc = "upload" /\ run'[q].status = Outcome(q)
            /\ recorded'[q] = "none"
        BY <1>8, <2>2 DEF Join, Idle
      <3>2. Claim(q, Outcome(q))
        BY DEF Claim, Outcome, Failures, Result, Earned
      <3>3. ClaimNext(Outcome(q))
        BY <1>1, <3>1, <3>2
      <3> QED BY <1>2, <3>1, <3>3
    <2> QED BY <2>1, <2>2
  <1>9. ASSUME NEW r \in Runs, Append(r) PROVE Goal
    <2>1. CASE q # r
      BY <1>3, <1>9, <2>1 DEF Append, Go
    <2>2. CASE q = r
      <3>1. /\ run[q].pc = "append" /\ run'[q].pc = "done"
            /\ recorded'[q] \in {run[q].status, recorded[q]}
        BY <1>9, <2>2 DEF Append, Go
      <3>2. ClaimNext(run[q].status)
        BY <1>1, <3>1 DEF Truthful
      <3>3. ClaimNext(recorded[q])
        BY <1>1, <3>1 DEF Truthful
      <3> QED BY <3>1, <3>2, <3>3
    <2> QED BY <2>1, <2>2
  <1>10. ASSUME NEW r \in Runs, NEW t \in Targets, Upload(r, t) PROVE Goal
    BY <1>3, <1>10, UploadStep
  <1>11. ASSUME Tick PROVE Goal
    BY <1>3, <1>11 DEF Tick
  <1>12. ASSUME Crash PROVE Goal
    BY <1>3, <1>12 DEF Crash, Active
  <1>13. ASSUME UNCHANGED vars PROVE Goal
    BY <1>3, <1>13 DEF vars
  <1>14. Goal
    BY <1>4, <1>5, <1>6, <1>7, <1>8, <1>9, <1>10, <1>11, <1>12, <1>13
       DEF Next, Progress
  <1> QED BY <1>14 DEF Claim, ClaimNext

(* A deleting run stored its own object, and the history tells the truth:   *)
(* what the runs check on small instances, for any number of runs, targets  *)
(* and policies.                                                            *)
RunInv == TypeOK /\ Idle /\ Owned /\ Shown /\ Earned /\ Truthful

LEMMA RunInvHolds == Spec => []RunInv
  <1>1. Init => RunInv
    BY InitTypeOK, InitIdle DEF RunInv
  <1>2. RunInv /\ [Next]_vars => RunInv'
    BY NextTypeOK, NextIdle, NextOwned, NextShown, NextEarned, NextTruthful DEF RunInv
  <1> QED BY <1>1, <1>2, PTL DEF Spec

\* No run deletes on a target where it has not stored its own backup.
THEOREM DeletesOnlyAfterStoringHolds == Spec => []DeletesOnlyAfterStoring
  <1>1. RunInv => DeletesOnlyAfterStoring
    BY DEF RunInv, Earned, DeletesOnlyAfterStoring, At
  <1> QED BY RunInvHolds, <1>1, PTL

\* A run that was not cancelled is recorded as what it is.
THEOREM RecordIsTrueHolds == Spec => []RecordIsTrue
  <1>1. RunInv => RecordIsTrue
    BY DEF RunInv, Truthful, Claim, RecordIsTrue, SuccessIsTrue
  <1> QED BY RunInvHolds, <1>1, PTL

----------------------------------------------------------------------------
(* What retention removes.                                                  *)

\* A run stores one object on a target, which has the run's name.
Single ==
    \A t \in Targets :
        /\ IsFiniteSet(stored[t])
        /\ \A x \in stored[t] :
              /\ x.name = run[x.by].started
              /\ run[x.by].pc \notin {"idle", "export"}
              /\ work[x.by][t].pc \notin {"open", "write"}
        /\ \A x, y \in stored[t] : x.by = y.by => x = y

\* Where incomplete objects are not seen: the directory holds only what has been
\* stored, the policies have done with what is being deleted, and with what is gone.
Gone(t) ==
    \A x \in stored[t] \ objects[t] :
        \E r \in Runs : run[r].started > 0 /\ Superseded(t, x, run[r].retention)

Trimmed ==
    \A t \in Targets \ Early :
        /\ objects[t] \subseteq stored[t]
        /\ \A r \in Runs : \A x \in work[r][t].files :
              /\ x \in stored[t]
              /\ work[r][t].pc # "stat" => Superseded(t, x, run[r].retention)
        /\ NamesDiffer => Gone(t)

LEMMA InitSingle == Init => Single /\ Trimmed
  BY FS_EmptySet DEF Init, Single, Trimmed, Gone, NoWork

\* More objects, more newer ones.
LEMMA NewerMore ==
    ASSUME NEW S, NEW T, S \subseteq T, IsFiniteSet(T), NEW x
    PROVE  /\ NewerIn(S, x) \in Nat /\ NewerIn(T, x) \in Nat
           /\ NewerIn(S, x) <= NewerIn(T, x)
  <1> DEFINE A == {y \in S : Newer(y, x)}
             B == {y \in T : Newer(y, x)}
  <1>1. IsFiniteSet(B)
    BY FS_Subset
  <1>2. A \subseteq B
    OBVIOUS
  <1>3. IsFiniteSet(A) /\ Cardinality(A) <= Cardinality(B)
    BY <1>1, <1>2, FS_Subset
  <1>4. Cardinality(A) \in Nat /\ Cardinality(B) \in Nat
    BY <1>1, <1>3, FS_CardinalityType
  <1> QED BY <1>3, <1>4 DEF NewerIn

LEMMA NextSingle == TypeOK /\ Idle /\ Owned /\ Single /\ [Next]_vars => Single'
  <1> SUFFICES ASSUME TypeOK, Idle, Owned, Single, [Next]_vars, NEW u \in Targets
               PROVE  /\ IsFiniteSet(stored'[u])
                      /\ \A x \in stored'[u] :
                            /\ x.name = run'[x.by].started
                            /\ run'[x.by].pc \notin {"idle", "export"}
                            /\ work'[x.by][u].pc \notin {"open", "write"}
                      /\ \A x, y \in stored'[u] : x.by = y.by => x = y
    BY DEF Single
  <1> DEFINE Goal == /\ IsFiniteSet(stored'[u])
                     /\ \A x \in stored'[u] :
                            /\ x.name = run'[x.by].started
                            /\ run'[x.by].pc \notin {"idle", "export"}
                            /\ work'[x.by][u].pc \notin {"open", "write"}
                     /\ \A x, y \in stored'[u] : x.by = y.by => x = y
  <1>0. \A x \in stored[u] : x.by \in Runs
    BY DEF TypeOK, Object
  <1>1. ASSUME NEW r \in Runs, NEW t \in Targets, Upload(r, t) PROVE Goal
    <2>0. run' = run
      BY <1>1, UploadStep
    <2>1. CASE t # u
      BY <1>0, <1>1, <2>0, <2>1, UploadStep DEF Single
    <2>2. CASE t = u /\ stored' = stored
      <3>1. work'[r][t].pc = "write" => work[r][t].pc = "open"
        BY <1>1, WorkWrites DEF Open, At
      <3>2. work'[r][t].pc # "open"
        BY <1>1 DEF Upload, Open, Wrote, ClosedEarly, WriteFails, StepFails, List,
                    Stat, StatMisses, Delete, Work, AfterWrite, TypeOK, Worker
      <3> QED BY <1>0, <1>1, <2>0, <2>2, <3>1, <3>2, UploadStep DEF Single
    <2>3. CASE t = u /\ stored' # stored
      <3>1. /\ Wrote(r, t) \/ WriteFails(r, t)
            /\ Store(r, t) /\ work[r][t].pc = "write" /\ run[r].pc = "upload"
        BY <1>1, <2>3 DEF Upload, Open, Wrote, ClosedEarly, WriteFails, StepFails, List,
                          Stat, StatMisses, Delete, Remote, At
      <3>2. stored'[u] = stored[u] \cup {Made(r)}
        BY <2>3, <3>1 DEF Store, Remote, TypeOK
      <3>3. \A x \in stored[u] : x.by # r
        BY <2>3, <3>1 DEF Single
      <3>4. Made(r).by = r /\ Made(r).name = run[r].started
        BY DEF Made
      <3>5. work'[r][u].pc \notin {"open", "write"}
        BY <2>3, <3>1 DEF Wrote, WriteFails, Work, AfterWrite, TypeOK, Worker
      <3>6. IsFiniteSet(stored'[u])
        <4>1. IsFiniteSet(stored[u])
          BY DEF Single
        <4> QED BY <3>2, <4>1, FS_AddElement
      <3>7. \A q \in Runs : q # r => work'[q][u] = work[q][u]
        BY <1>1, UploadStep
      <3> QED BY <1>0, <2>0, <3>1, <3>2, <3>3, <3>4, <3>5, <3>6, <3>7 DEF Single
    <2> QED BY <2>1, <2>2, <2>3
  <1>2. ASSUME \A r \in Runs, t \in Targets : ~Upload(r, t) PROVE Goal
    <2>1. stored' = stored
      BY <1>2, OtherStep
    <2>2. ASSUME NEW r \in Runs, run[r].pc \notin {"idle", "export"},
                 work[r][u].pc \notin {"open", "write"}
          PROVE  /\ run'[r].started = run[r].started
                 /\ run'[r].pc \notin {"idle", "export"}
                 /\ work'[r][u].pc \notin {"open", "write"}
      <3>1. run'[r].started = run[r].started
        BY <2>2, Steady
      <3> USE DEF TypeOK, RunState, Elsewhere
      <3>2. CASE \E q \in Runs : Start(q)
        BY <2>2, <3>1, <3>2 DEF Start
      <3>3. CASE \E q \in Runs : Package(q)
        BY <2>2, <3>1, <3>3 DEF Package, Go
      <3>4. CASE \E q \in Runs : PackageFails(q)
        BY <2>2, <3>1, <3>4 DEF PackageFails
      <3>8. CASE \E q \in Runs : Cancel(q)
        BY <2>2, <3>1, <3>8 DEF Cancel
      <3>9. CASE \E q \in Runs : Join(q)
        BY <2>2, <3>1, <3>9 DEF Join
      <3>5. CASE \E q \in Runs : Append(q)
        BY <2>2, <3>1, <3>5 DEF Append, Go
      <3>6. CASE Tick \/ UNCHANGED vars
        BY <2>2, <3>1, <3>6 DEF Tick, vars
      <3>7. CASE Crash
        BY <2>2, <3>1, <3>7 DEF Crash, NoWork
      <3> QED BY <1>2, <3>2, <3>3, <3>4, <3>5, <3>6, <3>7, <3>8, <3>9 DEF Next, Progress
    <2> QED BY <1>0, <2>1, <2>2 DEF Single
  <1> QED BY <1>1, <1>2

\* What a policy has done with, it goes on having done with.
LEMMA SupersededStays ==
    ASSUME TypeOK, Idle, [Next]_vars, NEW t \in Targets, NEW x \in Object,
           IsFiniteSet(stored'[t]), NEW r \in Runs, run[r].pc # "idle",
           Superseded(t, x, run[r].retention)
    PROVE  Superseded(t, x, run[r].retention)'
  <1>1. /\ run'[r].retention = run[r].retention
        /\ stored[t] \subseteq stored'[t] /\ clock' >= clock
    BY Steady
  <1>2. /\ NewerIn(stored[t], x) \in Nat /\ NewerIn(stored'[t], x) \in Nat
        /\ NewerIn(stored[t], x) <= NewerIn(stored'[t], x)
    BY <1>1, NewerMore
  <1>3. run[r].retention.n \in Nat /\ x.mod \in Nat /\ clock \in Nat /\ clock' \in Nat
    BY NextTypeOK DEF TypeOK, RunState, Retention, Object
  <1>4. NewerIn(stored[t], x)' = NewerIn(stored'[t], x)
    BY DEF NewerIn, Newer
  <1> QED BY <1>1, <1>2, <1>3, <1>4 DEF Superseded

\* Two runs that have started in one second have done so for good.
LEMMA NamesDifferBefore ==
    ASSUME TypeOK, Idle, [Next]_vars, NamesDiffer'
    PROVE  NamesDiffer
  <1>1. \A r \in Runs : run[r].started > 0 =>
            run'[r].started = run[r].started
    <2> SUFFICES ASSUME NEW r \in Runs, run[r].started > 0
                 PROVE  run'[r].started = run[r].started
      OBVIOUS
    <2>1. run[r].pc # "idle"
      BY DEF Idle, NoRun
    <2> QED BY <2>1, Steady
  <1> QED BY <1>1 DEF NamesDiffer, TypeOK

\* With names that differ, an object stands for its run.
LEMMA SameName ==
    ASSUME TypeOK, Idle, Single, NamesDiffer, NEW t \in Targets,
           NEW x \in stored[t], NEW r \in Runs, x.name = run[r].started
    PROVE  x.by = r
  <1>1. x.by \in Runs /\ run[x.by].pc # "idle" /\ x.name = run[x.by].started
    BY DEF Single, TypeOK, Object
  <1>2. run[x.by].started > 0
    BY <1>1 DEF Idle
  <1> QED BY <1>1, <1>2 DEF NamesDiffer

\* What a policy cuts from an old listing it has done with, by all that is stored.
LEMMA CutIsSuperseded ==
    ASSUME TypeOK, Single, NEW t \in Targets, NEW S, S \subseteq stored[t],
           NEW r \in Runs, NEW x \in Cut(S, run[r].retention)
    PROVE  x \in stored[t] /\ Superseded(t, x, run[r].retention)
  <1>1. x \in stored[t]
    BY CutType
  <1>2. /\ NewerIn(S, x) \in Nat /\ NewerIn(stored[t], x) \in Nat
        /\ NewerIn(S, x) <= NewerIn(stored[t], x)
    BY NewerMore DEF Single
  <1>3. run[r].retention.n \in Nat
    BY DEF TypeOK, RunState, Retention
  <1> QED BY <1>1, <1>2, <1>3 DEF Cut, Superseded

LEMMA WorkCut ==
    ASSUME TypeOK, NEW r \in Runs, NEW t \in Targets, NEW p, Work(r, t, p)
    PROVE  work'[r][t].files = work[r][t].files
  <1>1. work' = [work EXCEPT ![r] = [work[r] EXCEPT ![t] = [work[r][t] EXCEPT !.pc = p]]]
    BY DEF Work
  <1>2. work[r][t] \in Worker
    BY DEF TypeOK
  <1>3. work'[r][t] = [work[r][t] EXCEPT !.pc = p]
    BY <1>1 DEF TypeOK
  <1> QED BY <1>2, <1>3 DEF Worker

LEMMA NextTrimmed ==
    TypeOK /\ Idle /\ Owned /\ Single /\ Trimmed /\ [Next]_vars => Trimmed'
  <1> SUFFICES ASSUME TypeOK, Idle, Owned, Single, Trimmed, [Next]_vars,
                      NEW u \in Targets \ Early
               PROVE  /\ objects'[u] \subseteq stored'[u]
                      /\ \A r \in Runs : \A x \in work'[r][u].files :
                            /\ x \in stored'[u]
                            /\ work'[r][u].pc # "stat" => Superseded(u, x, run[r].retention)'
                      /\ NamesDiffer' => Gone(u)'
    BY DEF Trimmed
  <1> DEFINE Goal == /\ objects'[u] \subseteq stored'[u]
                     /\ \A r \in Runs : \A x \in work'[r][u].files :
                            /\ x \in stored'[u]
                            /\ work'[r][u].pc # "stat" => Superseded(u, x, run[r].retention)'
                     /\ NamesDiffer' => Gone(u)'
  <1>0. Single' /\ TypeOK'
    BY NextSingle, NextTypeOK
  <1>1. IsFiniteSet(stored'[u]) /\ stored[u] \subseteq stored'[u] /\ stored[u] \subseteq Object
    BY <1>0, Steady DEF Single, TypeOK
  \* What was listed, or being deleted, still may be.
  <1>2. ASSUME NEW r \in Runs, NEW x \in work[r][u].files
        PROVE  /\ x \in stored'[u]
               /\ work[r][u].pc # "stat" => Superseded(u, x, run[r].retention)'
    <2>1. /\ x \in stored[u]
          /\ work[r][u].pc # "stat" => Superseded(u, x, run[r].retention)
      BY DEF Trimmed
    <2>2. run[r].pc # "idle"
      BY <1>2 DEF Owned, NoWork
    <2> QED BY <1>1, <2>1, <2>2, SupersededStays
  \* What was gone is gone for as good a reason.
  <1>3. ASSUME NEW x \in stored[u] \ objects[u], NamesDiffer'
        PROVE  \E r \in Runs : run'[r].started > 0 /\ Superseded(u, x, run[r].retention)'
    <2>1. NamesDiffer
      BY <1>3, NamesDifferBefore
    <2>2. PICK r \in Runs : run[r].started > 0 /\ Superseded(u, x, run[r].retention)
      BY <2>1 DEF Trimmed, Gone
    <2>3. run[r].pc # "idle"
      BY <2>2 DEF Idle, NoRun
    <2>4. run'[r].started > 0
      BY <2>2, <2>3, Steady
    <2> QED BY <1>1, <2>2, <2>3, <2>4, SupersededStays
  <1>4. ASSUME stored'[u] \ objects'[u] \subseteq stored[u] \ objects[u]
        PROVE  NamesDiffer' => Gone(u)'
    BY <1>3, <1>4 DEF Gone
  <1>5. ASSUME \A r \in Runs, t \in Targets : ~Upload(r, t) PROVE Goal
    <2>1. /\ objects' = objects /\ stored' = stored
          /\ \A r \in Runs : work'[r][u].files = {} \/ work'[r][u] = work[r][u]
      BY <1>5, OtherStep DEF NoWork
    <2> QED BY <1>2, <1>4, <2>1 DEF Trimmed
  <1>6. ASSUME NEW r \in Runs, NEW t \in Targets, Upload(r, t), t # u PROVE Goal
    <2>1. /\ objects'[u] = objects[u] /\ stored'[u] = stored[u]
          /\ \A q \in Runs : work'[q][u] = work[q][u]
      BY <1>6, UploadStep
    <2> QED BY <1>2, <1>4, <2>1 DEF Trimmed
  <1>7. ASSUME NEW r \in Runs, Upload(r, u) PROVE Goal
    <2>0. \A q \in Runs : q # r => work'[q][u] = work[q][u]
      BY <1>7, UploadStep
    \* Most steps delete nothing and list nothing.
    <2>1. ASSUME \/ work'[r][u].files = {}
                 \/ work'[r][u].files \subseteq work[r][u].files /\ work[r][u].pc # "stat",
                 objects'[u] = objects[u], stored'[u] = stored[u]
          PROVE  Goal
      <3>1. NamesDiffer' => Gone(u)'
        BY <1>4, <2>1
      <3>2. objects'[u] \subseteq stored'[u]
        BY <2>1 DEF Trimmed
      <3>3. ASSUME NEW q \in Runs, NEW x \in work'[q][u].files
            PROVE  /\ x \in stored'[u]
                   /\ work'[q][u].pc # "stat" => Superseded(u, x, run[q].retention)'
        BY <1>2, <2>0, <2>1, <3>3
      <3> QED BY <3>1, <3>2, <3>3
    <2>2. CASE Open(r, u) \/ ClosedEarly(r, u) \/ StepFails(r, u) \/ StatMisses(r, u)
      <3>1. objects' = objects /\ stored' = stored
        BY <2>2 DEF Open, ClosedEarly, StepFails, StatMisses, Remote
      <3>2. CASE Open(r, u) \/ ClosedEarly(r, u)
        <4>1. work'[r][u].files = work[r][u].files
          BY <3>2, WorkCut DEF Open, ClosedEarly
        <4>2. work[r][u].pc # "stat"
          BY <3>2 DEF Open, ClosedEarly, At
        <4> QED BY <2>1, <3>1, <4>1, <4>2
      <3>3. CASE StepFails(r, u) \/ StatMisses(r, u)
        <4>1. work'[r][u].files = {}
          BY <3>3 DEF StepFails, StatMisses, TypeOK
        <4> QED BY <2>1, <3>1, <4>1
      <3> QED BY <2>2, <3>2, <3>3
    <2>3. CASE Wrote(r, u) \/ WriteFails(r, u)
      <3>1. work'[r][u].files \subseteq work[r][u].files /\ run[r].pc = "upload"
            /\ work[r][u].pc = "write"
        BY <2>3, WorkCut DEF Wrote, WriteFails, At
      <3>2. CASE UNCHANGED Remote
        BY <2>1, <3>1, <3>2 DEF Remote
      <3>3. CASE Put(r, u) /\ stored'[u] = stored[u] \cup {Made(r)}
        <4>1. objects'[u] = {x \in objects[u] : x.name # run[r].started} \cup {Made(r)}
          BY <3>3 DEF Put, TypeOK
        <4>2. ASSUME NamesDiffer'
              PROVE  stored'[u] \ objects'[u] \subseteq stored[u] \ objects[u]
          <5>1. \A x \in stored[u] : x.by # r
            BY <3>1 DEF Single
          <5>2. \A x \in stored[u] : x.name # run[r].started
            BY <4>2, <5>1, NamesDifferBefore, SameName
          <5> QED BY <3>3, <4>1, <5>2
        <4>3. NamesDiffer' => Gone(u)'
          BY <1>4, <4>2
        <4> QED BY <1>2, <2>0, <3>1, <3>3, <4>1, <4>3 DEF Trimmed
      <3>4. Store(r, u) \/ UNCHANGED Remote
        BY <2>3 DEF Wrote, WriteFails
      <3> QED BY <3>2, <3>3, <3>4 DEF Store, TypeOK
    <2>4. CASE List(r, u)
      <3>1. /\ work'[r][u] = [pc |-> "stat", files |-> objects[u]]
            /\ objects' = objects /\ stored' = stored
        BY <2>4 DEF List, Remote, TypeOK
      <3>2. NamesDiffer' => Gone(u)'
        BY <1>4, <3>1
      <3> QED BY <1>2, <2>0, <3>1, <3>2 DEF Trimmed
    <2>6. CASE Stat(r, u)
      <3>1. /\ work'[r][u].files = Cut(work[r][u].files, run[r].retention)
            /\ objects' = objects /\ stored' = stored
        BY <2>6 DEF Stat, Remote, TypeOK
      <3>2. ASSUME NEW x \in work'[r][u].files
            PROVE  x \in stored'[u] /\ Superseded(u, x, run[r].retention)'
        <4>0. work[r][u].files \subseteq stored[u]
          BY DEF Trimmed
        <4>1. x \in stored[u] /\ Superseded(u, x, run[r].retention)
          BY <3>1, <3>2, <4>0, CutIsSuperseded
        <4>2. run[r].pc # "idle"
          BY <2>6 DEF Stat, At
        <4> QED BY <1>1, <4>1, <4>2, SupersededStays
      <3>3. NamesDiffer' => Gone(u)'
        BY <1>4, <3>1
      <3>4. objects'[u] \subseteq stored'[u]
        BY <3>1 DEF Trimmed
      <3> QED BY <1>2, <2>0, <3>2, <3>3, <3>4
    <2>5. CASE Delete(r, u)
      <3>1. PICK x \in work[r][u].files :
              /\ objects' = [objects EXCEPT ![u] = {y \in @ : y.name # x.name}]
              /\ LET left == work[r][u].files \ {x} IN
                  \E w \in {[pc |-> IF left = {} THEN "success" ELSE "delete", files |-> left],
                            [pc |-> "failed", files |-> {}]} :
                      work' = [work EXCEPT ![r][u] = w]
        BY <2>5 DEF Delete
      <3>2. /\ work'[r][u].files \subseteq work[r][u].files /\ stored' = stored
            /\ objects'[u] = {y \in objects[u] : y.name # x.name}
            /\ run' = run /\ run[r].pc # "idle" /\ work[r][u].pc = "delete"
        BY <2>5, <3>1 DEF Delete, TypeOK, At
      <3>3. x \in stored[u] /\ x.name = run[x.by].started /\ x.by \in Runs
        BY <3>1 DEF Trimmed, Single, TypeOK, Object
      <3>4. ASSUME NamesDiffer', NEW y \in objects[u], y.name = x.name
            PROVE  y = x
        <4>1. y \in stored[u]
          BY DEF Trimmed
        <4>2. y.by = x.by
          BY <3>3, <3>4, <4>1, NamesDifferBefore, SameName
        <4> QED BY <3>3, <4>1, <4>2 DEF Single
      <3>5. run'[r].started > 0
        BY <3>2 DEF Idle
      <3>6. NamesDiffer' => Gone(u)'
        <4> SUFFICES ASSUME NamesDiffer', NEW y \in stored'[u] \ objects'[u]
                     PROVE  \E q \in Runs : run'[q].started > 0
                                              /\ Superseded(u, y, run[q].retention)'
          BY DEF Gone
        <4>1. CASE y \in objects[u]
          <5>1. y = x
            BY <3>2, <3>4, <4>1
          <5> QED BY <1>2, <3>1, <3>2, <3>5, <5>1
        <4>2. CASE y \notin objects[u]
          BY <1>3, <3>2, <4>2
        <4> QED BY <4>1, <4>2
      <3> QED BY <1>2, <2>0, <3>2, <3>6 DEF Trimmed
    <2> QED BY <1>7, <2>2, <2>3, <2>4, <2>5, <2>6 DEF Upload
  <1>8. Goal
    BY <1>5, <1>6, <1>7
  <1> QED BY <1>8

\* Where incomplete objects cannot be seen, and as long as no two runs have one
\* name, concurrent runs remove only what some run's policy has done with.
THEOREM OnlySupersededAreGoneHolds == Spec => []OnlySupersededAreGone
  <1> DEFINE I == TypeOK /\ Idle /\ Owned /\ Single /\ Trimmed
  <1>1. Init => I
    BY InitTypeOK, InitIdle, InitSingle
  <1>2. I /\ [Next]_vars => I'
    BY NextTypeOK, NextIdle, NextOwned, NextSingle, NextTrimmed
  <1>3. I => OnlySupersededAreGone
    BY DEF Trimmed, Gone, OnlySupersededAreGone
  <1> QED BY <1>1, <1>2, <1>3, PTL DEF Spec

----------------------------------------------------------------------------
(* What retention leaves.                                                   *)

OneName(S) == \A x, y \in S : x.name = y.name => x = y

\* A run that has yet to list the directory.
ToList(r, t) ==
    /\ t \in run[r].targets
    /\ \/ run[r].pc = "export"
       \/ run[r].pc = "upload" /\ work[r][t].pc \in {"open", "write", "list"}

\* A run that is not, or will not be, a success of keep_last on t.
Fails(r, t) ==
    /\ t \in run[r].targets
    /\ \/ run[r].retention.mode # "keep_last"
       \/ run[r].pc = "upload" /\ work[r][t].pc \in {"missed", "failed"}
       \/ run[r].pc \in {"append", "done", "lost"} /\ work[r][t].pc # "success"

\* A run that has seen all there is, and is leaving no more than it is to.
Trims(r, t) ==
    LET files == work[r][t].files
    IN  /\ t \in run[r].targets /\ run[r].retention.mode = "keep_last"
        /\ \/ /\ work[r][t].pc = "stat"
              /\ IsFiniteSet(files) /\ OneName(files) /\ objects[t] \subseteq files
           \/ /\ work[r][t].pc \in {"delete", "success"}
              /\ work[r][t].pc = "success" => files = {}
              /\ Cardinality(objects[t] \ files) <= run[r].retention.n

\* One of the runs on t: the one that has listed last, unless there is a run that
\* will, or that has not succeeded.
SeesTo(r, t) == ToList(r, t) \/ Fails(r, t) \/ Trims(r, t)

Trimming ==
    \A t \in Targets :
        /\ IsFiniteSet(objects[t]) /\ OneName(objects[t])
        /\ objects[t] # {} => \E r \in Runs : SeesTo(r, t)

LEMMA InitTrimming == Init => Trimming
  BY FS_EmptySet DEF Init, Trimming, OneName

\* Of objects with names of their own, one of two is newer, and has fewer before it.
LEMMA NewerOrder ==
    ASSUME NEW S \in SUBSET Object, IsFiniteSet(S), OneName(S),
           NEW x \in S, NEW y \in S, x # y
    PROVE  NewerIn(S, x) # NewerIn(S, y)
  <1>1. ASSUME NEW a \in S, NEW b \in S, Newer(a, b)
        PROVE  NewerIn(S, a) < NewerIn(S, b)
    <2> DEFINE A == {z \in S : Newer(z, a)}
               B == {z \in S : Newer(z, b)}
    <2>1. \A z \in S : z.mod \in Nat /\ z.name \in Nat
      BY DEF Object
    <2>2. A \subseteq B
      BY <1>1, <2>1 DEF Newer
    <2>3. a \in B /\ a \notin A
      BY <1>1, <2>1 DEF Newer
    <2>4. IsFiniteSet(A) /\ IsFiniteSet(B)
      BY FS_Subset
    <2>5. Cardinality(A \cup {a}) = Cardinality(A) + 1
      BY <2>3, <2>4, FS_AddElement
    <2>6. Cardinality(A \cup {a}) <= Cardinality(B)
      BY <2>2, <2>3, <2>4, FS_Subset
    <2>7. Cardinality(A) \in Nat /\ Cardinality(B) \in Nat
      BY <2>4, FS_CardinalityType
    <2> QED BY <2>5, <2>6, <2>7 DEF NewerIn
  <1>2. Newer(x, y) \/ Newer(y, x)
    BY DEF Newer, OneName, Object
  <1>3. NewerIn(S, x) \in Nat /\ NewerIn(S, y) \in Nat
    BY NewerMore
  <1> QED BY <1>1, <1>2, <1>3

\* keep_last leaves no more of a listing than it is to.
LEMMA CutLeaves ==
    ASSUME NEW S \in SUBSET Object, IsFiniteSet(S), OneName(S),
           NEW p \in Retention, p.mode = "keep_last",
           NEW L, L \subseteq S \ Cut(S, p)
    PROVE  Cardinality(L) <= p.n
  <1> DEFINE f == [x \in L |-> NewerIn(S, x)]
  <1>1. p.n \in Nat
    BY DEF Retention
  <1>2. \A x \in L : NewerIn(S, x) \in 0..(p.n - 1)
    <2> SUFFICES ASSUME NEW x \in L PROVE NewerIn(S, x) \in 0..(p.n - 1)
      OBVIOUS
    <2>1. NewerIn(S, x) \in Nat
      BY NewerMore
    <2>2. ~(NewerIn(S, x) >= p.n)
      BY DEF Cut
    <2> QED BY <1>1, <2>1, <2>2
  <1>3. f \in Injection(L, 0..(p.n - 1))
    BY <1>2, NewerOrder DEF Injection, IsInjective
  <1>4. IsFiniteSet(0..(p.n - 1)) /\ Cardinality(0..(p.n - 1)) = p.n
    <2> DEFINE m == p.n - 1
    <2>1. m \in Int /\ 0 \in Int /\ (0 > m => p.n = 0) /\ m - 0 + 1 = p.n
      BY <1>1
    <2> HIDE DEF m
    <2>2. IsFiniteSet(0..m) /\ Cardinality(0..m) = IF 0 > m THEN 0 ELSE m - 0 + 1
      BY <2>1, FS_Interval
    <2>3. IsFiniteSet(0..m) /\ Cardinality(0..m) = p.n
      BY <2>1, <2>2
    <2> QED BY <2>3 DEF m
  <1> QED BY <1>3, <1>4, FS_Injection

\* Less in a directory is no more to trim.
LEMMA FewerLeft ==
    ASSUME NEW A, NEW B, IsFiniteSet(B), A \subseteq B, NEW n \in Nat, Cardinality(B) <= n
    PROVE  IsFiniteSet(A) /\ Cardinality(A) <= n
  BY FS_Subset, FS_CardinalityType

\* The directory after a step of a run.
LEMMA NextNames ==
    ASSUME TypeOK, Trimming, NEW r \in Runs, NEW t \in Targets, Upload(r, t)
    PROVE  IsFiniteSet(objects'[t]) /\ OneName(objects'[t])
  <1>1. IsFiniteSet(objects[t]) /\ OneName(objects[t])
    BY DEF Trimming
  <1>2. CASE objects' = objects
    BY <1>1, <1>2
  <1>3. CASE Put(r, t)
    <2>1. objects'[t] = {x \in objects[t] : x.name # run[r].started} \cup {Made(r)}
      BY <1>3 DEF Put, TypeOK
    <2>2. IsFiniteSet({x \in objects[t] : x.name # run[r].started})
      BY <1>1, FS_Subset
    <2>3. IsFiniteSet(objects'[t])
      BY <2>1, <2>2, FS_AddElement
    <2>4. Made(r).name = run[r].started
      BY DEF Made
    <2> QED BY <1>1, <2>1, <2>3, <2>4 DEF OneName
  <1>4. CASE Delete(r, t)
    <2>1. objects'[t] \subseteq objects[t]
      BY <1>4 DEF Delete, TypeOK
    <2> QED BY <1>1, <2>1, FS_Subset DEF OneName
  <1> QED
    BY <1>2, <1>3, <1>4 DEF Upload, Open, Wrote, ClosedEarly, WriteFails, StepFails, List,
       Stat, StatMisses, Store, Remote

\* The run that takes the step sees to the directory, or did not before.
LEMMA StepSees ==
    ASSUME TypeOK, Trimming, NEW r \in Runs, NEW t \in Targets, Upload(r, t),
           t \in run[r].targets,
           \/ SeesTo(r, t)
           \/ work'[r][t].pc \notin {"success", "delete"}
           \/ run[r].retention.mode # "keep_last"
    PROVE  SeesTo(r, t)'
  <1> USE DEF At
  <1>0. /\ run' = run /\ run[r].pc = "upload" /\ t \in run'[r].targets
        /\ work[r][t] \in Worker /\ objects[t] \in SUBSET Object
        /\ run[r].retention \in Retention
    BY UploadStep DEF TypeOK, RunState
  <1>1. CASE run[r].retention.mode # "keep_last"
    BY <1>0, <1>1 DEF SeesTo, Fails
  <1>2. CASE work'[r][t].pc \in {"open", "write", "list"}
    BY <1>0, <1>2 DEF SeesTo, ToList
  <1>3. CASE work'[r][t].pc \in {"failed", "missed"}
    BY <1>0, <1>3 DEF SeesTo, Fails
  <1> SUFFICES ASSUME run[r].retention.mode = "keep_last",
                      work'[r][t].pc \in {"stat", "delete", "success"}
               PROVE  SeesTo(r, t)'
    <2>1. TypeOK'
      BY NextTypeOK DEF Next
    <2>2. work'[r][t].pc \in Points /\ work'[r][t].pc # "idle"
      BY <2>1, UploadStep DEF TypeOK, Worker
    <2> QED BY <1>1, <1>2, <1>3, <2>2 DEF Points
  <1>4. CASE List(r, t)
    <2>1. /\ work'[r][t] = [pc |-> "stat", files |-> objects[t]]
          /\ objects' = objects
      BY <1>4 DEF List, Remote, TypeOK
    <2>2. IsFiniteSet(objects[t]) /\ OneName(objects[t])
      BY DEF Trimming
    <2> QED BY <1>0, <2>1, <2>2 DEF SeesTo, Trims
  <1>5. CASE Stat(r, t)
    <2> DEFINE F == work[r][t].files
               C == Cut(F, run[r].retention)
    <2>1. /\ work[r][t].pc = "stat" /\ objects' = objects
          /\ work'[r][t] = [pc |-> IF C = {} THEN "success" ELSE "delete", files |-> C]
      BY <1>5 DEF Stat, Remote, TypeOK
    <2>2. Trims(r, t)
      BY <1>0, <1>5, <2>1 DEF SeesTo, ToList, Fails
    <2>3. F \in SUBSET Object /\ IsFiniteSet(F) /\ OneName(F) /\ objects[t] \subseteq F
      BY <1>0, <2>1, <2>2 DEF Trims, Worker
    <2>4. objects[t] \ C \subseteq F \ C
      BY <2>3
    <2>5. Cardinality(objects[t] \ C) <= run[r].retention.n
      BY <1>0, <2>3, <2>4, CutLeaves
    <2> QED BY <1>0, <2>1, <2>5 DEF SeesTo, Trims
  <1>6. CASE Delete(r, t)
    <2> DEFINE F == work[r][t].files
    <2>1. PICK x \in F :
            /\ objects'[t] = {y \in objects[t] : y.name # x.name}
            /\ work'[r][t] \in {[pc |-> IF F \ {x} = {} THEN "success" ELSE "delete", files |-> F \ {x}],
                               [pc |-> "failed", files |-> {}]}
      BY <1>6 DEF Delete, TypeOK
    <2>2. work'[r][t] = [pc |-> IF F \ {x} = {} THEN "success" ELSE "delete", files |-> F \ {x}]
      <3>1. [pc |-> "failed", files |-> {}].pc = "failed"
        OBVIOUS
      <3> QED BY <2>1, <3>1
    <2>3. work[r][t].pc = "delete" /\ Trims(r, t)
      BY <1>0, <1>6 DEF Delete, SeesTo, ToList, Fails
    <2>4. Cardinality(objects[t] \ F) <= run[r].retention.n /\ run[r].retention.n \in Nat
      BY <1>0, <2>3 DEF Trims, Retention
    <2>5. objects'[t] \ (F \ {x}) \subseteq objects[t] \ F
      BY <2>1
    <2>6. IsFiniteSet(objects[t] \ F)
      BY FS_Subset DEF Trimming
    <2> HIDE DEF F
    <2>7. Cardinality(objects'[t] \ (F \ {x})) <= run[r].retention.n
      BY <2>4, <2>5, <2>6, FewerLeft
    <2> QED BY <1>0, <2>2, <2>7 DEF SeesTo, Trims
  <1>7. CASE Wrote(r, t) \/ ClosedEarly(r, t)
    <2>1. Work(r, t, "list")
      BY <1>7 DEF Wrote, ClosedEarly, AfterWrite
    <2>2. work'[r][t].pc = "list"
      BY <1>0, <2>1 DEF Work, TypeOK, Worker
    <2> QED BY <2>2
  <1> QED BY <1>4, <1>5, <1>6, <1>7, WorkWrites

\* A step of one goroutine leaves the others' part in the directory to them.
LEMMA UploadTrimming ==
    ASSUME TypeOK, Owned, Trimming, NEW r \in Runs, NEW t \in Targets, Upload(r, t)
    PROVE  Trimming'
  <1>1. /\ run' = run
        /\ \A q \in Runs, u \in Targets : (q # r \/ u # t) => work'[q][u] = work[q][u]
        /\ \A u \in Targets : u # t => objects'[u] = objects[u]
    BY UploadStep
  <1>2. t \in run[r].targets
    BY UploadStep DEF Owned
  <1> SUFFICES ASSUME NEW u \in Targets
               PROVE  /\ IsFiniteSet(objects'[u]) /\ OneName(objects'[u])
                      /\ objects'[u] # {} => \E q \in Runs : SeesTo(q, u)'
    BY DEF Trimming
  <1>3. CASE u # t
    <2>1. \A q \in Runs : SeesTo(q, u) => SeesTo(q, u)'
      BY <1>1, <1>3 DEF SeesTo, ToList, Fails, Trims
    <2> QED BY <1>1, <1>3, <2>1 DEF Trimming
  <1>4. CASE u = t
    <2>1. IsFiniteSet(objects'[t]) /\ OneName(objects'[t])
      BY NextNames
    <2>2. CASE work'[r][t].pc \notin {"success", "delete"} \/ run[r].retention.mode # "keep_last"
                  \/ SeesTo(r, t)
      BY <1>2, <1>4, <2>1, <2>2, StepSees
    <2>3. CASE /\ work'[r][t].pc \in {"success", "delete"} /\ run[r].retention.mode = "keep_last"
               /\ ~SeesTo(r, t)
      <3>1. objects'[t] \subseteq objects[t]
        <4>1. Wrote(r, t) \/ ClosedEarly(r, t) => work'[r][t].pc = "list"
          BY <2>3 DEF Wrote, ClosedEarly, AfterWrite, Work, TypeOK, Worker
        <4>2. Stat(r, t) \/ Delete(r, t)
          BY <2>3, <4>1, WorkWrites
        <4> QED BY <4>2 DEF Stat, Delete, Remote, TypeOK
      <3>2. ASSUME NEW q \in Runs, SeesTo(q, t) PROVE SeesTo(q, t)'
        <4>1. q # r /\ work'[q][t] = work[q][t]
          BY <1>1, <2>3, <3>2
        <4>2. ToList(q, t) \/ Fails(q, t) => SeesTo(q, t)'
          BY <1>1, <4>1 DEF SeesTo, ToList, Fails
        <4>3. ASSUME Trims(q, t) PROVE Trims(q, t)'
          <5> DEFINE F == work[q][t].files
          <5>1. CASE work[q][t].pc = "stat"
            BY <1>1, <3>1, <4>1, <4>3, <5>1 DEF Trims
          <5>2. CASE work[q][t].pc \in {"delete", "success"}
            <6>1. Cardinality(objects[t] \ F) <= run[q].retention.n /\ run[q].retention.n \in Nat
              BY <4>3, <5>2 DEF Trims, TypeOK, RunState, Retention
            <6>2. IsFiniteSet(objects[t] \ F)
              BY FS_Subset DEF Trimming
            <6>3. objects'[t] \ F \subseteq objects[t] \ F
              BY <3>1
            <6> HIDE DEF F
            <6>4. Cardinality(objects'[t] \ F) <= run[q].retention.n
              BY <6>1, <6>2, <6>3, FewerLeft
            <6> USE DEF F
            <6> QED BY <1>1, <4>1, <4>3, <5>2, <6>4 DEF Trims
          <5> QED BY <4>3, <5>1, <5>2 DEF Trims
        <4> QED BY <3>2, <4>2, <4>3 DEF SeesTo
      <3> QED BY <1>4, <2>1, <3>1, <3>2 DEF Trimming
    <2> QED BY <1>4, <2>2, <2>3
  <1> QED BY <1>3, <1>4

\* Outside its uploads a run goes on seeing to a directory, or ends in no success.
LEMMA OtherSees ==
    ASSUME TypeOK, Idle, Owned, [Next]_vars, objects' = objects,
           \A r \in Runs, t \in Targets : ~Upload(r, t),
           NEW q \in Runs, NEW t \in Targets, SeesTo(q, t)
    PROVE  SeesTo(q, t)'
  <1> USE DEF SeesTo, ToList, Fails, Trims
  <1>1. t \in run[q].targets /\ run[q].pc # "idle"
    BY DEF Idle, NoRun
  <1>2. run'[q].targets = run[q].targets /\ run'[q].retention = run[q].retention
    BY <1>1, Steady
  <1>3. CASE run'[q].pc = run[q].pc /\ work'[q][t] = work[q][t]
    BY <1>2, <1>3
  <1>4. ASSUME NEW r \in Runs, Start(r) \/ Cancel(r) PROVE SeesTo(q, t)'
    <2>1. CASE Start(r)
      BY <1>1, <1>3, <2>1 DEF Start, TypeOK
    <2>2. CASE Cancel(r)
      <3>1. run'[q].pc = run[q].pc
        BY <2>2 DEF Cancel, TypeOK, RunState
      <3> QED BY <1>3, <2>2, <3>1 DEF Cancel
    <2> QED BY <1>4, <2>1, <2>2
  <1>5. ASSUME NEW r \in Runs, Package(r) PROVE SeesTo(q, t)'
    <2>1. CASE q # r
      BY <1>3, <1>5, <2>1 DEF Package, Go, TypeOK
    <2>2. CASE q = r
      <3>1. run'[q].pc = "upload" /\ work'[q][t] = [NoWork EXCEPT !.pc = "open"]
        BY <1>1, <1>5, <2>2 DEF Package, Go, TypeOK, RunState
      <3> QED BY <1>1, <1>2, <3>1 DEF NoWork
    <2> QED BY <2>1, <2>2
  <1>6. ASSUME NEW r \in Runs, PackageFails(r) PROVE SeesTo(q, t)'
    <2>1. CASE q # r
      BY <1>3, <1>6, <2>1 DEF PackageFails, TypeOK
    <2>2. CASE q = r
      BY <1>1, <1>2, <1>6, <2>2 DEF PackageFails, TypeOK, RunState, Owned, NoWork
    <2> QED BY <2>1, <2>2
  <1>7. ASSUME NEW r \in Runs, Join(r) PROVE SeesTo(q, t)'
    <2>1. CASE q # r
      BY <1>3, <1>7, <2>1 DEF Join, TypeOK
    <2>2. CASE q = r
      <3>1. /\ run[q].pc = "upload" /\ run'[q].pc = "append" /\ work'[q][t] = work[q][t]
            /\ work[q][t].pc \in {"success", "failed", "missed"}
        BY <1>1, <1>7, <2>2 DEF Join, Result, TypeOK, RunState
      <3> QED BY <1>1, <1>2, <3>1
    <2> QED BY <2>1, <2>2
  <1>8. ASSUME NEW r \in Runs, Append(r) PROVE SeesTo(q, t)'
    <2>1. CASE q # r
      BY <1>3, <1>8, <2>1 DEF Append, Go, TypeOK
    <2>2. CASE q = r
      BY <1>1, <1>2, <1>8, <2>2 DEF Append, Go, TypeOK, RunState
    <2> QED BY <2>1, <2>2
  <1>9. CASE Tick \/ UNCHANGED vars
    BY <1>3, <1>9 DEF Tick, vars
  <1>10. CASE Crash
    <2>1. CASE Active(q)
      BY <1>1, <1>2, <1>10, <2>1 DEF Crash, NoWork, TypeOK, RunState
    <2>2. CASE ~Active(q)
      BY <1>3, <1>10, <2>2 DEF Crash
    <2> QED BY <2>1, <2>2
  <1> QED BY <1>4, <1>5, <1>6, <1>7, <1>8, <1>9, <1>10 DEF Next, Progress

LEMMA NextTrimming == TypeOK /\ Idle /\ Owned /\ Trimming /\ [Next]_vars => Trimming'
  <1> SUFFICES ASSUME TypeOK, Idle, Owned, Trimming, [Next]_vars PROVE Trimming'
    OBVIOUS
  <1>1. ASSUME NEW r \in Runs, NEW t \in Targets, Upload(r, t) PROVE Trimming'
    BY <1>1, UploadTrimming
  <1>2. CASE \A r \in Runs, t \in Targets : ~Upload(r, t)
    <2>1. objects' = objects
      BY <1>2, OtherStep
    <2>2. ASSUME NEW q \in Runs, NEW t \in Targets, SeesTo(q, t) PROVE SeesTo(q, t)'
      BY <1>2, <2>1, <2>2, OtherSees
    <2> QED BY <2>1, <2>2 DEF Trimming, OneName
  <1> QED BY <1>1, <1>2

\* However many runs upload to one directory and trim it at once, the last to list
\* it leaves no more than keep_last asks for.
THEOREM RetentionHoldsHolds == Spec => []RetentionHolds
  <1> DEFINE I == TypeOK /\ Idle /\ Owned /\ Trimming
  <1>1. Init => I
    BY InitTypeOK, InitIdle, InitTrimming
  <1>2. I /\ [Next]_vars => I'
    BY NextTypeOK, NextIdle, NextOwned, NextTrimming
  <1>3. ASSUME I PROVE RetentionHolds
    <2> SUFFICES ASSUME NEW t \in Targets, NEW p \in Retentions, AllKept(t, p.n),
                        \A r \in Runs : work[r][t].pc # "missed"
                 PROVE  Cardinality(objects[t]) <= p.n
      BY DEF RetentionHolds
    <2>1. p.n \in Nat
      BY DEF Retention
    <2>2. CASE objects[t] = {}
      BY <2>1, <2>2, FS_EmptySet
    <2>3. CASE objects[t] # {}
      <3>1. PICK r \in Runs : SeesTo(r, t)
        BY <1>3, <2>3 DEF Trimming
      <3>2. t \in run[r].targets
        BY <3>1 DEF SeesTo, ToList, Fails, Trims
      <3>3. /\ run[r].pc \notin {"export", "upload", "append"} /\ work[r][t].pc = "success"
            /\ run[r].retention.mode = "keep_last" /\ run[r].retention.n <= p.n
        BY <3>2 DEF AllKept, Quiet, Active, Result
      <3>4. work[r][t].files = {} /\ Cardinality(objects[t] \ work[r][t].files) <= run[r].retention.n
        BY <3>1, <3>3 DEF SeesTo, ToList, Fails, Trims
      <3>5. Cardinality(objects[t]) <= run[r].retention.n
        BY <3>4
      <3>6. Cardinality(objects[t]) \in Nat /\ run[r].retention.n \in Nat
        BY <1>3, FS_CardinalityType DEF Trimming, TypeOK, RunState, Retention
      <3> QED BY <2>1, <3>3, <3>5, <3>6
    <2> QED BY <2>2, <2>3
  <1> QED BY <1>1, <1>2, <1>3, PTL DEF Spec

=============================================================================
