-------------------------- MODULE RestoreJobsProofs --------------------------
(* Proofs about RestoreJobs, for any number of jobs and of crashes, and that *)
(* it implements RestorePromise.                                             *)
EXTENDS RestoreJobs, TLAPS

----------------------------------------------------------------------------
(* The inductive invariant.                                                 *)

\* An upload is on the wire or received, never both, and never sent again.
OneUpload ==
    \A j \in Jobs :
        /\ imports[j] \in {0, 1}
        /\ j \in wire => imports[j] = 0
        /\ import[j] = "none" <=> imports[j] = 0

\* A job that has not reached its upload has sent nothing.
NotSentYet ==
    \A j \in Jobs :
        \/ State(j) \in {"absent", "queued", "downloading", "decrypting"}
        \/ job[j].failedAt \in {"downloading", "decrypting"}
        => j \notin wire /\ imports[j] = 0

\* A job that has reached its upload, of an object whose name says that it is
\* sealed, holds the plain archive and had the right password.
Opened(j) == job[j].enc => job[j].data = "plain" /\ job[j].password = "right"

OpenedOnceSent ==
    \A j \in Jobs :
        \/ State(j) \in {"uploading", "importing"}
        \/ job[j].failedAt \in {"uploading", "importing"}
        \/ j \in wire
        \/ imports[j] > 0
        => Opened(j)

\* Only a job that is over has a stage it failed at.
FailedAtEnd == \A j \in Jobs : job[j].failedAt # "none" => State(j) \in {"failed", "lost"}

RestoreInv ==
    /\ TypeOK /\ OneUpload /\ NotSentYet /\ OpenedOnceSent /\ FailedAtEnd
    /\ CompletedMeansImported

LEMMA InitRestoreInv == Init => RestoreInv
<1> SUFFICES ASSUME Init PROVE RestoreInv
  OBVIOUS
<1>1. NoJob \in JobState
  BY DEF NoJob, JobState, Working, Final, Passwords
<1>2. TypeOK
  BY <1>1 DEF Init, TypeOK, Imports
<1> QED
  BY <1>2
  DEF Init, NoJob, RestoreInv, OneUpload, NotSentYet, OpenedOnceSent, FailedAtEnd,
      CompletedMeansImported, State

\* The record r of job j fits what the job has sent.
Fits(j, r) ==
    /\ r.state \in {"absent", "queued", "downloading", "decrypting"}
         \/ r.failedAt \in {"downloading", "decrypting"}
       => j \notin wire /\ imports[j] = 0
    /\ r.state \in {"uploading", "importing"}
         \/ r.failedAt \in {"uploading", "importing"} \/ j \in wire \/ imports[j] > 0
       => (r.enc => r.data = "plain" /\ r.password = "right")
    /\ r.failedAt # "none" => r.state \in {"failed", "lost"}
    /\ r.state = "completed" => import[j] = "ok"

\* A step that gives one job a record that fits, and touches nothing else.
LEMMA JobStep ==
  ASSUME RestoreInv, NEW j \in Jobs, NEW r \in JobState, Fits(j, r),
         job' = [job EXCEPT ![j] = r], Elsewhere
  PROVE  RestoreInv'
<1>1. /\ job'[j] = r
      /\ \A i \in Jobs : i # j => job'[i] = job[i]
      /\ job' \in [Jobs -> JobState]
  BY DEF RestoreInv, TypeOK
<1>2. TypeOK'
  BY <1>1 DEF RestoreInv, TypeOK, Elsewhere
<1>3. OneUpload'
  BY DEF RestoreInv, OneUpload, Elsewhere
<1>4. NotSentYet'
  BY <1>1 DEF Fits, RestoreInv, NotSentYet, State, Elsewhere
<1>5. OpenedOnceSent'
  BY <1>1 DEF Fits, RestoreInv, OpenedOnceSent, Opened, State, Elsewhere
<1>6. FailedAtEnd' /\ CompletedMeansImported'
  BY <1>1 DEF Fits, RestoreInv, FailedAtEnd, CompletedMeansImported, State, Elsewhere
<1> QED
  BY <1>2, <1>3, <1>4, <1>5, <1>6 DEF RestoreInv

\* A step in which job j reaches its upload with the data d.
LEMMA SendStep ==
  ASSUME RestoreInv, NEW j \in Jobs, NEW d \in {"sealed", "plain"},
         job[j].failedAt = "none",
         job' = [job EXCEPT ![j].state = "uploading", ![j].data = d],
         State(j) \in {"downloading", "decrypting"},
         job[j].enc => d = "plain" /\ job[j].password = "right",
         wire' = wire \cup {j},
         UNCHANGED <<imports, import, crashes>>
  PROVE  RestoreInv'
<1> DEFINE r == [job[j] EXCEPT !.state = "uploading", !.data = d]
<1>1. job[j] \in JobState /\ job' = [job EXCEPT ![j] = r]
  BY DEF RestoreInv, TypeOK
<1>2. /\ r \in JobState /\ r.state = "uploading" /\ r.data = d
      /\ r.enc = job[j].enc /\ r.password = job[j].password /\ r.failedAt = "none"
  BY <1>1 DEF JobState, Working
<1> HIDE DEF r
<1>3. /\ job'[j] = r
      /\ \A i \in Jobs : i # j => job'[i] = job[i]
      /\ job' \in [Jobs -> JobState]
  BY <1>1, <1>2 DEF RestoreInv, TypeOK
<1>4. imports[j] = 0 /\ j \notin wire
  BY DEF RestoreInv, NotSentYet
<1>5. TypeOK'
  BY <1>3 DEF RestoreInv, TypeOK
<1>6. OneUpload'
  BY <1>4 DEF RestoreInv, OneUpload
<1>7. NotSentYet'
  BY <1>2, <1>3 DEF RestoreInv, NotSentYet, State
<1>8. OpenedOnceSent'
  BY <1>2, <1>3 DEF RestoreInv, OpenedOnceSent, Opened, State
<1>9. FailedAtEnd' /\ CompletedMeansImported'
  BY <1>2, <1>3 DEF RestoreInv, FailedAtEnd, CompletedMeansImported, State
<1> QED
  BY <1>5, <1>6, <1>7, <1>8, <1>9 DEF RestoreInv

\* What the invariant says of one job.
LEMMA JobFacts ==
  ASSUME RestoreInv, NEW j \in Jobs
  PROVE  /\ job[j] \in JobState /\ State(j) = job[j].state
         /\ job[j].failedAt # "none" => State(j) \in {"failed", "lost"}
         /\ State(j) \in {"absent", "queued", "downloading", "decrypting"}
              => j \notin wire /\ imports[j] = 0
         /\ State(j) \in {"uploading", "importing"} \/ j \in wire \/ imports[j] > 0
              => (job[j].enc => job[j].data = "plain" /\ job[j].password = "right")
  BY DEF RestoreInv, TypeOK, FailedAtEnd, NotSentYet, OpenedOnceSent, Opened, State

LEMMA GoroutineInv ==
  ASSUME RestoreInv, NEW j \in Jobs, Start(j) \/ Step(j) \/ PollEnds(j)
  PROVE  RestoreInv'
<1>0. job \in [Jobs -> JobState]
  BY DEF RestoreInv, TypeOK
<1>1. CASE Start(j)
  <2>1. PICK e \in BOOLEAN, x \in BOOLEAN, p \in Passwords :
          job' = [job EXCEPT ![j] = [NoJob EXCEPT !.state = "queued", !.enc = e,
                                                  !.sealed = x, !.password = p]]
    BY <1>1 DEF Start
  <2>2. [NoJob EXCEPT !.state = "queued", !.enc = e, !.sealed = x,
                       !.password = p] \in JobState
    BY DEF NoJob, JobState, Working, Passwords
  <2>3. j \notin wire /\ imports[j] = 0 /\ Elsewhere
    BY <1>1, JobFacts DEF Start
  <2> DEFINE r == [NoJob EXCEPT !.state = "queued", !.enc = e, !.sealed = x,
                       !.password = p]
  <2>4. r.state = "queued" /\ r.failedAt = "none"
    BY DEF NoJob
  <2> HIDE DEF r
  <2>5. Fits(j, r)
    BY <2>3, <2>4 DEF Fits
  <2> QED
    BY <2>1, <2>2, <2>3, <2>5, JobStep DEF r
<1>2. CASE Run(j)
  <2> DEFINE r == [job[j] EXCEPT !.state = "downloading"]
  <2>1. State(j) = "queued" /\ job' = [job EXCEPT ![j] = r] /\ Elsewhere
    BY <1>0, <1>2 DEF Run, SetState
  <2>2. r \in JobState /\ r.state = "downloading" /\ r.failedAt = job[j].failedAt
    BY <1>0 DEF JobState, Working
  <2> HIDE DEF r
  <2>3. Fits(j, r)
    BY <2>1, <2>2, JobFacts DEF Fits
  <2> QED
    BY <2>1, <2>2, <2>3, JobStep
<1>3. CASE Downloaded(j)
  <2>1. State(j) = "downloading" /\ job[j].failedAt = "none"
    BY <1>3, JobFacts DEF Downloaded
  <2>2. CASE job[j].enc
    <3> DEFINE r == [job[j] EXCEPT !.state = "decrypting", !.data = Content(j)]
    <3>1. job' = [job EXCEPT ![j] = r] /\ Elsewhere
      BY <1>0, <1>3, <2>2 DEF Downloaded, Elsewhere
    <3>2. r \in JobState /\ r.state = "decrypting" /\ r.failedAt = job[j].failedAt
      BY <1>0 DEF JobState, Working, Content
    <3> HIDE DEF r
    <3>3. Fits(j, r)
      BY <2>1, <3>2, JobFacts DEF Fits
    <3> QED
      BY <3>1, <3>2, <3>3, JobStep
  <2>3. CASE ~job[j].enc
    <3>1. Content(j) \in {"sealed", "plain"}
      BY DEF Content
    <3> QED
      BY <1>3, <2>1, <2>3, <3>1, SendStep DEF Downloaded
  <2> QED
    BY <2>2, <2>3
<1>4. CASE Decrypted(j)
  <2>1. State(j) = "decrypting" /\ job[j].failedAt = "none"
    BY <1>4, JobFacts DEF Decrypted
  <2> QED
    BY <1>4, <2>1, SendStep DEF Decrypted
<1>5. CASE Uploaded(j)
  <2> DEFINE r == [job[j] EXCEPT !.state = "importing"]
  <2>1. State(j) = "uploading" /\ job' = [job EXCEPT ![j] = r] /\ Elsewhere
    BY <1>0, <1>5 DEF Uploaded, SetState
  <2>2. /\ r \in JobState /\ r.state = "importing" /\ r.failedAt = job[j].failedAt
        /\ r.data = job[j].data /\ r.enc = job[j].enc /\ r.password = job[j].password
    BY <1>0 DEF JobState, Working
  <2> HIDE DEF r
  <2>3. Fits(j, r)
    BY <2>1, <2>2, JobFacts DEF Fits
  <2> QED
    BY <2>1, <2>2, <2>3, JobStep
<1>6. CASE State(j) \in {"uploading", "importing"} /\ import[j] = "ok"
             /\ SetState(j, "completed") /\ Elsewhere
  <2> DEFINE r == [job[j] EXCEPT !.state = "completed"]
  <2>1. job' = [job EXCEPT ![j] = r]
    BY <1>0, <1>6 DEF SetState
  <2>2. /\ r \in JobState /\ r.state = "completed" /\ r.failedAt = job[j].failedAt
        /\ r.data = job[j].data /\ r.enc = job[j].enc /\ r.password = job[j].password
    BY <1>0 DEF JobState, Final
  <2> HIDE DEF r
  <2>3. Fits(j, r)
    BY <1>6, <2>2, JobFacts DEF Fits
  <2> QED
    BY <1>6, <2>1, <2>2, <2>3, JobStep
<1>7. CASE /\ State(j) \in Working \ {"queued"}
           /\ job' = [job EXCEPT ![j].state = "failed", ![j].failedAt = State(j)]
           /\ Elsewhere
  <2> DEFINE r == [job[j] EXCEPT !.state = "failed", !.failedAt = State(j)]
  <2>1. job' = [job EXCEPT ![j] = r]
    BY <1>0, <1>7
  <2>2. /\ r \in JobState /\ r.state = "failed" /\ r.failedAt = State(j)
        /\ r.data = job[j].data /\ r.enc = job[j].enc /\ r.password = job[j].password
    BY <1>0, <1>7 DEF JobState, Final
  <2> HIDE DEF r
  <2>3. State(j) \in {"downloading", "decrypting", "uploading", "importing"}
    BY <1>7 DEF Working
  <2>4. Fits(j, r)
    BY <2>2, <2>3, JobFacts DEF Fits
  <2> QED
    BY <1>7, <2>1, <2>2, <2>4, JobStep
<1>8. CASE ImportedAtOnce(j)
  BY <1>6, <1>8 DEF ImportedAtOnce
<1>9. CASE Fail(j)
  BY <1>7, <1>9 DEF Fail
<1>10. CASE PollEnds(j)
  BY <1>6, <1>7, <1>10 DEF PollEnds, Working
<1> QED
  BY <1>1, <1>2, <1>3, <1>4, <1>5, <1>8, <1>9, <1>10 DEF Step

LEMMA OutsideInv ==
  ASSUME RestoreInv, NEW j \in Jobs, Receive(j) \/ Lose(j) \/ ImportEnds(j)
  PROVE  RestoreInv'
<1>1. CASE Receive(j)
  <2>1. /\ imports[j] = 0 /\ j \in wire /\ import[j] = "none"
        /\ State(j) \notin {"absent", "queued", "downloading", "decrypting"}
        /\ job[j].failedAt \notin {"downloading", "decrypting"}
    BY <1>1 DEF Receive, RestoreInv, OneUpload, NotSentYet
  <2>2. /\ imports'[j] = 1 /\ import'[j] = "running"
        /\ wire' = wire \ {j} /\ UNCHANGED <<job, crashes>>
        /\ \A i \in Jobs : i # j => imports'[i] = imports[i] /\ import'[i] = import[i]
        /\ imports' \in [Jobs -> Nat] /\ import' \in [Jobs -> Imports]
    BY <1>1, <2>1 DEF Receive, RestoreInv, TypeOK, Imports
  <2>3. TypeOK' /\ OneUpload'
    BY <2>2 DEF RestoreInv, TypeOK, OneUpload
  <2>4. NotSentYet' /\ OpenedOnceSent' /\ FailedAtEnd'
    BY <2>1, <2>2
    DEF RestoreInv, NotSentYet, OpenedOnceSent, FailedAtEnd, Opened, State
  <2>5. CompletedMeansImported'
    BY <2>1, <2>2 DEF RestoreInv, CompletedMeansImported, State
  <2> QED
    BY <2>3, <2>4, <2>5 DEF RestoreInv
<1>2. CASE Lose(j)
  <2>1. wire' = wire \ {j} /\ UNCHANGED <<job, imports, import, crashes>>
    BY <1>2 DEF Lose
  <2>2. TypeOK' /\ OneUpload' /\ NotSentYet'
    BY <2>1 DEF RestoreInv, TypeOK, OneUpload, NotSentYet, State
  <2>3. OpenedOnceSent' /\ FailedAtEnd' /\ CompletedMeansImported'
    BY <2>1 DEF RestoreInv, OpenedOnceSent, FailedAtEnd, CompletedMeansImported, Opened, State
  <2> QED
    BY <2>2, <2>3 DEF RestoreInv
<1>3. CASE ImportEnds(j)
  <2>1. PICK v \in {"ok", "bad"} : import' = [import EXCEPT ![j] = v]
    BY <1>3 DEF ImportEnds
  <2>2. import[j] = "running" /\ UNCHANGED <<job, wire, imports, crashes>>
    BY <1>3 DEF ImportEnds
  <2>3. /\ import'[j] \in {"ok", "bad"} /\ import' \in [Jobs -> Imports]
        /\ \A i \in Jobs : i # j => import'[i] = import[i]
    BY <2>1 DEF RestoreInv, TypeOK, Imports
  <2>4. TypeOK' /\ OneUpload'
    BY <2>2, <2>3 DEF RestoreInv, TypeOK, OneUpload
  <2>5. NotSentYet' /\ OpenedOnceSent' /\ FailedAtEnd'
    BY <2>2 DEF RestoreInv, NotSentYet, OpenedOnceSent, FailedAtEnd, Opened, State
  <2>6. CompletedMeansImported'
    BY <2>2, <2>3 DEF RestoreInv, CompletedMeansImported, State
  <2> QED
    BY <2>4, <2>5, <2>6 DEF RestoreInv
<1> QED
  BY <1>1, <1>2, <1>3

LEMMA CrashInv ==
  ASSUME RestoreInv, Crash
  PROVE  RestoreInv'
<1>1. \A j \in Jobs :
        /\ job'[j] \in JobState
        /\ State(j) = "absent" => job'[j] = NoJob
        /\ State(j) # "absent" =>
             /\ job'[j].state = "lost" /\ job'[j].failedAt = job[j].failedAt
             /\ job'[j].data = job[j].data /\ job'[j].enc = job[j].enc
             /\ job'[j].password = job[j].password
  <2> SUFFICES ASSUME NEW j \in Jobs
               PROVE  /\ job'[j] \in JobState
                      /\ State(j) = "absent" => job'[j] = NoJob
                      /\ State(j) # "absent" =>
                           /\ job'[j].state = "lost" /\ job'[j].failedAt = job[j].failedAt
                           /\ job'[j].data = job[j].data /\ job'[j].enc = job[j].enc
                           /\ job'[j].password = job[j].password
    OBVIOUS
  <2>1. job[j] \in JobState
    BY DEF RestoreInv, TypeOK
  <2>2. job'[j] = IF State(j) = "absent" THEN NoJob ELSE [job[j] EXCEPT !.state = "lost"]
    BY DEF Crash
  <2>3. NoJob \in JobState
    BY DEF NoJob, JobState, Working, Passwords
  <2> QED
    BY <2>1, <2>2, <2>3 DEF JobState
<1>2. UNCHANGED <<wire, imports, import>> /\ crashes' = crashes + 1
  BY DEF Crash
<1>3. TypeOK'
  <2>1. job' \in [Jobs -> JobState]
    BY <1>1 DEF Crash
  <2> QED
    BY <1>2, <2>1 DEF RestoreInv, TypeOK
<1>4. OneUpload' /\ FailedAtEnd' /\ CompletedMeansImported'
  BY <1>1, <1>2 DEF RestoreInv, OneUpload, FailedAtEnd, CompletedMeansImported, State, NoJob
<1>5. NotSentYet'
  BY <1>1, <1>2 DEF RestoreInv, NotSentYet, State, NoJob
<1>6. OpenedOnceSent'
  <2> SUFFICES ASSUME NEW j \in Jobs,
                      \/ State(j)' \in {"uploading", "importing"}
                      \/ job'[j].failedAt \in {"uploading", "importing"}
                      \/ j \in wire
                      \/ imports[j] > 0
               PROVE  Opened(j)'
    BY <1>2 DEF OpenedOnceSent
  <2>1. State(j) # "absent"
    BY <1>1, JobFacts DEF NoJob, State
  <2> QED
    BY <1>1, <2>1 DEF RestoreInv, OpenedOnceSent, Opened, State
<1> QED
  BY <1>3, <1>4, <1>5, <1>6 DEF RestoreInv

LEMMA NextRestoreInv == RestoreInv /\ [Next]_vars => RestoreInv'
<1> SUFFICES ASSUME RestoreInv, [Next]_vars PROVE RestoreInv'
  OBVIOUS
<1>1. CASE UNCHANGED vars
  BY <1>1
  DEF vars, RestoreInv, TypeOK, OneUpload, NotSentYet, OpenedOnceSent, FailedAtEnd,
      CompletedMeansImported, Opened, State
<1>2. CASE Next
  BY <1>2, GoroutineInv, OutsideInv, CrashInv DEF Next
<1> QED
  BY <1>1, <1>2

\* RestoreInv holds in every reachable state.
THEOREM RestoreInvariant == Spec => []RestoreInv
  BY InitRestoreInv, NextRestoreInv, PTL DEF Spec

\* Every variable keeps its type.
THEOREM RestoreTypeCorrect == Spec => []TypeOK
<1>1. RestoreInv => TypeOK
  BY DEF RestoreInv
<1> QED
  BY <1>1, RestoreInvariant, PTL

\* A job never imports its archive twice.
THEOREM NoDuplicateImport == Spec => []AtMostOneImport
<1>1. RestoreInv => AtMostOneImport
  BY DEF RestoreInv, OneUpload, AtMostOneImport
<1> QED
  BY <1>1, RestoreInvariant, PTL

\* "completed" is said only of an import that ended well.
THEOREM CompletedIsTrue == Spec => []CompletedMeansImported
<1>1. RestoreInv => CompletedMeansImported
  BY DEF RestoreInv
<1> QED
  BY <1>1, RestoreInvariant, PTL

\* What is sent of an object whose name says that it is sealed has been opened with
\* the right password, whatever is lost, delayed or forgotten, and whatever lies in
\* storage.  Of an object with a plain name nothing is said.
THEOREM OnlyOpenedIsSent == Spec => []OpenedBeforeSent
<1>1. RestoreInv => OpenedBeforeSent
  BY DEF RestoreInv, OpenedOnceSent, Opened, OpenedBeforeSent
<1> QED
  BY <1>1, RestoreInvariant, PTL

\* The stage a failed job names tells whether the destination was touched.
THEOREM FailedStageIsTrue == Spec => []FailedStageIsHonest
<1>1. RestoreInv => FailedStageIsHonest
  BY DEF RestoreInv, OpenedOnceSent, NotSentYet, Opened, FailedStageIsHonest
<1> QED
  BY <1>1, RestoreInvariant, PTL

----------------------------------------------------------------------------
(* RestoreJobs implements RestorePromise.                                   *)

reported == [j \in Jobs |-> Status(j)]

LEMMA InitPromise == Init => Promise!Init
  BY DEF Init, Promise!Init, Status, State, NoJob, Working

\* A step that changes one job's state is seen as a change of its status.
LEMMA ReportStep ==
  ASSUME RestoreInv, NEW j \in Jobs, RestoreInv',
         \A i \in Jobs : i # j => job'[i] = job[i]
  PROVE  reported' = [reported EXCEPT ![j] = Status(j)']
  BY DEF reported, Status, State

\* A goroutine's steps are stutters, except its acceptance and its end.
LEMMA GoroutinePromise ==
  ASSUME RestoreInv, RestoreInv', NEW j \in Jobs, Start(j) \/ Step(j) \/ PollEnds(j)
  PROVE  [Promise!Next]_(Promise!vars)
<1>0. job \in [Jobs -> JobState] /\ \A i \in Jobs : job[i] \in JobState
  BY DEF RestoreInv, TypeOK
<1>1. \A i \in Jobs : i # j => job'[i] = job[i]
  BY DEF Start, Step, Run, Downloaded, Decrypted, Uploaded, ImportedAtOnce, Fail,
         PollEnds, SetState, RestoreInv, TypeOK
<1>2. reported' = [reported EXCEPT ![j] = Status(j)'] /\ reported[j] = Status(j)
  BY <1>1, ReportStep DEF reported
<1>3. UNCHANGED <<imports, import>>
  BY DEF Start, Step, Run, Downloaded, Decrypted, Uploaded, ImportedAtOnce, Fail,
         PollEnds, Elsewhere
<1>4. CASE Start(j)
  <2>1. Status(j) = "absent" /\ Status(j)' = "active"
    BY <1>4 DEF Start, Status, State, NoJob, Working, RestoreInv, TypeOK
  <2>2. Promise!Accept(j)
    BY <1>2, <1>3, <2>1 DEF Promise!Accept, Promise!Report, reported
  <2> QED
    BY <2>2 DEF Promise!Next
<1>5. CASE Run(j) \/ Downloaded(j) \/ Decrypted(j) \/ Uploaded(j)
  <2>1. Status(j) = "active" /\ Status(j)' = "active"
    <3>1. \/ State(j) = "queued" /\ job' = [job EXCEPT ![j].state = "downloading"]
          \/ /\ State(j) = "downloading"
             /\ \E d : job' = [job EXCEPT ![j].state = "decrypting", ![j].data = d]
          \/ /\ State(j) \in {"downloading", "decrypting"}
             /\ \E d : job' = [job EXCEPT ![j].state = "uploading", ![j].data = d]
          \/ State(j) = "uploading" /\ job' = [job EXCEPT ![j].state = "importing"]
      BY <1>5 DEF Run, Downloaded, Decrypted, Uploaded, SetState
    <3>2. State(j) \in Working
      BY <3>1 DEF Working
    <3>3. job'[j].state \in {"downloading", "decrypting", "uploading", "importing"}
      <4>1. ASSUME NEW q, job' = [job EXCEPT ![j].state = q] PROVE job'[j].state = q
        BY <1>0, <4>1 DEF JobState
      <4>2. ASSUME NEW q, NEW d, job' = [job EXCEPT ![j].state = q, ![j].data = d]
            PROVE  job'[j].state = q
        BY <1>0, <4>2 DEF JobState
      <4> QED
        BY <3>1, <4>1, <4>2
    <3> QED
      BY <3>2, <3>3 DEF Status, State, Working
  <2>2. reported' = reported
    BY <1>2, <2>1 DEF reported
  <2> QED
    BY <1>3, <2>2 DEF Promise!vars, reported
<1>6. CASE ImportedAtOnce(j) \/ (PollEnds(j) /\ import[j] = "ok")
  <2>1. Status(j) = "active" /\ Status(j)' = "completed" /\ import[j] = "ok"
    <3>1. /\ State(j) \in {"uploading", "importing"} /\ import[j] = "ok"
          /\ job' = [job EXCEPT ![j].state = "completed"]
      BY <1>6 DEF ImportedAtOnce, PollEnds, SetState
    <3>2. job'[j].state = "completed"
      BY <1>0, <3>1
    <3> QED
      BY <3>1, <3>2 DEF Status, State, Working
  <2>2. Promise!Complete(j)
    BY <1>2, <1>3, <2>1 DEF Promise!Complete, Promise!Report, reported
  <2> QED
    BY <2>2 DEF Promise!Next
<1>7. CASE Fail(j) \/ (PollEnds(j) /\ import[j] = "bad")
  <2>1. Status(j) = "active" /\ Status(j)' = "failed"
    <3>1. State(j) \in Working
      BY <1>7 DEF Fail, PollEnds, Working
    <3>2. \E q : job' = [job EXCEPT ![j].state = "failed", ![j].failedAt = q]
      BY <1>7 DEF Fail, PollEnds
    <3>3. job'[j].state = "failed"
      BY <1>0, <3>2
    <3> QED
      BY <3>1, <3>3 DEF Status, State, Working
  <2>2. Promise!Fail(j)
    BY <1>2, <1>3, <2>1 DEF Promise!Fail, Promise!Report, reported
  <2> QED
    BY <2>2 DEF Promise!Next
<1> QED
  BY <1>4, <1>5, <1>6, <1>7 DEF Step, PollEnds

LEMMA OutsidePromise ==
  ASSUME RestoreInv, NEW j \in Jobs, Receive(j) \/ Lose(j) \/ ImportEnds(j)
  PROVE  [Promise!Next]_(Promise!vars)
<1>1. reported' = reported
  BY DEF Receive, Lose, ImportEnds, reported, Status, State
<1>2. CASE Receive(j)
  <2>1. imports[j] = 0 /\ State(j) # "absent"
    BY <1>2 DEF Receive, RestoreInv, OneUpload, NotSentYet
  <2>2. reported[j] # "absent"
    BY <2>1 DEF reported, Status, Working
  <2>3. /\ imports' = [imports EXCEPT ![j] = 1]
        /\ import' = [import EXCEPT ![j] = "running"]
    BY <1>2, <2>1 DEF Receive, RestoreInv, TypeOK
  <2>4. Promise!Deliver(j)
    BY <1>1, <2>1, <2>2, <2>3 DEF Promise!Deliver, reported
  <2> QED
    BY <2>4 DEF Promise!Next
<1>3. CASE Lose(j)
  BY <1>1, <1>3 DEF Lose, Promise!vars, reported
<1>4. CASE ImportEnds(j)
  <2>1. Promise!ImportEnds(j)
    BY <1>1, <1>4 DEF ImportEnds, Promise!ImportEnds, reported
  <2> QED
    BY <2>1 DEF Promise!Next
<1> QED
  BY <1>2, <1>3, <1>4

LEMMA CrashPromise ==
  ASSUME RestoreInv, Crash
  PROVE  [Promise!Next]_(Promise!vars)
<1>1. \A j \in Jobs :
        Status(j)' = IF Status(j) = "absent" THEN "absent" ELSE "lost"
  BY DEF Crash, Status, State, NoJob, Working, RestoreInv, TypeOK, JobState
<1>2. Promise!Forget
  BY <1>1 DEF Crash, Promise!Forget, reported
<1> QED
  BY <1>2 DEF Promise!Next

\* A restore job keeps its promise: accepted once, imported at most once,
\* completed only after an import that ended well, forgotten only by a crash.
THEOREM PromiseKept == Spec => KeepsPromise
<1>1. RestoreInv /\ RestoreInv' /\ [Next]_vars => [Promise!Next]_(Promise!vars)
  <2> SUFFICES ASSUME RestoreInv, RestoreInv', [Next]_vars
               PROVE  [Promise!Next]_(Promise!vars)
    OBVIOUS
  <2>1. CASE UNCHANGED vars
    BY <2>1 DEF vars, Promise!vars, Status, State
  <2>2. CASE Next
    BY <2>2, GoroutinePromise, OutsidePromise, CrashPromise DEF Next
  <2> QED
    BY <2>1, <2>2
<1> QED
  BY <1>1, InitPromise, RestoreInvariant, PTL DEF Spec, KeepsPromise, Promise!Spec
=============================================================================
