----------------------------- MODULE RestoreJobs -----------------------------
(* restore.Manager: every accepted request is a job in an in-memory map and *)
(* a goroutine that downloads a backup object, decrypts it if its name says *)
(* so, uploads it to a Nowledge Mem destination and polls the import there. *)
(*                                                                          *)
(* run() publishes a stage just before the call it names, so the stage is   *)
(* the goroutine's program counter: one action is a call's return and all   *)
(* that follows up to the next call.  The destination receives an upload    *)
(* and ends an import on its own; a request already sent may arrive after   *)
(* the goroutine has given up on it.                                        *)
EXTENDS Naturals, FiniteSets

CONSTANTS
    Jobs,         \* job ids; a fresh one is drawn for each request
    MaxCrashes    \* bound: times the process ends and comes back

ASSUME RestoreAssumption == MaxCrashes \in Nat

VARIABLES
    job,        \* Manager.jobs and the locals of each goroutine
    wire,       \* uploads sent and not yet received or lost
    imports,    \* archives of each job the destination has received
    import,     \* the destination's import of the job's archive
    crashes     \* times the process has ended

vars == <<job, wire, imports, import, crashes>>

Passwords == {"right", "wrong", "blank"}
Working   == {"queued", "downloading", "decrypting", "uploading", "importing"}
Final     == {"completed", "failed"}
Imports   == {"none", "running", "ok", "bad"}

\* "absent": the id was never handed out; "lost": the process that knew it ended.
\* enc is what the object's name says, sealed what is in the object: a template or
\* a task's name that ends in ".zip" gives an encrypted backup a plain name, and
\* anything may lie in storage under a sealed one.  failedAt is the stage
\* failWithLogger logs as failed_stage.
JobState == [state    : Working \cup Final \cup {"absent", "lost"},
             enc      : BOOLEAN,
             sealed   : BOOLEAN,
             password : Passwords,
             data     : {"none", "sealed", "plain"},
             failedAt : Working \cup {"none"}]

NoJob == [state |-> "absent", enc |-> FALSE, sealed |-> FALSE, password |-> "blank",
          data |-> "none", failedAt |-> "none"]

Init ==
    /\ job = [j \in Jobs |-> NoJob]
    /\ wire = {}
    /\ imports = [j \in Jobs |-> 0]
    /\ import = [j \in Jobs |-> "none"]
    /\ crashes = 0

State(j) == job[j].state
SetState(j, s) == job' = [job EXCEPT ![j].state = s]
Elsewhere == UNCHANGED <<wire, imports, import, crashes>>

----------------------------------------------------------------------------
(* The goroutine of a job.                                                  *)

\* validateStartRequest: an object named as a sealed one needs a password that is
\* not blank.
Valid(e, p) == e => p # "blank"

Start(j) ==
    /\ State(j) = "absent"
    /\ \E e, x \in BOOLEAN, p \in Passwords :
        /\ Valid(e, p)
        /\ job' = [job EXCEPT ![j] = [NoJob EXCEPT !.state = "queued", !.enc = e,
                                                   !.sealed = x, !.password = p]]
    /\ Elsewhere

Run(j) ==
    /\ State(j) = "queued"
    /\ SetState(j, "downloading")
    /\ Elsewhere

\* What storage.Read returns.
Content(j) == IF job[j].sealed THEN "sealed" ELSE "plain"

\* Mutant: the archive is uploaded without a look at its name.
DownloadedSkipsDecrypt(j) ==
    /\ State(j) = "downloading"
    /\ job' = [job EXCEPT ![j].state = "uploading", ![j].data = Content(j)]
    /\ wire' = wire \cup {j}
    /\ UNCHANGED <<imports, import, crashes>>

\* openTarget and storage.Read return the object; one with a plain name is sent at
\* once, as it is: UploadImport is called right after the stage is published.
Downloaded(j) ==
    /\ State(j) = "downloading"
    /\ \/ /\ job[j].enc
          /\ job' = [job EXCEPT ![j].state = "decrypting", ![j].data = Content(j)]
          /\ UNCHANGED wire
       \/ /\ ~job[j].enc
          /\ job' = [job EXCEPT ![j].state = "uploading", ![j].data = Content(j)]
          /\ wire' = wire \cup {j}
    /\ UNCHANGED <<imports, import, crashes>>

\* Mutant: the error of Decrypt is dropped, and what it returned is sent.
DecryptedUnchecked(j) ==
    /\ State(j) = "decrypting"
    /\ job' = [job EXCEPT ![j].state = "uploading"]
    /\ wire' = wire \cup {j}
    /\ UNCHANGED <<imports, import, crashes>>

\* archive.Decrypt authenticates: only the right password opens the object, and
\* nothing opens one that is not sealed.
Decrypted(j) ==
    /\ State(j) = "decrypting"
    /\ job[j].data = "sealed" /\ job[j].password = "right"
    /\ job' = [job EXCEPT ![j].state = "uploading", ![j].data = "plain"]
    /\ wire' = wire \cup {j}
    /\ UNCHANGED <<imports, import, crashes>>

\* The response names an import to poll.
Uploaded(j) ==
    /\ State(j) = "uploading"
    /\ imports[j] > 0
    /\ SetState(j, "importing")
    /\ Elsewhere

\* The response names none, and says that the import is already complete.
ImportedAtOnce(j) ==
    /\ State(j) = "uploading"
    /\ import[j] = "ok"
    /\ SetState(j, "completed")
    /\ Elsewhere

\* Mutants: the failed stage is read after it has been overwritten; an upload that
\* failed is tried again.
FailReadsStageLate(j) ==
    /\ State(j) \in Working \ {"queued"}
    /\ job' = [job EXCEPT ![j].state = "failed", ![j].failedAt = "failed"]
    /\ Elsewhere

\* A call returns an error, or panics and is recovered; or the upload's response
\* names no import and no success.
Fail(j) ==
    /\ State(j) \in Working \ {"queued"}
    /\ job' = [job EXCEPT ![j].state = "failed", ![j].failedAt = State(j)]
    /\ Elsewhere

\* Mutants: any answer to the first poll ends the job; a failed import is polled
\* for ever.
PollEndsAtOnce(j) ==
    /\ State(j) = "importing"
    /\ SetState(j, "completed")
    /\ Elsewhere

PollIgnoresFailure(j) ==
    /\ State(j) = "importing"
    /\ import[j] = "ok"
    /\ SetState(j, "completed")
    /\ Elsewhere

\* ImportStatus reports the end of the import.  While it reports anything else
\* the loop sets the timer again, and nothing here changes.
PollEnds(j) ==
    /\ State(j) = "importing"
    /\ \/ /\ import[j] = "ok"
          /\ SetState(j, "completed")
       \/ /\ import[j] = "bad"
          /\ job' = [job EXCEPT ![j].state = "failed", ![j].failedAt = "importing"]
    /\ Elsewhere

----------------------------------------------------------------------------
(* The destination, the network and the process.                            *)

Receive(j) ==
    /\ j \in wire
    /\ wire' = wire \ {j}
    /\ imports' = [imports EXCEPT ![j] = @ + 1]
    /\ import' = [import EXCEPT ![j] = "running"]
    /\ UNCHANGED <<job, crashes>>

Lose(j) ==
    /\ j \in wire
    /\ wire' = wire \ {j}
    /\ UNCHANGED <<job, imports, import, crashes>>

ImportEnds(j) ==
    /\ import[j] = "running"
    /\ \E v \in {"ok", "bad"} : import' = [import EXCEPT ![j] = v]
    /\ UNCHANGED <<job, wire, imports, crashes>>

\* The jobs and their goroutines are gone; what was sent and imported is not.
Crash ==
    /\ crashes < MaxCrashes
    /\ crashes' = crashes + 1
    /\ job' = [j \in Jobs |-> IF State(j) = "absent" THEN NoJob
                              ELSE [job[j] EXCEPT !.state = "lost"]]
    /\ UNCHANGED <<wire, imports, import>>

----------------------------------------------------------------------------

Step(j) ==
    \/ Run(j) \/ Downloaded(j) \/ Decrypted(j) \/ Uploaded(j) \/ ImportedAtOnce(j)
    \/ Fail(j)

Next ==
    \/ \E j \in Jobs : \/ Start(j) \/ Step(j) \/ PollEnds(j)
                       \/ Receive(j) \/ Lose(j) \/ ImportEnds(j)
    \/ Crash

Spec == Init /\ [][Next]_vars

\* The goroutine runs, and each of its calls returns: the upload has a client
\* timeout, scrypt ends, and storage is assumed to answer or to fail.  A poll
\* sees an import that has ended; no poll is assumed to fail.  The destination is
\* assumed to end every import, since pollImport sets no limit of its own.
Fairness ==
    \A j \in Jobs :
        /\ WF_vars(Step(j) /\ State(j) # "importing")
        /\ WF_vars(PollEnds(j))
        /\ WF_vars(ImportEnds(j))

FairSpec == Spec /\ Fairness

----------------------------------------------------------------------------
(* Properties.                                                              *)

TypeOK ==
    /\ job \in [Jobs -> JobState]
    /\ wire \subseteq Jobs
    /\ imports \in [Jobs -> Nat]
    /\ import \in [Jobs -> Imports]
    /\ crashes \in Nat

\* README.md:140, "Imports are not automatically retried, to avoid duplicate
\* writes": one job never imports its archive twice, even when the answer to its
\* upload is lost and the request arrives after the job has failed.
AtMostOneImport == \A j \in Jobs : imports[j] <= 1

\* A job that says "completed" names an import that has ended well.
CompletedMeansImported == \A j \in Jobs : State(j) = "completed" => import[j] = "ok"

\* What the destination is sent of an object whose name says that it is sealed is
\* the archive that the right password opened, whatever lies in storage under that
\* name.  It says nothing of a plain name: a sealed object that has one, as a
\* template or a task's name that ends in ".zip" gives it, is sent sealed.
OpenedBeforeSent ==
    \A j \in Jobs : job[j].enc /\ (j \in wire \/ imports[j] > 0) =>
        job[j].data = "plain" /\ job[j].password = "right"

\* README.md:140: "a failure at the uploading stage occurs after decryption; it
\* does not indicate a wrong encryption password", and a job that failed earlier
\* has left the destination alone.
FailedStageIsHonest ==
    \A j \in Jobs :
        /\ job[j].failedAt \in {"uploading", "importing"} =>
              (job[j].enc => job[j].password = "right")
        /\ job[j].failedAt \in {"downloading", "decrypting"} =>
              j \notin wire /\ imports[j] = 0

\* An accepted job reaches a final state, unless its process ends first.
JobEnds == \A j \in Jobs : State(j) = "queued" ~> State(j) \in Final \cup {"lost"}

\* What a job's stages amount to.
Status(j) ==
    IF State(j) \in Working THEN "active" ELSE State(j)

\* A restore job keeps the promise of RestorePromise.
Promise == INSTANCE RestorePromise WITH status <- [j \in Jobs |-> Status(j)]

KeepsPromise == Promise!Spec
=============================================================================
