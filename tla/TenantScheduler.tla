-------------------------- MODULE TenantScheduler --------------------------
(***************************************************************************)
(* The scheduler of one tenant: scheduler.Manager, the tasktimer.Timer it  *)
(* builds on every reload, and the tenant's configuration row, which the   *)
(* web handlers write and the timers' completion callbacks write back.     *)
(*                                                                         *)
(* Manager.mu guards only the map of timers; a reload runs mostly outside  *)
(* it.  One action is one critical section, one database statement, or one *)
(* call into the timer library.  Tenants share nothing but that mutex, so  *)
(* one tenant is modelled.  Time is abstracted: a task the timer holds may *)
(* fall due at any moment (a one-time schedule in the past is due at once).*)
(***************************************************************************)
EXTENDS Naturals

CONSTANTS
    Tasks,              \* the task keys of the tenant
    Handlers,           \* goroutines serving requests that reload the tenant
    Main,               \* the goroutine of app.serve: StartAll, later Stop
    NoTimer,            \* no entry for the tenant in Manager.timers
    Bodies,             \* the task lists a user may save: [Tasks -> TaskCfg]
    MaxRequests,        \* bound: requests served over the whole behaviour
    MaxRestarts,        \* bound: times the process ends and comes back
    MaxTimers,          \* bound: timers alive at once
    CloseAwaitsFinish   \* does Scheduler.Close also wait for OnFinish?

Kinds   == {"once", "repeat", "absent"}
TaskCfg == [kind : Kinds, enabled : BOOLEAN]
Config  == [rev : Nat, task : [Tasks -> TaskCfg]]
TimerState == [life  : {"none", "open", "closing"}, rev : Nat,
               entry : [Tasks -> TaskCfg], fired : SUBSET Tasks]
Threads == Handlers \cup {Main}
Timers  == 1 .. MaxTimers

ASSUME SchedulerAssumption ==
    /\ Main \notin Handlers
    /\ NoTimer \notin Timers
    /\ Bodies \subseteq [Tasks -> TaskCfg]
    /\ MaxRequests \in Nat
    /\ MaxRestarts \in Nat
    /\ MaxTimers \in Nat
    /\ CloseAwaitsFinish \in BOOLEAN

VARIABLES
    stored,      \* the TenantConfig row; rev is the request that wrote it
    requests,    \* requests served so far
    restarts,    \* times the process has ended
    registered,  \* Manager.timers[tenant]
    timer,       \* each Timer: is it running, what it was built from
    phase,       \* phase[t][k]: where timer t is in a run of task k
    snap,        \* snap[t][k]: the row disableTask read for that run
    pc,          \* program counter of each thread
    mine,        \* the timer a thread has taken out or has just built
    shutting,    \* a signal arrived: main is in the deferred Manager.Stop
    acked,       \* history: tasks disabled after a run, and not edited since
    overlapped,  \* history: two reloads were in progress at once
    crossed,     \* history: a task was disabled after the next timer was built
    clobbered,   \* history: disableTask overwrote a row it had not read
    loadFailed   \* history: the last reload to end could not read the row

memory == <<registered, timer, phase, snap, pc, mine, shutting, overlapped,
            crossed, loadFailed>>
vars   == <<stored, requests, restarts, memory, acked, clobbered>>

Phases == {"idle", "running", "finish", "load", "save"}
Points == {"idle", "take", "stop", "closing", "load", "install", "exit"}

\* The points of Reload at which the thread is between its critical sections.
Reloading == {"stop", "closing", "load", "install"}

NoConfig == [rev |-> 0, task |-> [k \in Tasks |-> [kind |-> "absent", enabled |-> FALSE]]]
NewTimer == [life |-> "none", rev |-> 0, entry |-> NoConfig.task, fired |-> {}]

\* What a runnable entry looks like to schedulecalc.Runtime: "scheduled".
Runnable(e) == e.enabled /\ e.kind # "absent"

\* The memory of a process that has just started: main is about to run StartAll.
BootTimer == [t \in Timers |-> NewTimer]
BootPhase == [t \in Timers |-> [k \in Tasks |-> "idle"]]
BootSnap  == [t \in Timers |-> [k \in Tasks |-> NoConfig]]
BootPc    == [h \in Threads |-> IF h = Main THEN "take" ELSE "idle"]
BootMine  == [h \in Threads |-> NoTimer]

Init ==
    /\ \E b \in Bodies : stored = [rev |-> 0, task |-> b]
    /\ requests = 0 /\ restarts = 0
    /\ acked = {} /\ clobbered = FALSE
    /\ registered = NoTimer /\ timer = BootTimer
    /\ phase = BootPhase /\ snap = BootSnap
    /\ pc = BootPc /\ mine = BootMine /\ shutting = FALSE
    /\ overlapped = FALSE /\ crossed = FALSE /\ loadFailed = FALSE

Goto(h, p) == pc' = [pc EXCEPT ![h] = p]

----------------------------------------------------------------------------
(* Requests.  The server listens once StartAll has returned and until a    *)
(* signal arrives.                                                         *)

Serving(h) ==
    /\ pc[h] = "idle"
    /\ pc[Main] = "idle"
    /\ requests < MaxRequests

\* Mutant: the handler saves and forgets the reload.
PutConfigNoReload(h) ==
    /\ Serving(h)
    /\ requests' = requests + 1
    /\ \E b \in Bodies : stored' = [rev |-> requests + 1, task |-> b]
    /\ acked' = {}
    /\ UNCHANGED <<restarts, memory, clobbered>>

\* PUT /api/config: SaveUser replaces the whole row, then Reload.  A save that
\* fails validation changes nothing and is left out.
PutConfig(h) ==
    /\ Serving(h)
    /\ requests' = requests + 1
    /\ \E b \in Bodies : stored' = [rev |-> requests + 1, task |-> b]
    /\ acked' = {}
    /\ Goto(h, "take")
    /\ UNCHANGED <<restarts, registered, timer, phase, snap, mine, shutting,
                   overlapped, crossed, clobbered, loadFailed>>

\* An administrator's change to the tenant's user: Reload, and no save.
ChangeUser(h) ==
    /\ Serving(h)
    /\ requests' = requests + 1
    /\ Goto(h, "take")
    /\ UNCHANGED <<stored, restarts, registered, timer, phase, snap, mine,
                   shutting, acked, overlapped, crossed, clobbered,
                   loadFailed>>

----------------------------------------------------------------------------
(* Manager.Reload, and Manager.Stop when main is shutting down.            *)

\* Where a thread goes when the timer it took is gone, or there was none.
AfterStop(h) == IF h = Main /\ shutting THEN "exit" ELSE "load"

TakeWithoutStop(h) ==
    /\ pc[h] = "take"
    /\ registered' = NoTimer
    /\ overlapped' = (overlapped \/ \E g \in Threads \ {h} : pc[g] \in Reloading)
    /\ Goto(h, AfterStop(h))
    /\ UNCHANGED <<stored, requests, restarts, timer, phase, snap, mine,
                   shutting, acked, clobbered, crossed, loadFailed>>

TakeOnlyReplaces(h) ==
    /\ pc[h] = "take"
    /\ mine' = [mine EXCEPT ![h] = registered]
    /\ registered' = NoTimer
    /\ overlapped' = (overlapped \/ \E g \in Threads \ {h} : pc[g] \in Reloading)
    /\ Goto(h, IF registered # NoTimer THEN "stop" ELSE "idle")
    /\ UNCHANGED <<stored, requests, restarts, timer, phase, snap, shutting,
                   acked, clobbered, crossed, loadFailed>>

\* First critical section: the thread takes the tenant's timer out of the map.
Take(h) ==
    /\ pc[h] = "take"
    /\ mine' = [mine EXCEPT ![h] = registered]
    /\ registered' = NoTimer
    /\ overlapped' = (overlapped \/ \E g \in Threads \ {h} : pc[g] \in Reloading)
    /\ Goto(h, IF registered # NoTimer THEN "stop" ELSE AfterStop(h))
    /\ UNCHANGED <<stored, requests, restarts, timer, phase, snap, shutting,
                   acked, clobbered, crossed, loadFailed>>

\* old.Stop(): nothing fires any more, and the runs in progress are cancelled.
Close(h) ==
    /\ pc[h] = "stop"
    /\ timer' = [timer EXCEPT ![mine[h]].life = "closing"]
    /\ Goto(h, "closing")
    /\ UNCHANGED <<stored, requests, restarts, registered, phase, snap, mine,
                   shutting, acked, overlapped, crossed, clobbered,
                   loadFailed>>

\* What Close waits for (WithWaitRunningOnClose).
Busy == IF CloseAwaitsFinish THEN Phases \ {"idle"} ELSE {"running"}

\* Mutant: Close without WithWaitRunningOnClose.
DrainedAtOnce(t) == TRUE

Drained(t) == \A k \in Tasks : phase[t][k] \notin Busy

\* old.Stop() returns.
Closed(h) ==
    /\ pc[h] = "closing"
    /\ Drained(mine[h])
    /\ timer' = [timer EXCEPT ![mine[h]] = NewTimer]
    /\ mine' = [mine EXCEPT ![h] = NoTimer]
    /\ Goto(h, AfterStop(h))
    /\ UNCHANGED <<stored, requests, restarts, registered, phase, snap,
                   shutting, acked, overlapped, clobbered, crossed,
                   loadFailed>>

\* A slot of the model that holds no timer and no callback of a former one.
Free(t) == timer[t].life = "none" /\ \A k \in Tasks : phase[t][k] = "idle"

\* LoadUser, tasktimer.New, Start and ReplaceAll.  The timer may fire from here
\* on, although the map does not hold it yet.
Build(h) ==
    /\ pc[h] = "load"
    /\ \E t \in Timers :
        /\ Free(t)
        /\ \A u \in Timers : u < t => ~Free(u)
        /\ timer' = [timer EXCEPT ![t] = [life  |-> "open", rev |-> stored.rev,
                                          entry |-> stored.task, fired |-> {}]]
        /\ mine' = [mine EXCEPT ![h] = t]
    /\ Goto(h, "install")
    /\ UNCHANGED <<stored, requests, restarts, registered, phase, snap,
                   shutting, acked, overlapped, clobbered, crossed,
                   loadFailed>>

\* Mutant: the error is logged, and a timer is installed for the empty Config
\* that came with it.
BuildFromNothing(h) ==
    /\ pc[h] = "load"
    /\ \E t \in Timers :
        /\ Free(t)
        /\ timer' = [timer EXCEPT ![t] = [life |-> "open", rev |-> 0,
                                          entry |-> [k \in {} |-> NoConfig], fired |-> {}]]
        /\ mine' = [mine EXCEPT ![h] = t]
    /\ Goto(h, "install")
    /\ UNCHANGED <<stored, requests, restarts, registered, phase, snap,
                   shutting, acked, overlapped, clobbered, crossed,
                   loadFailed>>

\* LoadUser fails: Reload logs a warning and returns with no timer built.
BuildFails(h) ==
    /\ pc[h] = "load"
    /\ loadFailed' = TRUE
    /\ Goto(h, "idle")
    /\ UNCHANGED <<stored, requests, restarts, registered, timer, phase, snap,
                   mine, shutting, acked, overlapped, crossed, clobbered>>

\* Last critical section: whatever the map holds is replaced.
Install(h) ==
    /\ pc[h] = "install"
    /\ registered' = mine[h]
    /\ mine' = [mine EXCEPT ![h] = NoTimer]
    /\ loadFailed' = FALSE
    /\ Goto(h, "idle")
    /\ UNCHANGED <<stored, requests, restarts, timer, phase, snap, shutting,
                   acked, overlapped, crossed, clobbered>>

----------------------------------------------------------------------------
(* The timer library runs due tasks, one run per task and timer at a time. *)

SetPhase(t, k, p) == phase' = [phase EXCEPT ![t][k] = p]

Fire(t, k) ==
    /\ timer[t].life = "open"
    /\ Runnable(timer[t].entry[k])
    /\ phase[t][k] = "idle"
    /\ SetPhase(t, k, "running")
    /\ timer' = [timer EXCEPT ![t].fired = @ \cup {k}]
    /\ UNCHANGED <<stored, requests, restarts, registered, snap, pc, mine,
                   shutting, acked, overlapped, crossed, clobbered,
                   loadFailed>>

\* The backup ends, in success, failure, timeout or cancellation: finish looks
\* only at the schedule's type.
RunReturns(t, k) ==
    /\ phase[t][k] = "running"
    /\ SetPhase(t, k, IF timer[t].entry[k].kind = "once" THEN "finish" ELSE "idle")
    /\ UNCHANGED <<stored, requests, restarts, registered, timer, snap, pc,
                   mine, shutting, acked, overlapped, crossed, clobbered,
                   loadFailed>>

\* A run that Close has cancelled may end without its OnFinish callback.
RunDropped(t, k) ==
    /\ timer[t].life = "closing"
    /\ phase[t][k] = "running"
    /\ SetPhase(t, k, "idle")
    /\ UNCHANGED <<stored, requests, restarts, registered, timer, snap, pc,
                   mine, shutting, acked, overlapped, crossed, clobbered,
                   loadFailed>>

\* Timer.finish of a one-time task: the entry is disabled in this timer.  Nothing
\* else changes an entry after ReplaceAll, so its version is still the run's.
Finish(t, k) ==
    /\ phase[t][k] = "finish"
    /\ timer' = [timer EXCEPT ![t].entry[k].enabled = FALSE]
    /\ SetPhase(t, k, "load")
    /\ UNCHANGED <<stored, requests, restarts, registered, snap, pc, mine,
                   shutting, acked, overlapped, crossed, clobbered,
                   loadFailed>>

\* Mutant: a callback waits until no reload of the tenant is in progress.
DisableBehindReload(t, k) ==
    /\ phase[t][k] = "load"
    /\ \A h \in Threads : pc[h] \notin Reloading
    /\ SetPhase(t, k, "idle")
    /\ UNCHANGED <<stored, requests, restarts, registered, timer, snap, pc,
                   mine, shutting, acked, overlapped, crossed, clobbered,
                   loadFailed>>

\* Manager.disableTask reads the row: an error, a missing task or a task already
\* disabled ends it.
DisableLoad(t, k) ==
    /\ phase[t][k] = "load"
    /\ \/ SetPhase(t, k, "idle") /\ UNCHANGED snap
       \/ /\ Runnable(stored.task[k])
          /\ snap' = [snap EXCEPT ![t][k] = stored]
          /\ SetPhase(t, k, "save")
    /\ UNCHANGED <<stored, requests, restarts, registered, timer, pc, mine,
                   shutting, acked, overlapped, crossed, clobbered,
                   loadFailed>>

\* Another timer still has the task to run: it was built from the row as it was
\* before this run's task was disabled in it.
RunnableElsewhere(t, k) ==
    \E u \in Timers \ {t} : timer[u].life # "none" /\ Runnable(timer[u].entry[k])

\* Mutant: disableTask clears Enabled in a copy of the task, and saves the row
\* as it was.
DisableSaveCopy(t, k) ==
    /\ phase[t][k] = "save"
    /\ stored' = snap[t][k]
    /\ clobbered' = (clobbered \/ stored # snap[t][k])
    /\ acked' = acked \cup {k}
    /\ snap' = [snap EXCEPT ![t][k] = NoConfig]
    /\ SetPhase(t, k, "idle")
    /\ UNCHANGED <<requests, restarts, registered, timer, pc, mine, shutting,
                   overlapped, crossed, loadFailed>>

\* ... and writes the whole row back with the task disabled, or fails to.
DisableSave(t, k) ==
    /\ phase[t][k] = "save"
    /\ \/ /\ stored' = [snap[t][k] EXCEPT !.task[k].enabled = FALSE]
          /\ clobbered' = (clobbered \/ stored # snap[t][k])
          /\ crossed' = (crossed \/ RunnableElsewhere(t, k))
          /\ acked' = acked \cup {k}
       \/ UNCHANGED <<stored, clobbered, crossed, acked>>
    /\ snap' = [snap EXCEPT ![t][k] = NoConfig]
    /\ SetPhase(t, k, "idle")
    /\ UNCHANGED <<requests, restarts, registered, timer, pc, mine, shutting,
                   overlapped, loadFailed>>

----------------------------------------------------------------------------
(* The process ends, and comes back with nothing but the database.         *)

Signal ==
    /\ pc[Main] = "idle"
    /\ restarts < MaxRestarts
    /\ shutting' = TRUE
    /\ Goto(Main, "take")
    /\ UNCHANGED <<stored, requests, restarts, registered, timer, phase, snap,
                   mine, acked, overlapped, crossed, clobbered, loadFailed>>

\* The process ends, killed at any point or after Manager.Stop, and is started
\* again: the goroutines, the timers and the map are gone.
Restart ==
    /\ restarts < MaxRestarts
    /\ restarts' = restarts + 1
    /\ registered' = NoTimer /\ timer' = BootTimer
    /\ phase' = BootPhase /\ snap' = BootSnap
    /\ pc' = BootPc /\ mine' = BootMine /\ shutting' = FALSE
    /\ overlapped' = FALSE /\ crossed' = FALSE /\ loadFailed' = FALSE
    /\ UNCHANGED <<stored, requests, acked, clobbered>>

----------------------------------------------------------------------------

Reload(h) == Take(h) \/ Close(h) \/ Closed(h) \/ Build(h) \/ BuildFails(h) \/ Install(h)

Callback(t, k) == Finish(t, k) \/ DisableLoad(t, k) \/ DisableSave(t, k)

Next ==
    \/ \E h \in Handlers : PutConfig(h) \/ ChangeUser(h)
    \/ \E h \in Threads : Reload(h)
    \/ \E t \in Timers, k \in Tasks : Fire(t, k) \/ RunReturns(t, k) \/ RunDropped(t, k) \/ Callback(t, k)
    \/ Signal
    \/ Restart

Spec == Init /\ [][Next]_vars

\* A goroutine that can take a step takes one: reloads and callbacks go on.  A
\* run owes nothing: Close and the 30 minute timeout cancel its context, but its
\* SFTP and S3 calls do not look at it and have no timeout of their own, so a
\* server that does not answer can hold it.  Requests, due times, signals and
\* crashes owe nothing either.
Fairness ==
    /\ \A h \in Threads : WF_vars(Reload(h))
    /\ \A t \in Timers, k \in Tasks : WF_vars(Callback(t, k))

FairSpec == Spec /\ Fairness

----------------------------------------------------------------------------
(* Properties.                                                             *)

\* Every variable stays in its range.
TypeOK ==
    /\ stored \in Config
    /\ requests \in Nat
    /\ restarts \in Nat
    /\ registered \in Timers \cup {NoTimer}
    /\ timer \in [Timers -> TimerState]
    /\ phase \in [Timers -> [Tasks -> Phases]]
    /\ snap \in [Timers -> [Tasks -> Config]]
    /\ pc \in [Threads -> Points]
    /\ mine \in [Threads -> Timers \cup {NoTimer}]
    /\ acked \subseteq Tasks
    /\ shutting \in BOOLEAN
    /\ overlapped \in BOOLEAN
    /\ crossed \in BOOLEAN
    /\ clobbered \in BOOLEAN
    /\ loadFailed \in BOOLEAN

\* The map never holds a timer that is being stopped, however reloads of the
\* tenant and Manager.Stop interleave: Snapshot reads a live timer.
RegisteredIsOpen == registered # NoTimer => timer[registered].life = "open"

\* As long as no two reloads have overlapped, a timer that still runs is the one
\* in the map or one a thread is installing or stopping: none is left running
\* where Manager.Stop cannot find it.
NoLeak ==
    ~overlapped => \A t \in Timers :
        timer[t].life # "none" => t = registered \/ \E h \in Threads : mine[h] = t

\* As long as no two reloads have overlapped, a task is never backed up by two
\* timers at once: Reload waits for the old timer's runs before it builds another.
RunsDontOverlap ==
    ~overlapped => \A t, u \in Timers, k \in Tasks :
        phase[t][k] = "running" /\ phase[u][k] = "running" => t = u

\* No request is in progress, and main is serving.
Quiet == \A h \in Threads : pc[h] = "idle"

\* Between requests the scheduler works from the configuration in the database:
\* the last saved one, and no task that is disabled there.  The ways to lose this
\* are overlapping reloads, a lost disable and, for the second half, a run that
\* had its task disabled only after the next timer was built.
FreshTimer ==
    Quiet /\ ~overlapped /\ ~clobbered /\ registered # NoTimer =>
        /\ timer[registered].rev = stored.rev
        /\ ~crossed => \A k \in Tasks :
            Runnable(timer[registered].entry[k]) => Runnable(stored.task[k])

\* Between requests the tenant has a timer, unless the last reload to end could
\* not read the configuration: then its backups stop until the next reload.
ScheduledUnlessLoadFailed == Quiet /\ ~loadFailed => registered # NoTimer

\* A one-time task that was disabled after its run does not run again, in this
\* process or after a restart, until the user saves the configuration, whether or
\* not Close waits for the callback.  Three things are excepted, each a way the
\* code has to run it again: overlapping reloads, a lost disable, and a callback
\* that disables the task after the next timer was built with it enabled.
OnceNotRepeated ==
    ~overlapped /\ ~clobbered /\ ~crossed =>
        \A k \in acked, t \in Timers : phase[t][k] # "running"

\* If Close waits for callbacks, the last of these takes overlapping reloads: the
\* callback of a run has disabled its task, or given up, before Reload reads the
\* row for the next timer.
DisabledInTime == CloseAwaitsFinish /\ ~overlapped => ~crossed

\* One timer starts a one-time task once, even when disabling it in the database
\* fails or is overtaken by another save.
StartsOnce(t, k) ==
    /\ phase[t][k] = "idle" /\ phase'[t][k] = "running"
    /\ timer[t].entry[k].kind = "once"
    => k \notin timer[t].fired

OnceFiresOncePerTimer == [][\A t \in Timers, k \in Tasks : StartsOnce(t, k)]_vars

\* No run is held for ever by a server that does not answer.
RunsEnd == \A t \in Timers, k \in Tasks : []<>(phase[t][k] # "running")

\* A reload ends if the runs it waits for do.  It waits for their callbacks as
\* well when Close does, and those never wait for the reload.
ReloadEnds ==
    RunsEnd => \A h \in Threads : pc[h] = "take" ~> pc[h] \in {"idle", "exit"}

\* README.md:146, "After a one-time schedule runs, the task is automatically
\* disabled": a task whose disabling succeeded is disabled in the database until
\* the user's next save.
OnceDisabledAfterRun == \A k \in acked : ~stored.task[k].enabled

\* timer_test.go:153, "removed once task should not be disabled after stale
\* completion": a task the user has made a repeating one is disabled by the
\* user's saves only.
RepeatStaysEnabled ==
    [][\A k \in Tasks :
        /\ stored.task[k] = [kind |-> "repeat", enabled |-> TRUE]
        /\ stored'.rev = stored.rev
        => stored'.task[k].enabled]_vars
=============================================================================
