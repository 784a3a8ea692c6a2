----------------------- MODULE TenantSchedulerProofs -----------------------
(* Proofs about TenantScheduler, for every set of tasks and of handlers.   *)
EXTENDS TenantScheduler, TLAPS

----------------------------------------------------------------------------
(* Type correctness.                                                       *)

LEMMA NoConfigType == NoConfig \in Config
  BY DEF NoConfig, Config, TaskCfg, Kinds

LEMMA NewTimerType == NewTimer \in TimerState
  BY DEF NewTimer, NoConfig, TimerState, TaskCfg, Kinds

\* The memory of a new process.
LEMMA BootTypeOK ==
  /\ BootTimer \in [Timers -> TimerState]
  /\ BootPhase \in [Timers -> [Tasks -> Phases]]
  /\ BootSnap \in [Timers -> [Tasks -> Config]]
  /\ BootPc \in [Threads -> Points]
  /\ BootMine \in [Threads -> Timers \cup {NoTimer}]
<1>1. BootTimer \in [Timers -> TimerState]
  BY NewTimerType DEF BootTimer
<1>2. BootPhase \in [Timers -> [Tasks -> Phases]]
  BY DEF BootPhase, Phases
<1>3. BootSnap \in [Timers -> [Tasks -> Config]]
  BY NoConfigType DEF BootSnap
<1>4. BootPc \in [Threads -> Points] /\ BootMine \in [Threads -> Timers \cup {NoTimer}]
  BY DEF BootPc, BootMine, Points
<1> QED
  BY <1>1, <1>2, <1>3, <1>4

LEMMA InitTypeOK == Init => TypeOK
<1> SUFFICES ASSUME Init PROVE TypeOK
  OBVIOUS
<1>1. stored \in Config
  BY SchedulerAssumption DEF Init, Config
<1> QED
  BY <1>1, BootTypeOK DEF Init, TypeOK

LEMMA RequestTypeOK ==
  ASSUME TypeOK, NEW h \in Handlers, PutConfig(h) \/ ChangeUser(h)
  PROVE  TypeOK'
<1>1. CASE PutConfig(h)
  <2>1. PICK b \in Bodies : stored' = [rev |-> requests + 1, task |-> b]
    BY <1>1 DEF PutConfig
  <2>2. stored' \in Config
    BY <2>1, SchedulerAssumption DEF Config, TypeOK
  <2> QED
    BY <1>1, <2>2 DEF PutConfig, TypeOK, Goto, Points, Threads
<1>2. CASE ChangeUser(h)
  BY <1>2 DEF ChangeUser, TypeOK, Goto, Points, Threads
<1> QED
  BY <1>1, <1>2

LEMMA ReloadTypeOK ==
  ASSUME TypeOK, NEW h \in Threads, Reload(h)
  PROVE  TypeOK'
<1>1. CASE Take(h)
  BY <1>1 DEF Take, TypeOK, Goto, Points, AfterStop
<1>2. CASE Close(h)
  <2>1. ASSUME NEW t \in Timers
        PROVE  [timer[t] EXCEPT !.life = "closing"] \in TimerState
    <3>1. timer[t] \in TimerState
      BY DEF TypeOK
    <3> QED
      BY <3>1 DEF TimerState
  <2>2. timer' \in [Timers -> TimerState]
    BY <1>2, <2>1 DEF Close, TypeOK
  <2> QED
    BY <1>2, <2>2 DEF Close, TypeOK, Goto, Points
<1>3. CASE Closed(h)
  BY <1>3, NewTimerType DEF Closed, TypeOK, Goto, Points, AfterStop
<1>4. CASE Build(h)
  <2>1. PICK t \in Timers :
          /\ timer' = [timer EXCEPT ![t] = [life  |-> "open", rev |-> stored.rev,
                                            entry |-> stored.task, fired |-> {}]]
          /\ mine' = [mine EXCEPT ![h] = t]
    BY <1>4 DEF Build
  <2>2. [life |-> "open", rev |-> stored.rev, entry |-> stored.task, fired |-> {}]
          \in TimerState
    BY DEF TypeOK, Config, TimerState
  <2> QED
    BY <1>4, <2>1, <2>2 DEF Build, TypeOK, Goto, Points
<1>5. CASE BuildFails(h)
  BY <1>5 DEF BuildFails, TypeOK, Goto, Points
<1>6. CASE Install(h)
  BY <1>6 DEF Install, TypeOK, Goto, Points
<1> QED
  BY <1>1, <1>2, <1>3, <1>4, <1>5, <1>6 DEF Reload

LEMMA RunTypeOK ==
  ASSUME TypeOK, NEW t \in Timers, NEW k \in Tasks,
         Fire(t, k) \/ RunReturns(t, k) \/ RunDropped(t, k) \/ Callback(t, k)
  PROVE  TypeOK'
<1> USE DEF TypeOK, SetPhase, Phases
<1>1. CASE Fire(t, k)
  BY <1>1 DEF Fire, TimerState
<1>2. CASE RunDropped(t, k)
  BY <1>2 DEF RunDropped
<1>3. CASE RunReturns(t, k)
  BY <1>3 DEF RunReturns
<1>4. CASE Finish(t, k)
  <2>1. timer[t] \in TimerState /\ timer[t].entry \in [Tasks -> TaskCfg]
    BY DEF TimerState
  <2>2. [timer[t].entry[k] EXCEPT !.enabled = FALSE] \in TaskCfg
    BY <2>1 DEF TaskCfg
  <2>3. [timer[t].entry EXCEPT ![k].enabled = FALSE] \in [Tasks -> TaskCfg]
    BY <2>1, <2>2
  <2>4. [timer[t] EXCEPT !.entry[k].enabled = FALSE] \in TimerState
    BY <2>1, <2>3 DEF TimerState
  <2> QED
    BY <1>4, <2>4 DEF Finish
<1>5. CASE DisableLoad(t, k)
  <2>1. snap' = snap \/ snap' = [snap EXCEPT ![t][k] = stored]
    BY <1>5 DEF DisableLoad
  <2>2. snap' \in [Timers -> [Tasks -> Config]]
    <3>1. CASE snap' = snap
      BY <3>1
    <3>2. CASE snap' = [snap EXCEPT ![t][k] = stored]
      BY <3>2
    <3> QED
      BY <2>1, <3>1, <3>2
  <2>3. phase' = [phase EXCEPT ![t][k] = "idle"] \/ phase' = [phase EXCEPT ![t][k] = "save"]
    BY <1>5 DEF DisableLoad
  <2>4. phase' \in [Timers -> [Tasks -> Phases]]
    <3>1. CASE phase' = [phase EXCEPT ![t][k] = "idle"]
      BY <3>1
    <3>2. CASE phase' = [phase EXCEPT ![t][k] = "save"]
      BY <3>2
    <3> QED
      BY <2>3, <3>1, <3>2
  <2> QED
    BY <1>5, <2>2, <2>4 DEF DisableLoad
<1>6. CASE DisableSave(t, k)
  <2>1. snap[t][k] \in Config
    OBVIOUS
  <2>2. [snap[t][k] EXCEPT !.task[k].enabled = FALSE] \in Config
    <3>1. snap[t][k].task \in [Tasks -> TaskCfg]
      BY <2>1 DEF Config
    <3>2. [snap[t][k].task[k] EXCEPT !.enabled = FALSE] \in TaskCfg
      BY <3>1 DEF TaskCfg
    <3>3. [snap[t][k].task EXCEPT ![k].enabled = FALSE] \in [Tasks -> TaskCfg]
      BY <3>1, <3>2
    <3> QED
      BY <2>1, <3>3 DEF Config
  <2> QED
    BY <1>6, <2>2, NoConfigType DEF DisableSave
<1> QED
  BY <1>1, <1>2, <1>3, <1>4, <1>5, <1>6 DEF Callback

LEMMA ProcessTypeOK ==
  ASSUME TypeOK, Signal \/ Restart
  PROVE  TypeOK'
<1>1. CASE Signal
  BY <1>1, SchedulerAssumption DEF Signal, TypeOK, Goto, Points, Threads
<1>2. CASE Restart
  <2>1. restarts' \in Nat /\ restarts' = restarts + 1
    BY <1>2 DEF Restart, TypeOK
  <2> QED
    BY <1>2, <2>1, BootTypeOK, Zenon DEF Restart, TypeOK
<1> QED
  BY <1>1, <1>2

LEMMA NextTypeOK == TypeOK /\ [Next]_vars => TypeOK'
<1> SUFFICES ASSUME TypeOK, [Next]_vars PROVE TypeOK'
  OBVIOUS
<1>1. CASE UNCHANGED vars
  BY <1>1 DEF TypeOK, vars, memory
<1>2. CASE Next
  BY <1>2, RequestTypeOK, ReloadTypeOK, RunTypeOK, ProcessTypeOK DEF Next
<1> QED
  BY <1>1, <1>2

\* Every variable keeps its type, whatever requests, due times, signals and
\* crashes happen, and in whatever order.
THEOREM TypeCorrect == Spec => []TypeOK
  BY InitTypeOK, NextTypeOK, PTL DEF Spec

----------------------------------------------------------------------------
(* The inductive invariant of a reload.                                    *)

\* A thread between taking a timer out of the map, or building one, and letting
\* go of it.
Owner(h) == pc[h] \in {"stop", "closing", "install"}

\* Every timer belongs to the map or to one thread, whatever overlaps.
Ownership ==
    /\ registered # NoTimer => timer[registered].life = "open"
    /\ \A h \in Threads : Owner(h) => mine[h] \in Timers /\ mine[h] # registered
    /\ \A h \in Threads : pc[h] \in {"stop", "install"} => timer[mine[h]].life = "open"
    /\ \A h \in Threads : pc[h] = "closing" => timer[mine[h]].life = "closing"
    /\ \A g, h \in Threads : Owner(g) /\ Owner(h) /\ mine[g] = mine[h] => g = h

\* Until two reloads overlap, one thread reloads at a time, the map is empty
\* while it does, and no timer has lost its owner.
Alone ==
    ~overlapped =>
        /\ \A g, h \in Threads : pc[g] \in Reloading /\ pc[h] \in Reloading => g = h
        /\ \A h \in Threads : pc[h] \in Reloading => registered = NoTimer
        /\ \A t \in Timers : timer[t].life # "none" =>
              t = registered \/ \E h \in Threads : Owner(h) /\ mine[h] = t

\* A run belongs to a timer that Close has not left behind.
RunsAreOwned ==
    \A t \in Timers, k \in Tasks : phase[t][k] = "running" => timer[t].life # "none"

\* An empty map is about to be filled, or the last reload failed to.
Pending == registered = NoTimer /\ ~loadFailed => ~Quiet

ReloadInv == TypeOK /\ Ownership /\ Alone /\ RunsAreOwned /\ Pending

LEMMA InitReloadInv == Init => ReloadInv
<1> SUFFICES ASSUME Init PROVE ReloadInv
  OBVIOUS
<1>1. TypeOK
  BY InitTypeOK
<1>2. /\ registered = NoTimer
      /\ \A h \in Threads : pc[h] \in {"idle", "take"} /\ mine[h] = NoTimer
      /\ \A t \in Timers : timer[t].life = "none" /\ \A k \in Tasks : phase[t][k] = "idle"
      /\ Main \in Threads /\ pc[Main] = "take"
  BY DEF Init, BootPc, BootMine, BootTimer, BootPhase, NewTimer, Threads
<1> QED
  BY <1>1, <1>2
  DEF ReloadInv, Ownership, Owner, Alone, Reloading, RunsAreOwned, Pending, Quiet

\* A step of the timer library or of a callback moves no timer.
LEMMA FrameInv ==
  ASSUME ReloadInv, TypeOK',
         UNCHANGED <<registered, pc, mine, overlapped, loadFailed>>,
         \A t \in Timers : timer'[t].life = timer[t].life,
         RunsAreOwned'
  PROVE  ReloadInv'
<1>1. Ownership'
  BY DEF ReloadInv, TypeOK, Ownership, Owner
<1>2. Alone'
  BY DEF ReloadInv, Alone, Owner, Reloading
<1>3. Pending'
  BY DEF ReloadInv, Pending, Quiet
<1> QED
  BY <1>1, <1>2, <1>3 DEF ReloadInv

LEMMA RunInv ==
  ASSUME ReloadInv, NEW t \in Timers, NEW k \in Tasks,
         Fire(t, k) \/ RunReturns(t, k) \/ RunDropped(t, k) \/ Callback(t, k)
  PROVE  ReloadInv'
<1>1. TypeOK /\ TypeOK' /\ RunsAreOwned
  BY RunTypeOK DEF ReloadInv
<1>2. \A u \in Timers : timer'[u].life = timer[u].life
  <2>1. CASE timer' = timer
    BY <2>1
  <2>2. CASE Fire(t, k)
    BY <1>1, <2>2 DEF Fire, TypeOK, TimerState
  <2>3. CASE Finish(t, k)
    BY <1>1, <2>3 DEF Finish, TypeOK, TimerState
  <2> QED
    BY <2>1, <2>2, <2>3 DEF RunDropped, RunReturns, Callback, DisableLoad, DisableSave
<1>3. UNCHANGED <<registered, pc, mine, overlapped, loadFailed>>
  BY DEF Fire, RunDropped, Callback, RunReturns, Finish, DisableLoad, DisableSave
<1>4. \A u \in Timers, j \in Tasks :
        phase'[u][j] = "running" => phase[u][j] = "running" \/ timer[u].life = "open"
  <2>1. PICK q : phase' = [phase EXCEPT ![t][k] = q] /\ (q = "running" => timer[t].life = "open")
    <3>1. CASE Fire(t, k)
      BY <3>1 DEF Fire, SetPhase
    <3>2. CASE RunReturns(t, k)
      <4>1. PICK q \in {"finish", "idle"} : phase' = [phase EXCEPT ![t][k] = q]
        BY <3>2 DEF RunReturns, SetPhase
      <4> QED
        BY <4>1
    <3>3. CASE DisableLoad(t, k)
      BY <3>3 DEF DisableLoad, SetPhase
    <3>4. CASE RunDropped(t, k) \/ Finish(t, k) \/ DisableSave(t, k)
      BY <3>4 DEF RunDropped, Finish, DisableSave, SetPhase
    <3> QED
      BY <3>1, <3>2, <3>3, <3>4 DEF Callback
  <2> QED
    BY <1>1, <2>1 DEF TypeOK
<1>5. RunsAreOwned'
  BY <1>1, <1>2, <1>4 DEF RunsAreOwned
<1> QED
  BY <1>1, <1>2, <1>3, <1>5, FrameInv

LEMMA RequestInv ==
  ASSUME ReloadInv, NEW h \in Handlers, PutConfig(h) \/ ChangeUser(h)
  PROVE  ReloadInv'
<1>1. /\ TypeOK /\ TypeOK' /\ h \in Threads
      /\ UNCHANGED <<registered, timer, phase, mine, overlapped, loadFailed>>
      /\ pc[h] = "idle" /\ pc' = [pc EXCEPT ![h] = "take"]
  BY RequestTypeOK DEF ReloadInv, Threads, PutConfig, ChangeUser, Serving, Goto
<1>2. Ownership'
  BY <1>1 DEF ReloadInv, TypeOK, Ownership, Owner
<1>3. Alone'
  BY <1>1 DEF ReloadInv, TypeOK, Alone, Owner, Reloading
<1>4. RunsAreOwned' /\ Pending'
  BY <1>1 DEF ReloadInv, TypeOK, RunsAreOwned, Pending, Quiet
<1> QED
  BY <1>1, <1>2, <1>3, <1>4 DEF ReloadInv

LEMMA TakeInv ==
  ASSUME ReloadInv, NEW h \in Threads, Take(h)
  PROVE  ReloadInv'
<1>1. TypeOK /\ TypeOK'
  BY ReloadTypeOK DEF ReloadInv, Reload
<1>2. pc' = [pc EXCEPT ![h] = IF registered # NoTimer THEN "stop" ELSE AfterStop(h)]
  BY DEF Take, Goto
<1>3. /\ pc[h] = "take"
      /\ pc'[h] \in {"stop", "load", "exit"}
      /\ pc'[h] = "stop" => registered # NoTimer
      /\ \A g \in Threads : g # h => pc'[g] = pc[g] /\ mine'[g] = mine[g]
      /\ mine'[h] = registered /\ registered' = NoTimer
      /\ UNCHANGED <<timer, phase, loadFailed>>
  BY <1>1, <1>2 DEF Take, TypeOK, AfterStop
<1>4. Ownership'
  <2>1. ASSUME NEW g \in Threads, Owner(g)'
        PROVE  /\ mine'[g] \in Timers
               /\ g # h => Owner(g) /\ mine'[g] # registered
    BY <1>1, <1>3, <2>1 DEF ReloadInv, TypeOK, Ownership, Owner
  <2>2. \A g \in Threads : Owner(g)' => mine'[g] \in Timers /\ mine'[g] # registered'
    BY <1>3, <2>1, SchedulerAssumption
  <2>3. \A g \in Threads : pc'[g] \in {"stop", "install"} => timer'[mine'[g]].life = "open"
    BY <1>3 DEF ReloadInv, Ownership
  <2>4. \A g \in Threads : pc'[g] = "closing" => timer'[mine'[g]].life = "closing"
    BY <1>3 DEF ReloadInv, Ownership
  <2>5. \A f, g \in Threads : Owner(f)' /\ Owner(g)' /\ mine'[f] = mine'[g] => f = g
    BY <1>3, <2>1 DEF ReloadInv, Ownership
  <2> QED
    BY <1>3, <2>2, <2>3, <2>4, <2>5 DEF Ownership
<1>5. Alone'
  <2> SUFFICES ASSUME ~overlapped' PROVE Alone'
    BY DEF Alone
  <2>1. ~overlapped /\ \A g \in Threads \ {h} : pc[g] \notin Reloading
    BY DEF Take
  <2>2. \A t \in Timers : timer[t].life # "none" => t = registered
    BY <1>3, <2>1 DEF ReloadInv, Alone, Owner, Reloading
  <2>3. registered # NoTimer => pc'[h] = "stop"
    BY <1>1, <1>2 DEF TypeOK
  <2> QED
    BY <1>3, <2>1, <2>2, <2>3, SchedulerAssumption DEF Alone, Owner, Reloading
<1>6. RunsAreOwned' /\ Pending'
  BY <1>3 DEF ReloadInv, RunsAreOwned, Pending, Quiet
<1> QED
  BY <1>1, <1>4, <1>5, <1>6 DEF ReloadInv

LEMMA CloseInv ==
  ASSUME ReloadInv, NEW h \in Threads, Close(h)
  PROVE  ReloadInv'
<1>1. TypeOK /\ TypeOK'
  BY ReloadTypeOK DEF ReloadInv, Reload
<1>2. /\ pc[h] = "stop" /\ pc' = [pc EXCEPT ![h] = "closing"]
      /\ timer' = [timer EXCEPT ![mine[h]].life = "closing"]
      /\ UNCHANGED <<registered, phase, mine, overlapped, loadFailed>>
  BY DEF Close, Goto
<1>3. mine[h] \in Timers /\ mine[h] # registered
  BY <1>2 DEF ReloadInv, Ownership, Owner
<1>4. /\ timer'[mine[h]].life = "closing"
      /\ \A t \in Timers : t # mine[h] => timer'[t] = timer[t]
  BY <1>1, <1>2, <1>3 DEF TypeOK, TimerState
<1>5. Ownership'
  BY <1>1, <1>2, <1>3, <1>4 DEF ReloadInv, TypeOK, Ownership, Owner
<1>6. Alone'
  BY <1>1, <1>2, <1>3, <1>4 DEF ReloadInv, TypeOK, Alone, Owner, Reloading
<1>7. RunsAreOwned' /\ Pending'
  BY <1>1, <1>2, <1>4 DEF ReloadInv, TypeOK, RunsAreOwned, Pending, Quiet
<1> QED
  BY <1>1, <1>5, <1>6, <1>7 DEF ReloadInv

LEMMA ClosedInv ==
  ASSUME ReloadInv, NEW h \in Threads, Closed(h)
  PROVE  ReloadInv'
<1>1. TypeOK /\ TypeOK'
  BY ReloadTypeOK DEF ReloadInv, Reload
<1>2. /\ pc[h] = "closing" /\ pc' = [pc EXCEPT ![h] = AfterStop(h)]
      /\ timer' = [timer EXCEPT ![mine[h]] = NewTimer]
      /\ mine' = [mine EXCEPT ![h] = NoTimer]
      /\ Drained(mine[h])
      /\ UNCHANGED <<registered, phase, overlapped, loadFailed>>
  BY DEF Closed, Goto
<1>3. mine[h] \in Timers /\ mine[h] # registered
  BY <1>2 DEF ReloadInv, Ownership, Owner
<1>4. /\ pc'[h] \in {"load", "exit"}
      /\ timer'[mine[h]].life = "none"
      /\ \A t \in Timers : t # mine[h] => timer'[t] = timer[t]
      /\ \A g \in Threads : g # h => pc'[g] = pc[g] /\ mine'[g] = mine[g]
  BY <1>1, <1>2, <1>3 DEF TypeOK, NewTimer, AfterStop
<1>5. Ownership'
  BY <1>1, <1>2, <1>3, <1>4 DEF ReloadInv, TypeOK, Ownership, Owner
<1>6. Alone'
  BY <1>1, <1>2, <1>3, <1>4 DEF ReloadInv, TypeOK, Alone, Owner, Reloading
<1>7. \A k \in Tasks : phase[mine[h]][k] # "running"
  BY <1>2, SchedulerAssumption DEF Drained, Busy, Phases
<1>8. RunsAreOwned' /\ Pending'
  BY <1>1, <1>2, <1>4, <1>7 DEF ReloadInv, TypeOK, RunsAreOwned, Pending, Quiet
<1> QED
  BY <1>1, <1>5, <1>6, <1>8 DEF ReloadInv

LEMMA BuildInv ==
  ASSUME ReloadInv, NEW h \in Threads, Build(h)
  PROVE  ReloadInv'
<1>1. TypeOK /\ TypeOK'
  BY ReloadTypeOK DEF ReloadInv, Reload
<1>2. PICK t \in Timers :
        /\ Free(t)
        /\ timer' = [timer EXCEPT ![t] = [life  |-> "open", rev |-> stored.rev,
                                          entry |-> stored.task, fired |-> {}]]
        /\ mine' = [mine EXCEPT ![h] = t]
  BY DEF Build
<1>3. /\ pc[h] = "load" /\ pc' = [pc EXCEPT ![h] = "install"]
      /\ UNCHANGED <<registered, phase, overlapped, loadFailed>>
  BY DEF Build, Goto
<1>4. /\ timer[t].life = "none" /\ timer'[t].life = "open"
      /\ \A u \in Timers : u # t => timer'[u] = timer[u]
      /\ \A g \in Threads : g # h => pc'[g] = pc[g] /\ mine'[g] = mine[g]
      /\ pc'[h] = "install" /\ mine'[h] = t
  BY <1>1, <1>2, <1>3 DEF Free, TypeOK
<1>5. /\ t # registered
      /\ \A g \in Threads : Owner(g) => mine[g] # t
  BY <1>4, SchedulerAssumption DEF ReloadInv, Ownership, Owner
<1>6. Ownership'
  <2>1. \A g \in Threads : Owner(g)' => mine'[g] \in Timers /\ mine'[g] # registered'
    BY <1>3, <1>4, <1>5 DEF ReloadInv, Ownership, Owner
  <2>2. registered' # NoTimer => timer'[registered'].life = "open"
    BY <1>1, <1>3, <1>4, <1>5 DEF ReloadInv, Ownership, TypeOK
  <2>3. \A g \in Threads : pc'[g] \in {"stop", "install"} => timer'[mine'[g]].life = "open"
    BY <1>4, <1>5, <2>1 DEF ReloadInv, Ownership, Owner
  <2>4. \A g \in Threads : pc'[g] = "closing" => timer'[mine'[g]].life = "closing"
    BY <1>4, <1>5, <2>1 DEF ReloadInv, Ownership, Owner
  <2>5. \A f, g \in Threads : Owner(f)' /\ Owner(g)' /\ mine'[f] = mine'[g] => f = g
    BY <1>4, <1>5 DEF ReloadInv, Ownership, Owner
  <2> QED
    BY <2>1, <2>2, <2>3, <2>4, <2>5 DEF Ownership
<1>7. Alone'
  BY <1>3, <1>4 DEF ReloadInv, Alone, Owner, Reloading
<1>8. RunsAreOwned' /\ Pending'
  BY <1>3, <1>4 DEF ReloadInv, RunsAreOwned, Pending, Quiet
<1> QED
  BY <1>1, <1>6, <1>7, <1>8 DEF ReloadInv

LEMMA BuildFailsInv ==
  ASSUME ReloadInv, NEW h \in Threads, BuildFails(h)
  PROVE  ReloadInv'
<1>1. TypeOK /\ TypeOK'
  BY ReloadTypeOK DEF ReloadInv, Reload
<1>2. /\ pc[h] = "load" /\ pc' = [pc EXCEPT ![h] = "idle"] /\ loadFailed'
      /\ UNCHANGED <<registered, timer, phase, mine, overlapped>>
  BY DEF BuildFails, Goto
<1>3. Ownership'
  BY <1>1, <1>2 DEF ReloadInv, TypeOK, Ownership, Owner
<1>4. Alone'
  BY <1>1, <1>2 DEF ReloadInv, TypeOK, Alone, Owner, Reloading
<1>5. RunsAreOwned' /\ Pending'
  BY <1>2 DEF ReloadInv, RunsAreOwned, Pending
<1> QED
  BY <1>1, <1>3, <1>4, <1>5 DEF ReloadInv

LEMMA InstallInv ==
  ASSUME ReloadInv, NEW h \in Threads, Install(h)
  PROVE  ReloadInv'
<1>1. TypeOK /\ TypeOK'
  BY ReloadTypeOK DEF ReloadInv, Reload
<1>2. /\ pc[h] = "install" /\ pc'[h] = "idle"
      /\ registered' = mine[h]
      /\ \A g \in Threads : g # h => pc'[g] = pc[g] /\ mine'[g] = mine[g]
      /\ UNCHANGED <<timer, phase, overlapped>>
  BY <1>1 DEF Install, Goto, TypeOK
<1>3. mine[h] \in Timers /\ timer[mine[h]].life = "open"
  BY <1>2 DEF ReloadInv, Ownership, Owner
<1>4. Ownership'
  BY <1>2, <1>3 DEF ReloadInv, Ownership, Owner
<1>5. Alone'
  <2> SUFFICES ASSUME ~overlapped' PROVE Alone'
    BY DEF Alone
  <2>1. \A g \in Threads : g # h => pc[g] \notin Reloading
    BY <1>2 DEF ReloadInv, Alone, Reloading
  <2>2. registered = NoTimer
    BY <1>2 DEF ReloadInv, Alone, Reloading
  <2>3. \A t \in Timers : timer[t].life # "none" => t = mine[h]
    BY <1>2, <2>1, <2>2, SchedulerAssumption DEF ReloadInv, Alone, Owner, Reloading
  <2>4. \A g \in Threads : pc'[g] \notin Reloading
    BY <1>2, <2>1 DEF Reloading
  <2> QED
    BY <1>2, <2>3, <2>4 DEF Alone
<1>6. RunsAreOwned' /\ Pending'
  BY <1>2, <1>3, SchedulerAssumption DEF ReloadInv, RunsAreOwned, Pending
<1> QED
  BY <1>1, <1>4, <1>5, <1>6 DEF ReloadInv

LEMMA SignalInv ==
  ASSUME ReloadInv, Signal
  PROVE  ReloadInv'
<1>1. TypeOK /\ TypeOK' /\ Main \in Threads
  BY ProcessTypeOK DEF ReloadInv, Threads
<1>2. /\ pc[Main] = "idle" /\ pc' = [pc EXCEPT ![Main] = "take"]
      /\ UNCHANGED <<registered, timer, phase, mine, overlapped, loadFailed>>
  BY DEF Signal, Goto
<1>3. Ownership'
  BY <1>1, <1>2 DEF ReloadInv, TypeOK, Ownership, Owner
<1>4. Alone'
  BY <1>1, <1>2 DEF ReloadInv, TypeOK, Alone, Owner, Reloading
<1>5. RunsAreOwned' /\ Pending'
  BY <1>1, <1>2 DEF ReloadInv, TypeOK, RunsAreOwned, Pending, Quiet
<1> QED
  BY <1>1, <1>3, <1>4, <1>5 DEF ReloadInv

LEMMA RestartInv ==
  ASSUME ReloadInv, Restart
  PROVE  ReloadInv'
<1>1. TypeOK'
  BY ProcessTypeOK DEF ReloadInv
<1>2. /\ registered' = NoTimer
      /\ \A h \in Threads : pc'[h] \in {"idle", "take"} /\ mine'[h] = NoTimer
      /\ \A t \in Timers : timer'[t].life = "none" /\ \A k \in Tasks : phase'[t][k] = "idle"
      /\ Main \in Threads /\ pc'[Main] = "take"
  BY DEF Restart, BootPc, BootMine, BootTimer, BootPhase, NewTimer, Threads
<1>3. Ownership' /\ Alone'
  BY <1>2 DEF Ownership, Owner, Alone, Reloading
<1>4. RunsAreOwned' /\ Pending'
  BY <1>2 DEF RunsAreOwned, Pending, Quiet
<1> QED
  BY <1>1, <1>3, <1>4 DEF ReloadInv

LEMMA NextReloadInv == ReloadInv /\ [Next]_vars => ReloadInv'
<1> SUFFICES ASSUME ReloadInv, [Next]_vars PROVE ReloadInv'
  OBVIOUS
<1>1. CASE UNCHANGED vars
  <2>1. TypeOK' /\ RunsAreOwned'
    BY <1>1, NextTypeOK DEF ReloadInv, RunsAreOwned, vars, memory
  <2> QED
    BY <1>1, <2>1, FrameInv DEF vars, memory
<1>2. CASE Next
  <2>1. ASSUME NEW h \in Handlers, PutConfig(h) \/ ChangeUser(h) PROVE ReloadInv'
    BY <2>1, RequestInv
  <2>2. ASSUME NEW h \in Threads, Reload(h) PROVE ReloadInv'
    BY <2>2, TakeInv, CloseInv, ClosedInv, BuildInv, BuildFailsInv, InstallInv DEF Reload
  <2>3. ASSUME NEW t \in Timers, NEW k \in Tasks,
               Fire(t, k) \/ RunReturns(t, k) \/ RunDropped(t, k) \/ Callback(t, k)
        PROVE  ReloadInv'
    BY <2>3, RunInv
  <2>4. CASE Signal \/ Restart
    BY <2>4, SignalInv, RestartInv
  <2> QED
    BY <1>2, <2>1, <2>2, <2>3, <2>4 DEF Next
<1> QED
  BY <1>1, <1>2

\* ReloadInv holds in every reachable state.
THEOREM ReloadInvariant == Spec => []ReloadInv
  BY InitReloadInv, NextReloadInv, PTL DEF Spec

\* However many requests, reloads, signals and crashes interleave, Manager.timers
\* never holds a timer that is being stopped.
THEOREM MapHoldsLiveTimer == Spec => []RegisteredIsOpen
<1>1. ReloadInv => RegisteredIsOpen
  BY DEF ReloadInv, Ownership, RegisteredIsOpen
<1> QED
  BY <1>1, ReloadInvariant, PTL

\* Overlapping reloads are the only way to leave a timer running that nobody
\* can stop.
THEOREM TimersDontLeak == Spec => []NoLeak
<1>1. ReloadInv => NoLeak
  BY DEF ReloadInv, Alone, NoLeak
<1> QED
  BY <1>1, ReloadInvariant, PTL

\* Overlapping reloads are the only way to have two timers back up one task at
\* once, whether or not Close waits for callbacks.
THEOREM OneRunPerTask == Spec => []RunsDontOverlap
<1>1. ASSUME ReloadInv PROVE RunsDontOverlap
  <2> SUFFICES ASSUME ~overlapped, NEW t \in Timers, NEW u \in Timers, NEW k \in Tasks,
                      phase[t][k] = "running", phase[u][k] = "running"
               PROVE  t = u
    BY DEF RunsDontOverlap
  <2>1. timer[t].life # "none" /\ timer[u].life # "none"
    BY <1>1 DEF ReloadInv, RunsAreOwned
  <2>2. \A v \in {t, u} : v = registered \/ \E h \in Threads : Owner(h) /\ mine[h] = v
    BY <1>1, <2>1 DEF ReloadInv, Alone
  <2>3. \A h \in Threads : Owner(h) => pc[h] \in Reloading
    BY DEF Owner, Reloading
  <2>4. \A h \in Threads : pc[h] \in Reloading => registered = NoTimer
    BY <1>1 DEF ReloadInv, Alone
  <2>5. \A g, h \in Threads : pc[g] \in Reloading /\ pc[h] \in Reloading => g = h
    BY <1>1 DEF ReloadInv, Alone
  <2> QED
    BY <2>2, <2>3, <2>4, <2>5, SchedulerAssumption
<1> QED
  BY <1>1, ReloadInvariant, PTL

\* A tenant without a timer, while nothing is in progress, is one whose last
\* reload could not read its configuration.
THEOREM TenantIsScheduled == Spec => []ScheduledUnlessLoadFailed
<1>1. ReloadInv => ScheduledUnlessLoadFailed
  BY DEF ReloadInv, Pending, ScheduledUnlessLoadFailed
<1> QED
  BY <1>1, ReloadInvariant, PTL

----------------------------------------------------------------------------
(* What a timer, its callbacks and the row know of each other.             *)

\* A timer that Close has left behind has no run, and, where Close waits for
\* OnFinish, no callback.
CallbacksOwned ==
    \A t \in Timers, k \in Tasks :
        CloseAwaitsFinish /\ phase[t][k] # "idle" => timer[t].life # "none"

\* The callback of a run finds its entry disabled, ...
DoneDisabled ==
    \A t \in Timers, k \in Tasks : phase[t][k] \in {"load", "save"} => ~timer[t].entry[k].enabled

\* ... and a one-time task that has fired is not done yet, or disabled.
FiredOnce ==
    \A t \in Timers, k \in Tasks :
        timer[t].life = "open" /\ timer[t].entry[k].kind = "once" /\ k \in timer[t].fired =>
            phase[t][k] \in {"running", "finish"} \/ ~timer[t].entry[k].enabled

\* A run is of an entry that may run.
RunsAreDue ==
    \A t \in Timers, k \in Tasks : phase[t][k] = "running" => Runnable(timer[t].entry[k])

CallbacksInv == CallbacksOwned /\ DoneDisabled /\ FiredOnce /\ RunsAreDue

\* A task whose disabling succeeded is disabled in the row, until one overwrites
\* the other ...
AckedStored == ~clobbered => \A k \in acked : ~stored.task[k].enabled

\* ... and in every timer, unless one was built before the task was disabled.
AckedTimers ==
    ~overlapped /\ ~clobbered /\ ~crossed =>
        \A k \in acked, t \in Timers : timer[t].life # "none" =>
            ~Runnable(timer[t].entry[k])

\* A reload that has not begun will build a timer of its own.
Waiting == \E h \in Threads : pc[h] = "take"

\* A timer in the map, or on its way there.
Held(t) == t = registered \/ \E h \in Threads : pc[h] = "install" /\ mine[h] = t

\* Such a timer is of the row that is stored, or will be replaced.
Fresh ==
    ~overlapped /\ ~clobbered /\ ~Waiting => \A t \in Timers : Held(t) =>
        /\ timer[t].rev = stored.rev
        /\ ~crossed => \A k \in Tasks :
            Runnable(timer[t].entry[k]) => Runnable(stored.task[k])

SchedulerInv ==
    /\ ReloadInv /\ CallbacksInv /\ AckedStored /\ AckedTimers /\ Fresh
    /\ DisabledInTime

LEMMA PhaseSet ==
  ASSUME TypeOK, NEW t \in Timers, NEW k \in Tasks, NEW q, SetPhase(t, k, q)
  PROVE  /\ phase'[t][k] = q
         /\ \A u \in Timers, j \in Tasks :
              u # t \/ j # k => phase'[u][j] = phase[u][j]
  BY DEF TypeOK, SetPhase

\* What Fire, Finish and Build do to the timers.
LEMMA FireEffect ==
  ASSUME TypeOK, NEW t \in Timers, NEW k \in Tasks, Fire(t, k)
  PROVE  /\ phase[t][k] = "idle" /\ phase'[t][k] = "running"
         /\ \A u \in Timers, j \in Tasks :
              u # t \/ j # k => phase'[u][j] = phase[u][j]
         /\ timer[t].life = "open" /\ timer'[t].life = "open"
         /\ timer[t].entry[k].enabled
         /\ timer'[t].rev = timer[t].rev /\ timer'[t].entry = timer[t].entry
         /\ timer'[t].fired = timer[t].fired \cup {k}
         /\ \A u \in Timers : u # t => timer'[u] = timer[u]
<1>1. timer' = [timer EXCEPT ![t].fired = @ \cup {k}] /\ SetPhase(t, k, "running")
  BY DEF Fire
<1>2. timer[t] \in TimerState
  BY DEF TypeOK
<1> QED
  BY <1>1, <1>2, PhaseSet DEF Fire, Runnable, TypeOK, TimerState

LEMMA FinishEffect ==
  ASSUME TypeOK, NEW t \in Timers, NEW k \in Tasks, Finish(t, k)
  PROVE  /\ phase[t][k] = "finish" /\ phase'[t][k] = "load"
         /\ \A u \in Timers, j \in Tasks :
              u # t \/ j # k => phase'[u][j] = phase[u][j]
         /\ timer'[t].life = timer[t].life
         /\ timer'[t].rev = timer[t].rev /\ timer'[t].fired = timer[t].fired
         /\ ~timer'[t].entry[k].enabled
         /\ timer'[t].entry[k].kind = timer[t].entry[k].kind
         /\ \A j \in Tasks : j # k => timer'[t].entry[j] = timer[t].entry[j]
         /\ \A u \in Timers : u # t => timer'[u] = timer[u]
<1>1. timer' = [timer EXCEPT ![t].entry[k].enabled = FALSE] /\ SetPhase(t, k, "load")
  BY DEF Finish
<1>2. timer[t] \in TimerState /\ timer[t].entry \in [Tasks -> TaskCfg]
  BY DEF TypeOK, TimerState
<1>3. timer[t].entry[k] \in TaskCfg
  BY <1>2
<1>4. /\ timer'[t] = [timer[t] EXCEPT !.entry = [timer[t].entry EXCEPT ![k] =
                      [timer[t].entry[k] EXCEPT !.enabled = FALSE]]]
      /\ \A u \in Timers : u # t => timer'[u] = timer[u]
  BY <1>1 DEF TypeOK
<1>5. /\ timer'[t].entry = [timer[t].entry EXCEPT ![k] = [timer[t].entry[k] EXCEPT !.enabled = FALSE]]
      /\ timer'[t].life = timer[t].life
      /\ timer'[t].rev = timer[t].rev /\ timer'[t].fired = timer[t].fired
  BY <1>2, <1>4 DEF TimerState
<1>6. /\ timer'[t].entry[k] = [timer[t].entry[k] EXCEPT !.enabled = FALSE]
      /\ \A j \in Tasks : j # k => timer'[t].entry[j] = timer[t].entry[j]
  BY <1>2, <1>5
<1>7. ~timer'[t].entry[k].enabled /\ timer'[t].entry[k].kind = timer[t].entry[k].kind
  BY <1>3, <1>6 DEF TaskCfg
<1>8. phase[t][k] = "finish"
  BY DEF Finish
<1> QED
  BY <1>1, <1>4, <1>5, <1>6, <1>7, <1>8, PhaseSet

LEMMA BuildEffect ==
  ASSUME TypeOK, NEW h \in Threads, Build(h)
  PROVE  \E t \in Timers :
         /\ Free(t)
         /\ timer'[t].life = "open" /\ timer'[t].rev = stored.rev
         /\ timer'[t].entry = stored.task /\ timer'[t].fired = {}
         /\ \A u \in Timers : u # t => timer'[u] = timer[u]
         /\ mine'[h] = t
<1>1. PICK t \in Timers :
        /\ Free(t)
        /\ timer' = [timer EXCEPT ![t] = [life  |-> "open", rev |-> stored.rev,
                                          entry |-> stored.task, fired |-> {}]]
        /\ mine' = [mine EXCEPT ![h] = t]
  BY DEF Build
<1>2. /\ timer'[t] = [life |-> "open", rev |-> stored.rev, entry |-> stored.task, fired |-> {}]
      /\ \A u \in Timers : u # t => timer'[u] = timer[u]
      /\ mine'[h] = t
  BY <1>1 DEF TypeOK
<1>3. /\ timer'[t].life = "open" /\ timer'[t].rev = stored.rev
      /\ timer'[t].entry = stored.task /\ timer'[t].fired = {}
  BY <1>2
<1> QED
  BY <1>1, <1>2, <1>3

\* A callback reads and writes the row, and moves neither timers nor threads.
LEMMA CallbackStep ==
  ASSUME TypeOK, NEW t \in Timers, NEW k \in Tasks,
         RunDropped(t, k) \/ RunReturns(t, k) \/ DisableLoad(t, k) \/ DisableSave(t, k)
  PROVE  /\ UNCHANGED <<registered, timer, pc, mine, overlapped>>
         /\ \A u \in Timers, j \in Tasks :
              u # t \/ j # k => phase'[u][j] = phase[u][j]
         /\ phase'[t][k] \in {"idle", "finish", "save"}
         /\ phase[t][k] \in {"running", "load", "save"}
         /\ phase'[t][k] = "save" => phase[t][k] = "load"
         /\ phase'[t][k] = "finish" => phase[t][k] = "running"
         /\ phase[t][k] = "running" /\ timer[t].life = "open"
              /\ timer[t].entry[k].kind = "once" => phase'[t][k] = "finish"
<1>1. CASE RunDropped(t, k)
  BY <1>1, PhaseSet DEF RunDropped
<1>2. CASE RunReturns(t, k)
  BY <1>2, PhaseSet DEF RunReturns
<1>3. CASE DisableLoad(t, k)
  BY <1>3, PhaseSet DEF DisableLoad
<1>4. CASE DisableSave(t, k)
  BY <1>4, PhaseSet DEF DisableSave
<1> QED
  BY <1>1, <1>2, <1>3, <1>4

\* Until two reloads overlap, one timer is alive at most.
LEMMA OneLive ==
  ASSUME ReloadInv, ~overlapped, NEW t \in Timers, NEW u \in Timers,
         timer[t].life # "none", timer[u].life # "none"
  PROVE  t = u
<1>1. \A v \in {t, u} : v = registered \/ \E h \in Threads : Owner(h) /\ mine[h] = v
  BY DEF ReloadInv, Alone
<1>2. \A h \in Threads : Owner(h) => pc[h] \in Reloading
  BY DEF Owner, Reloading
<1>3. \A h \in Threads : pc[h] \in Reloading => registered = NoTimer
  BY DEF ReloadInv, Alone
<1>4. \A g, h \in Threads : pc[g] \in Reloading /\ pc[h] \in Reloading => g = h
  BY DEF ReloadInv, Alone
<1> QED
  BY <1>1, <1>2, <1>3, <1>4, SchedulerAssumption

LEMMA InitCallbacks == Init => CallbacksInv
  BY DEF Init, BootPhase, BootTimer, NewTimer, CallbacksInv, CallbacksOwned,
         DoneDisabled, FiredOnce, RunsAreDue

LEMMA NextCallbacks ==
  ASSUME ReloadInv, CallbacksInv, [Next]_vars
  PROVE  CallbacksInv'
<1>1. TypeOK /\ CallbacksOwned /\ DoneDisabled /\ FiredOnce /\ RunsAreDue
  BY DEF ReloadInv, CallbacksInv
<1>2. CASE UNCHANGED <<timer, phase>>
  BY <1>1, <1>2 DEF CallbacksInv, CallbacksOwned, DoneDisabled, FiredOnce, RunsAreDue, Runnable
<1>3. ASSUME NEW h \in Threads, Close(h) PROVE CallbacksInv'
  <2>1. mine[h] \in Timers
    BY <1>3 DEF Close, ReloadInv, Ownership, Owner
  <2>2. /\ timer'[mine[h]].life = "closing"
        /\ timer'[mine[h]].entry = timer[mine[h]].entry
        /\ \A t \in Timers : t # mine[h] => timer'[t] = timer[t]
        /\ phase' = phase
    BY <1>1, <1>3, <2>1 DEF Close, TypeOK, TimerState
  <2> QED
    BY <1>1, <2>1, <2>2 DEF CallbacksInv, CallbacksOwned, DoneDisabled, FiredOnce, RunsAreDue, Runnable
<1>4. ASSUME NEW h \in Threads, Closed(h) PROVE CallbacksInv'
  <2>1. mine[h] \in Timers
    BY <1>4 DEF Closed, ReloadInv, Ownership, Owner
  <2>2. /\ timer'[mine[h]] = NewTimer
        /\ \A t \in Timers : t # mine[h] => timer'[t] = timer[t]
        /\ phase' = phase
    BY <1>1, <1>4, <2>1 DEF Closed, TypeOK
  <2>3. CloseAwaitsFinish => \A k \in Tasks : phase[mine[h]][k] = "idle"
    BY <1>1, <1>4, <2>1 DEF Closed, Drained, Busy, TypeOK
  <2>4. NewTimer.life = "none" /\ \A k \in Tasks : ~NewTimer.entry[k].enabled
    BY DEF NewTimer, NoConfig
  <2>5. CallbacksOwned'
    BY <1>1, <2>2, <2>3 DEF CallbacksOwned
  <2>6. DoneDisabled'
    BY <1>1, <2>2, <2>4 DEF DoneDisabled
  <2>7. FiredOnce'
    BY <1>1, <2>2, <2>4 DEF FiredOnce
  <2>8. RunsAreDue'
    <3>1. \A k \in Tasks : phase[mine[h]][k] # "running"
      BY <1>1, <1>4, <2>1 DEF Closed, Drained, Busy, Phases
    <3> QED
      BY <1>1, <2>2, <3>1 DEF RunsAreDue, Runnable
  <2> QED
    BY <2>5, <2>6, <2>7, <2>8 DEF CallbacksInv
<1>5. ASSUME NEW h \in Threads, Build(h) PROVE CallbacksInv'
  <2>1. phase' = phase
    BY <1>5 DEF Build
  <2> QED
    BY <1>1, <1>5, <2>1, BuildEffect
    DEF Free, CallbacksInv, CallbacksOwned, DoneDisabled, FiredOnce, RunsAreDue, Runnable
<1>6. ASSUME NEW t \in Timers, NEW k \in Tasks, Fire(t, k) PROVE CallbacksInv'
  <2>1. CallbacksOwned' /\ DoneDisabled'
    BY <1>1, <1>6, FireEffect DEF CallbacksOwned, DoneDisabled
  <2>2. FiredOnce'
    BY <1>1, <1>6, FireEffect DEF FiredOnce
  <2>3. RunsAreDue'
    <3>1. Runnable(timer[t].entry[k])
      BY <1>6 DEF Fire
    <3> QED
      BY <1>1, <1>6, <3>1, FireEffect DEF RunsAreDue, Runnable
  <2> QED
    BY <2>1, <2>2, <2>3 DEF CallbacksInv
<1>7. ASSUME NEW t \in Timers, NEW k \in Tasks, Finish(t, k) PROVE CallbacksInv'
  <2>1. CallbacksOwned'
    BY <1>1, <1>7, FinishEffect DEF CallbacksOwned
  <2>2. DoneDisabled'
    BY <1>1, <1>7, FinishEffect DEF DoneDisabled
  <2>3. FiredOnce'
    BY <1>1, <1>7, FinishEffect DEF FiredOnce
  <2>4. RunsAreDue'
    BY <1>1, <1>7, FinishEffect DEF RunsAreDue, Runnable
  <2> QED
    BY <2>1, <2>2, <2>3, <2>4 DEF CallbacksInv
<1>8. ASSUME NEW t \in Timers, NEW k \in Tasks,
             RunDropped(t, k) \/ RunReturns(t, k) \/ DisableLoad(t, k) \/ DisableSave(t, k)
      PROVE  CallbacksInv'
  <2>1. CallbacksOwned'
    BY <1>1, <1>8, CallbackStep DEF CallbacksOwned
  <2>2. DoneDisabled'
    BY <1>1, <1>8, CallbackStep DEF DoneDisabled
  <2>3. FiredOnce'
    BY <1>1, <1>8, CallbackStep DEF FiredOnce
  <2>4. RunsAreDue'
    BY <1>1, <1>8, CallbackStep DEF RunsAreDue, Runnable
  <2> QED
    BY <2>1, <2>2, <2>3, <2>4 DEF CallbacksInv
<1>9. CASE Restart
  BY <1>9 DEF Restart, BootPhase, BootTimer, NewTimer, CallbacksInv, CallbacksOwned,
              DoneDisabled, FiredOnce, RunsAreDue
<1>10. CASE UNCHANGED vars \/ Signal
  BY <1>2, <1>10 DEF vars, memory, Signal
<1>11. ASSUME NEW h \in Handlers, PutConfig(h) \/ ChangeUser(h) PROVE CallbacksInv'
  BY <1>2, <1>11 DEF PutConfig, ChangeUser
<1>12. ASSUME NEW h \in Threads, Take(h) \/ BuildFails(h) \/ Install(h) PROVE CallbacksInv'
  BY <1>2, <1>12 DEF Take, BuildFails, Install
<1> QED
  BY <1>3, <1>4, <1>5, <1>6, <1>7, <1>8, <1>9, <1>10, <1>11, <1>12 DEF Next, Reload, Callback

\* A write that overtakes no other leaves the row as it was, but for the task.
LEMMA SaveEffect ==
  ASSUME TypeOK, NEW t \in Timers, NEW k \in Tasks, DisableSave(t, k), ~clobbered'
  PROVE  \/ UNCHANGED <<stored, acked, crossed, clobbered>>
         \/ /\ ~clobbered /\ acked' = acked \cup {k}
            /\ crossed' = (crossed \/ RunnableElsewhere(t, k))
            /\ stored'.rev = stored.rev
            /\ ~stored'.task[k].enabled
            /\ \A j \in Tasks : j # k => stored'.task[j] = stored.task[j]
<1>1. CASE UNCHANGED <<stored, acked, crossed, clobbered>>
  BY <1>1
<1>2. CASE /\ stored' = [snap[t][k] EXCEPT !.task[k].enabled = FALSE]
           /\ clobbered' = (clobbered \/ stored # snap[t][k])
           /\ crossed' = (crossed \/ RunnableElsewhere(t, k))
           /\ acked' = acked \cup {k}
  <2>1. ~clobbered /\ stored = snap[t][k]
    BY <1>2
  <2>2. stored \in Config /\ stored.task \in [Tasks -> TaskCfg] /\ stored.task[k] \in TaskCfg
    BY DEF TypeOK, Config
  <2>3. stored' = [stored EXCEPT !.task = [stored.task EXCEPT ![k] =
                      [stored.task[k] EXCEPT !.enabled = FALSE]]]
    BY <1>2, <2>1
  <2>4. /\ stored'.rev = stored.rev
        /\ stored'.task = [stored.task EXCEPT ![k] = [stored.task[k] EXCEPT !.enabled = FALSE]]
    BY <2>2, <2>3 DEF Config
  <2>5. /\ stored'.task[k] = [stored.task[k] EXCEPT !.enabled = FALSE]
        /\ \A j \in Tasks : j # k => stored'.task[j] = stored.task[j]
    BY <2>2, <2>4
  <2>6. ~stored'.task[k].enabled
    BY <2>2, <2>5 DEF TaskCfg
  <2> QED
    BY <1>2, <2>1, <2>4, <2>5, <2>6
<1> QED
  BY <1>1, <1>2 DEF DisableSave

LEMMA NextAckedStored ==
  ASSUME TypeOK, AckedStored, [Next]_vars
  PROVE  AckedStored'
<1>1. CASE UNCHANGED <<stored, acked, clobbered>>
  BY <1>1 DEF AckedStored
<1>2. ASSUME NEW h \in Handlers, PutConfig(h) PROVE AckedStored'
  BY <1>2 DEF PutConfig, AckedStored
<1>3. ASSUME NEW t \in Timers, NEW k \in Tasks, DisableSave(t, k) PROVE AckedStored'
  BY <1>3, SaveEffect DEF AckedStored, TypeOK
<1>4. CASE UNCHANGED vars \/ Signal \/ Restart
  BY <1>1, <1>4 DEF vars, Signal, Restart
<1>5. ASSUME NEW h \in Handlers, ChangeUser(h) PROVE AckedStored'
  BY <1>1, <1>5 DEF ChangeUser
<1>6. ASSUME NEW h \in Threads, Reload(h) PROVE AckedStored'
  BY <1>1, <1>6 DEF Reload, Take, Close, Closed, Build, BuildFails, Install
<1>7. ASSUME NEW t \in Timers, NEW k \in Tasks,
             \/ Fire(t, k) \/ RunDropped(t, k) \/ RunReturns(t, k) \/ Finish(t, k)
             \/ DisableLoad(t, k)
      PROVE  AckedStored'
  BY <1>1, <1>7 DEF Fire, RunDropped, RunReturns, Finish, DisableLoad
<1> QED
  BY <1>2, <1>3, <1>4, <1>5, <1>6, <1>7 DEF Next, Callback

\* The task a callback has just disabled is disabled in the one timer there is.
LEMMA SaverIsDone ==
  ASSUME ReloadInv, CallbacksInv, CloseAwaitsFinish, ~overlapped,
         NEW t \in Timers, NEW k \in Tasks, phase[t][k] = "save",
         NEW u \in Timers, timer[u].life # "none"
  PROVE  u = t /\ ~timer[u].entry[k].enabled
<1>1. timer[t].life # "none" /\ ~timer[t].entry[k].enabled
  BY DEF CallbacksInv, CallbacksOwned, DoneDisabled
<1>2. u = t
  BY <1>1, OneLive
<1> QED
  BY <1>1, <1>2

LEMMA NextAckedTimers ==
  ASSUME ReloadInv, CallbacksInv, AckedStored, AckedTimers, [Next]_vars
  PROVE  AckedTimers'
<1> SUFFICES ASSUME ~overlapped', ~clobbered', ~crossed',
                    NEW k \in acked', NEW t \in Timers, timer'[t].life # "none"
             PROVE  ~Runnable(timer'[t].entry[k])
  BY DEF AckedTimers, Runnable
<1> DEFINE Goal == ~Runnable(timer'[t].entry[k])
<1>1. TypeOK
  BY DEF ReloadInv
<1>2. CASE UNCHANGED <<timer, phase, clobbered>> /\ acked' \subseteq acked
             /\ (overlapped => overlapped') /\ (crossed => crossed')
  BY <1>2 DEF AckedTimers
<1>3. ASSUME NEW h \in Threads, Close(h) PROVE Goal
  <2>1. mine[h] \in Timers /\ timer[mine[h]].life = "open"
    BY <1>3 DEF Close, ReloadInv, Ownership, Owner
  <2>2. /\ timer'[mine[h]].entry = timer[mine[h]].entry
        /\ \A u \in Timers : u # mine[h] => timer'[u] = timer[u]
        /\ UNCHANGED <<phase, acked, overlapped, crossed, clobbered>>
    BY <1>1, <1>3, <2>1 DEF Close, TypeOK, TimerState
  <2>3. timer[t].life # "none" /\ timer'[t].entry = timer[t].entry
    BY <2>1, <2>2
  <2> QED
    BY <2>2, <2>3 DEF AckedTimers
<1>4. ASSUME NEW h \in Threads, Closed(h) PROVE Goal
  <2>1. mine[h] \in Timers
    BY <1>4 DEF Closed, ReloadInv, Ownership, Owner
  <2>2. /\ timer'[mine[h]].life = "none"
        /\ \A u \in Timers : u # mine[h] => timer'[u] = timer[u]
        /\ UNCHANGED <<phase, acked, overlapped, crossed, clobbered>>
    BY <1>1, <1>4, <2>1 DEF Closed, TypeOK, NewTimer
  <2> QED
    BY <2>2 DEF AckedTimers
<1>5. ASSUME NEW h \in Threads, Build(h) PROVE Goal
  <2>1. UNCHANGED <<phase, acked, overlapped, crossed, clobbered>>
    BY <1>5 DEF Build
  <2>2. PICK u \in Timers :
          /\ Free(u) /\ timer'[u].entry = stored.task
          /\ \A v \in Timers : v # u => timer'[v] = timer[v]
    BY <1>1, <1>5, BuildEffect
  <2>3. CASE t = u
    <3>1. ~stored.task[k].enabled
      BY <2>1 DEF AckedStored
    <3> QED
      BY <2>2, <2>3, <3>1 DEF Runnable
  <2>4. CASE t # u
    BY <2>1, <2>2, <2>4 DEF AckedTimers
  <2> QED
    BY <2>3, <2>4
<1>6. ASSUME NEW u \in Timers, NEW j \in Tasks, Fire(u, j) PROVE Goal
  <2>1. UNCHANGED <<acked, overlapped, crossed, clobbered>>
    BY <1>6 DEF Fire
  <2>2. timer[t].life # "none" /\ timer'[t].entry = timer[t].entry
    BY <1>1, <1>6, FireEffect
  <2> QED
    BY <2>1, <2>2 DEF AckedTimers
<1>7. ASSUME NEW u \in Timers, NEW j \in Tasks, Finish(u, j) PROVE Goal
  <2>1. UNCHANGED <<acked, overlapped, crossed, clobbered>>
    BY <1>7 DEF Finish
  <2>2. k \in Tasks
    BY <1>1, <2>1 DEF TypeOK
  <2>3. timer[t].life # "none"
    BY <1>1, <1>7, FinishEffect
  <2>4. ~Runnable(timer[t].entry[k])
    BY <2>1, <2>3 DEF AckedTimers
  <2>5. timer'[t].entry[k] = timer[t].entry[k] \/ ~timer'[t].entry[k].enabled
    BY <1>1, <1>7, <2>2, FinishEffect
  <2> QED
    BY <2>4, <2>5 DEF Runnable
<1>8. ASSUME NEW u \in Timers, NEW j \in Tasks,
             RunDropped(u, j) \/ RunReturns(u, j) \/ DisableLoad(u, j)
      PROVE  Goal
  <2>1. UNCHANGED <<timer, acked, overlapped, crossed, clobbered>>
    BY <1>8 DEF RunDropped, RunReturns, DisableLoad
  <2> QED
    BY <2>1 DEF AckedTimers
<1>9. ASSUME NEW u \in Timers, NEW j \in Tasks, DisableSave(u, j) PROVE Goal
  <2>1. UNCHANGED <<timer, overlapped>> /\ phase[u][j] = "save"
    BY <1>9 DEF DisableSave
  <2>2. /\ ~clobbered /\ ~crossed
        /\ k \in acked \/ (k = j /\ ~RunnableElsewhere(u, j))
    BY <1>1, <1>9, SaveEffect
  <2>3. CASE k \in acked
    BY <2>1, <2>2, <2>3 DEF AckedTimers
  <2>4. CASE k = j /\ ~RunnableElsewhere(u, j)
    <3>1. CASE t = u
      BY <2>1, <2>4, <3>1 DEF CallbacksInv, DoneDisabled, Runnable
    <3>2. CASE t # u
      BY <2>1, <2>4, <3>2 DEF RunnableElsewhere
    <3> QED
      BY <3>1, <3>2
  <2> QED
    BY <2>2, <2>3, <2>4
<1>10. CASE Restart
  BY <1>10 DEF Restart, BootTimer, NewTimer
<1>11. CASE UNCHANGED vars \/ Signal
  BY <1>2, <1>11 DEF vars, memory, Signal
<1>12. ASSUME NEW h \in Handlers, PutConfig(h) \/ ChangeUser(h) PROVE Goal
  BY <1>2, <1>12 DEF PutConfig, ChangeUser
<1>13. ASSUME NEW h \in Threads, Take(h) \/ BuildFails(h) \/ Install(h) PROVE Goal
  BY <1>2, <1>13 DEF Take, BuildFails, Install
<1> QED
  BY <1>3, <1>4, <1>5, <1>6, <1>7, <1>8, <1>9, <1>10, <1>11, <1>12, <1>13
  DEF Next, Reload, Callback

LEMMA HeldIsAlive ==
  ASSUME ReloadInv, NEW t \in Timers, Held(t)
  PROVE  timer[t].life = "open"
  BY SchedulerAssumption DEF ReloadInv, Ownership, Held

LEMMA NextFresh ==
  ASSUME ReloadInv, CallbacksInv, Fresh, [Next]_vars
  PROVE  Fresh'
<1> SUFFICES ASSUME ~overlapped', ~clobbered', ~Waiting', NEW t \in Timers, (Held(t))'
             PROVE  /\ timer'[t].rev = stored'.rev
                    /\ ~crossed' => \A k \in Tasks :
                         Runnable(timer'[t].entry[k]) => Runnable(stored'.task[k])
  BY DEF Fresh, Runnable
<1> DEFINE Goal == /\ timer'[t].rev = stored'.rev
                   /\ ~crossed' => \A k \in Tasks :
                        Runnable(timer'[t].entry[k]) => Runnable(stored'.task[k])
<1>1. TypeOK
  BY DEF ReloadInv
<1>2. CASE /\ UNCHANGED <<stored, clobbered>> /\ (overlapped => overlapped')
           /\ (crossed => crossed')
           /\ (Waiting => Waiting') /\ Held(t) /\ timer'[t] = timer[t]
  BY <1>2 DEF Fresh
<1>3. ASSUME NEW h \in Handlers, PutConfig(h) \/ ChangeUser(h) PROVE Goal
  <2>1. pc'[h] = "take" /\ h \in Threads
    BY <1>1, <1>3 DEF PutConfig, ChangeUser, Goto, TypeOK, Threads
  <2> QED
    BY <2>1 DEF Waiting
<1>4. CASE Signal
  <2>1. pc'[Main] = "take" /\ Main \in Threads
    BY <1>1, <1>4 DEF Signal, Goto, TypeOK, Threads
  <2> QED
    BY <2>1 DEF Waiting
<1>5. ASSUME NEW h \in Threads, Take(h) PROVE Goal
  <2>1. /\ registered' = NoTimer
        /\ \A g \in Threads \ {h} : pc[g] \notin Reloading
    BY <1>5 DEF Take
  <2>2. /\ pc'[h] # "install"
        /\ \A g \in Threads : g # h => pc'[g] = pc[g]
    BY <1>1, <1>5 DEF Take, Goto, AfterStop, TypeOK
  <2> QED
    BY <2>1, <2>2, SchedulerAssumption DEF Held, Reloading
<1>6. ASSUME NEW h \in Threads, Close(h) PROVE Goal
  <2>1. mine[h] \in Timers /\ Owner(h) /\ pc[h] = "stop"
    BY <1>6 DEF Close, ReloadInv, Ownership, Owner
  <2>2. /\ pc'[h] = "closing" /\ \A g \in Threads : g # h => pc'[g] = pc[g]
        /\ \A u \in Timers : u # mine[h] => timer'[u] = timer[u]
        /\ UNCHANGED <<stored, mine, registered, overlapped, crossed, clobbered>>
    BY <1>1, <1>6, <2>1 DEF Close, Goto, TypeOK
  <2>3. Held(t)
    BY <2>2 DEF Held
  <2>4. t # mine[h]
    BY <2>1, <2>3 DEF Held, ReloadInv, Ownership, Owner
  <2>5. Waiting => Waiting'
    BY <2>1, <2>2 DEF Waiting
  <2> QED
    BY <1>2, <2>2, <2>3, <2>4, <2>5
<1>7. ASSUME NEW h \in Threads, Closed(h) PROVE Goal
  <2>1. mine[h] \in Timers /\ Owner(h) /\ pc[h] = "closing"
    BY <1>7 DEF Closed, ReloadInv, Ownership, Owner
  <2>2. /\ pc'[h] \in {"load", "exit"}
        /\ \A g \in Threads : g # h => pc'[g] = pc[g] /\ mine'[g] = mine[g]
        /\ \A u \in Timers : u # mine[h] => timer'[u] = timer[u]
        /\ UNCHANGED <<stored, registered, overlapped, crossed, clobbered>>
    BY <1>1, <1>7, <2>1 DEF Closed, Goto, AfterStop, TypeOK
  <2>3. Held(t)
    BY <2>2 DEF Held
  <2>4. t # mine[h]
    BY <2>1, <2>3 DEF Held, ReloadInv, Ownership, Owner
  <2>5. Waiting => Waiting'
    BY <2>1, <2>2 DEF Waiting
  <2> QED
    BY <1>2, <2>2, <2>3, <2>4, <2>5
<1>8. ASSUME NEW h \in Threads, Build(h) PROVE Goal
  <2>1. /\ pc[h] = "load" /\ pc' = [pc EXCEPT ![h] = "install"]
        /\ UNCHANGED <<stored, registered, overlapped, crossed, clobbered>>
    BY <1>8 DEF Build, Goto
  <2>2. PICK u \in Timers :
          /\ timer'[u].rev = stored.rev /\ timer'[u].entry = stored.task
          /\ \A v \in Timers : v # u => timer'[v] = timer[v]
          /\ mine' = [mine EXCEPT ![h] = u]
    <3>1. PICK u \in Timers :
            /\ timer' = [timer EXCEPT ![u] = [life  |-> "open", rev |-> stored.rev,
                                              entry |-> stored.task, fired |-> {}]]
            /\ mine' = [mine EXCEPT ![h] = u]
      BY <1>8 DEF Build
    <3>2. timer'[u] = [life |-> "open", rev |-> stored.rev, entry |-> stored.task,
                       fired |-> {}]
      BY <1>1, <3>1 DEF TypeOK
    <3>3. \A v \in Timers : v # u => timer'[v] = timer[v]
      BY <1>1, <3>1 DEF TypeOK
    <3>4. timer'[u].rev = stored.rev /\ timer'[u].entry = stored.task
      BY <3>2
    <3> QED
      BY <3>1, <3>3, <3>4
  <2>3. /\ mine'[h] = u /\ pc'[h] = "install"
        /\ \A g \in Threads : g # h => pc'[g] = pc[g] /\ mine'[g] = mine[g]
    BY <1>1, <2>1, <2>2 DEF TypeOK
  <2>4. CASE t = u
    BY <2>1, <2>2, <2>4
  <2>5. CASE t # u
    <3>1. Held(t)
      BY <2>1, <2>3, <2>5 DEF Held
    <3>2. Waiting => Waiting'
      BY <2>1, <2>3 DEF Waiting
    <3> QED
      BY <1>2, <2>1, <2>2, <2>5, <3>1, <3>2
  <2> QED
    BY <2>4, <2>5
<1>9. ASSUME NEW h \in Threads, BuildFails(h) \/ Install(h) PROVE Goal
  <2>1. /\ UNCHANGED <<stored, timer, overlapped, crossed, clobbered>>
        /\ pc[h] # "take" /\ pc' = [pc EXCEPT ![h] = "idle"]
        /\ \A g \in Threads : g # h => mine'[g] = mine[g]
        /\ registered' = registered \/ (pc[h] = "install" /\ registered' = mine[h])
    <3>1. CASE BuildFails(h)
      BY <3>1 DEF BuildFails, Goto
    <3>2. CASE Install(h)
      BY <1>1, <3>2 DEF Install, Goto, TypeOK
    <3> QED
      BY <1>9, <3>1, <3>2
  <2>2. pc'[h] = "idle" /\ \A g \in Threads : g # h => pc'[g] = pc[g]
    BY <1>1, <2>1 DEF TypeOK
  <2>3. Held(t)
    BY <2>1, <2>2 DEF Held
  <2>4. Waiting => Waiting'
    BY <2>1, <2>2 DEF Waiting
  <2> QED
    BY <1>2, <2>1, <2>3, <2>4
<1>10. ASSUME NEW u \in Timers, NEW j \in Tasks, Fire(u, j) \/ Finish(u, j) PROVE Goal
  <2>1. UNCHANGED <<stored, registered, pc, mine, overlapped, crossed, clobbered>>
    BY <1>10 DEF Fire, Finish
  <2>2. Held(t) /\ ~Waiting
    BY <2>1 DEF Held, Waiting
  <2>3. /\ timer[t].rev = stored.rev
        /\ ~crossed => \A k \in Tasks :
             Runnable(timer[t].entry[k]) => Runnable(stored.task[k])
    BY <2>1, <2>2 DEF Fresh
  <2>4. /\ timer'[t].rev = timer[t].rev
        /\ \A k \in Tasks : \/ timer'[t].entry[k] = timer[t].entry[k]
                            \/ ~timer'[t].entry[k].enabled
    BY <1>1, <1>10, FireEffect, FinishEffect
  <2> QED
    BY <2>1, <2>3, <2>4 DEF Runnable
<1>11. ASSUME NEW u \in Timers, NEW j \in Tasks,
              RunDropped(u, j) \/ RunReturns(u, j) \/ DisableLoad(u, j)
       PROVE  Goal
  <2>1. UNCHANGED <<stored, timer, registered, pc, mine, overlapped, crossed, clobbered>>
    BY <1>11 DEF RunDropped, RunReturns, DisableLoad
  <2> QED
    BY <1>2, <2>1 DEF Held, Waiting
<1>12. ASSUME NEW u \in Timers, NEW j \in Tasks, DisableSave(u, j) PROVE Goal
  <2>1. UNCHANGED <<timer, registered, pc, mine, overlapped>> /\ phase[u][j] = "save"
    BY <1>12 DEF DisableSave
  <2>2. Held(t) /\ ~Waiting
    BY <2>1 DEF Held, Waiting
  <2>3. CASE UNCHANGED <<stored, acked, crossed, clobbered>>
    BY <1>2, <2>1, <2>2, <2>3
  <2>4. CASE /\ ~clobbered /\ acked' = acked \cup {j}
             /\ crossed' = (crossed \/ RunnableElsewhere(u, j))
             /\ stored'.rev = stored.rev
             /\ ~stored'.task[j].enabled
             /\ \A i \in Tasks : i # j => stored'.task[i] = stored.task[i]
    <3>1. /\ timer[t].rev = stored.rev
          /\ ~crossed => \A k \in Tasks :
               Runnable(timer[t].entry[k]) => Runnable(stored.task[k])
      BY <2>1, <2>2, <2>4 DEF Fresh
    <3>2. ~crossed' => ~Runnable(timer[t].entry[j])
      <4>1. CASE t = u
        BY <2>1, <4>1 DEF CallbacksInv, DoneDisabled, Runnable
      <4>2. CASE t # u
        BY <2>2, <2>4, <4>2, HeldIsAlive DEF RunnableElsewhere
      <4> QED
        BY <4>1, <4>2
    <3>3. ~crossed' => ~crossed
      BY <2>4
    <3> QED
      BY <2>1, <2>4, <3>1, <3>2, <3>3 DEF Runnable
  <2> QED
    BY <1>1, <1>12, <2>3, <2>4, SaveEffect
<1>13. CASE Restart
  BY <1>13, SchedulerAssumption DEF Restart, BootPc, Held
<1>14. CASE UNCHANGED vars
  BY <1>2, <1>14 DEF vars, memory, Held, Waiting
<1> QED
  BY <1>3, <1>4, <1>5, <1>6, <1>7, <1>8, <1>9, <1>10, <1>11, <1>12, <1>13, <1>14
  DEF Next, Reload, Callback

LEMMA NextDisabledInTime ==
  ASSUME ReloadInv, CallbacksInv, DisabledInTime, [Next]_vars
  PROVE  DisabledInTime'
<1>1. TypeOK
  BY DEF ReloadInv
<1>2. CASE (crossed' => crossed) /\ (overlapped => overlapped')
  BY <1>2 DEF DisabledInTime
<1>3. ASSUME NEW t \in Timers, NEW k \in Tasks, DisableSave(t, k) PROVE DisabledInTime'
  <2> SUFFICES ASSUME CloseAwaitsFinish, ~overlapped' PROVE ~crossed'
    BY DEF DisabledInTime
  <2>1. UNCHANGED overlapped /\ phase[t][k] = "save"
    BY <1>3 DEF DisableSave
  <2>2. ~crossed
    BY <2>1 DEF DisabledInTime
  <2>3. ~RunnableElsewhere(t, k)
    BY <2>1, SaverIsDone DEF RunnableElsewhere
  <2> QED
    BY <1>3, <2>2, <2>3 DEF DisableSave
<1>4. CASE UNCHANGED vars \/ Signal
  BY <1>2, <1>4 DEF vars, memory, Signal
<1>5. CASE Restart
  BY <1>5 DEF Restart, DisabledInTime
<1>6. ASSUME NEW h \in Handlers, PutConfig(h) \/ ChangeUser(h) PROVE DisabledInTime'
  BY <1>2, <1>6 DEF PutConfig, ChangeUser
<1>7. ASSUME NEW h \in Threads, Reload(h) PROVE DisabledInTime'
  BY <1>2, <1>7 DEF Reload, Take, Close, Closed, Build, BuildFails, Install
<1>8. ASSUME NEW t \in Timers, NEW k \in Tasks,
             \/ Fire(t, k) \/ RunDropped(t, k) \/ RunReturns(t, k) \/ Finish(t, k)
             \/ DisableLoad(t, k)
      PROVE  DisabledInTime'
  BY <1>2, <1>8 DEF Fire, RunDropped, RunReturns, Finish, DisableLoad
<1> QED
  BY <1>3, <1>4, <1>5, <1>6, <1>7, <1>8 DEF Next, Callback

\* SchedulerInv holds in every reachable state.
THEOREM SchedulerInvariant == Spec => []SchedulerInv
<1>1. Init => SchedulerInv
  <2> SUFFICES ASSUME Init PROVE SchedulerInv
    OBVIOUS
  <2>1. /\ acked = {} /\ registered = NoTimer
        /\ \A h \in Threads : pc[h] # "install"
    BY DEF Init, BootPc
  <2>2. AckedStored /\ AckedTimers
    BY <2>1 DEF AckedStored, AckedTimers
  <2>3. Fresh
    BY <2>1, SchedulerAssumption DEF Fresh, Held
  <2>4. DisabledInTime
    BY DEF Init, DisabledInTime
  <2> QED
    BY <2>2, <2>3, <2>4, InitReloadInv, InitCallbacks DEF SchedulerInv
<1>2. SchedulerInv /\ [Next]_vars => SchedulerInv'
  <2> SUFFICES ASSUME SchedulerInv, [Next]_vars PROVE SchedulerInv'
    OBVIOUS
  <2>1. /\ ReloadInv /\ CallbacksInv /\ AckedStored /\ AckedTimers /\ Fresh
        /\ DisabledInTime /\ TypeOK
    BY DEF SchedulerInv, ReloadInv
  <2> QED
    BY <2>1, NextReloadInv, NextCallbacks, NextAckedStored, NextAckedTimers, NextFresh,
       NextDisabledInTime
    DEF SchedulerInv
<1> QED
  BY <1>1, <1>2, PTL DEF Spec

\* Overlapping reloads, a lost disable and a task disabled after the next timer
\* was built are the only ways for the scheduler to work, between requests, from
\* anything but the stored configuration.
THEOREM TimerIsFresh == Spec => []FreshTimer
<1>1. ASSUME SchedulerInv PROVE FreshTimer
  <2> SUFFICES ASSUME Quiet, ~overlapped, ~clobbered, registered # NoTimer
               PROVE  /\ timer[registered].rev = stored.rev
                      /\ ~crossed => \A k \in Tasks :
                           Runnable(timer[registered].entry[k]) => Runnable(stored.task[k])
    BY DEF FreshTimer
  <2>1. registered \in Timers
    BY <1>1 DEF SchedulerInv, ReloadInv, TypeOK
  <2>2. ~Waiting /\ Held(registered)
    BY DEF Quiet, Waiting, Held
  <2> QED
    BY <1>1, <2>1, <2>2 DEF SchedulerInv, Fresh
<1> QED
  BY <1>1, SchedulerInvariant, PTL

\* A one-time task that was disabled after its run stays quiet, across reloads
\* and restarts, until the user saves, unless reloads overlap, a save is lost or
\* the task was disabled after the next timer was built.  Nothing is supposed of
\* what the timer library's Close waits for.
THEOREM OnceStaysQuiet == Spec => []OnceNotRepeated
<1>1. ASSUME SchedulerInv PROVE OnceNotRepeated
  <2> SUFFICES ASSUME ~overlapped, ~clobbered, ~crossed,
                      NEW k \in acked, NEW t \in Timers, phase[t][k] = "running"
               PROVE  FALSE
    BY DEF OnceNotRepeated
  <2>1. k \in Tasks
    BY <1>1 DEF SchedulerInv, ReloadInv, TypeOK
  <2>2. timer[t].life # "none" /\ Runnable(timer[t].entry[k])
    BY <1>1, <2>1 DEF SchedulerInv, ReloadInv, RunsAreOwned, CallbacksInv, RunsAreDue
  <2> QED
    BY <1>1, <2>2 DEF SchedulerInv, AckedTimers
<1> QED
  BY <1>1, SchedulerInvariant, PTL

\* Where Close waits for callbacks, a task is disabled after the next timer was
\* built only if reloads overlap: the exception the two theorems above make is
\* then no exception of its own.
THEOREM CallbacksAreInTime == Spec => []DisabledInTime
<1>1. SchedulerInv => DisabledInTime
  BY DEF SchedulerInv
<1> QED
  BY <1>1, SchedulerInvariant, PTL

\* A timer starts a one-time task once, whatever becomes of its row.
THEOREM FiresOncePerTimer == Spec => OnceFiresOncePerTimer
<1>1. SchedulerInv /\ [Next]_vars => [\A t \in Timers, k \in Tasks : StartsOnce(t, k)]_vars
  <2> SUFFICES ASSUME SchedulerInv, Next, NEW t \in Timers, NEW k \in Tasks,
                      phase[t][k] = "idle", phase'[t][k] = "running",
                      timer[t].entry[k].kind = "once"
               PROVE  k \notin timer[t].fired
    BY DEF StartsOnce
  <2>1. TypeOK /\ FiredOnce
    BY DEF SchedulerInv, ReloadInv, CallbacksInv
  <2>2. CASE Fire(t, k)
    BY <2>1, <2>2, FireEffect DEF FiredOnce
  <2>3. ASSUME NEW u \in Timers, NEW j \in Tasks, Fire(u, j), u # t \/ j # k PROVE FALSE
    BY <2>1, <2>3, FireEffect
  <2>4. ASSUME NEW u \in Timers, NEW j \in Tasks, Finish(u, j) PROVE FALSE
    BY <2>1, <2>4, FinishEffect
  <2>5. ASSUME NEW u \in Timers, NEW j \in Tasks,
               RunDropped(u, j) \/ RunReturns(u, j) \/ DisableLoad(u, j) \/ DisableSave(u, j)
        PROVE  FALSE
    BY <2>1, <2>5, CallbackStep
  <2>6. CASE UNCHANGED phase
    BY <2>6
  <2>7. CASE Restart
    BY <2>7 DEF Restart, BootPhase
  <2> QED
    BY <2>2, <2>3, <2>4, <2>5, <2>6, <2>7
    DEF Next, Callback, Reload, PutConfig, ChangeUser, Take, Close, Closed, Build,
        BuildFails, Install, Signal
<1> QED
  BY <1>1, SchedulerInvariant, PTL DEF Spec, OnceFiresOncePerTimer

=============================================================================
