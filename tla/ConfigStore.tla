----------------------------- MODULE ConfigStore -----------------------------
(* config.Store and the settings of one tenant: browser tabs that read and  *)
(* put them, the scheduler that switches off a task that has run, restarts  *)
(* with another environment.  Loading writes the defaults when there is no  *)
(* row; saving reads the row twice, and then creates or updates it.  No     *)
(* lock and no transaction holds these statements together.                 *)
EXTENDS Settings

CONSTANTS
    Callers,    \* goroutines that use the store; one has one browser tab
    NoRow,      \* the tenant has no row
    Envs,       \* environments the process is started with
    Worlds,     \* states of the world outside that tests are compared in
    Edits(_),   \* what a user may make of the settings a tab shows
    MaxSaves,   \* bound: requests begun
    MaxRestarts \* bound: times the process ends

ASSUME ConfigStoreAssumption ==
    /\ MaxSaves \in Nat /\ MaxRestarts \in Nat
    /\ NoRow \notin Forms
    /\ \A e \in Envs :
        /\ e.valid \in BOOLEAN /\ e.url \in Words
        /\ \A v \in DOMAIN e.secret : e.secret[v] \in Secrets \cup {Blank}

VARIABLES
    sys,      \* there is a row with the settings of the system
    row,      \* payload of the tenant's row in tenant_configs
    env,      \* environment of the process
    up,       \* the process serves requests
    call,     \* what each caller is doing
    shown,    \* what each caller's tab shows
    saves,    \* requests begun so far
    restarts, \* times the process has ended
    held,     \* history: the secret each field was given last
    savedIn,  \* history: the environment the row was last written in
    raced     \* history: a write relied on a read that was out of date

vars == <<sys, row, env, up, call, shown, saves, restarts, held, savedIn, raced>>

Pcs   == {"idle", "load", "merge", "find", "create", "update"}
Goals == {"get", "put", "disable"}

\* cfg: what is to be saved, typed: before the secrets were merged; default: it
\* is the defaults, which LoadUser saves; task: the one to disable; stale: the
\* row was written since it was read.
Idle == [pc |-> "idle", goal |-> "get", cfg |-> Default, typed |-> Default,
         default |-> FALSE, task |-> "", stale |-> FALSE]

Call == [pc : Pcs, goal : Goals, cfg : Forms, typed : Forms,
         default : BOOLEAN, task : Words, stale : BOOLEAN]

Nothing == [f \in {} |-> Blank]

Init ==
    /\ sys = FALSE /\ row = NoRow /\ up = FALSE
    /\ env \in Envs
    /\ call = [c \in Callers |-> Idle]
    /\ shown = [c \in Callers |-> NoRow]
    /\ saves = 0 /\ restarts = 0 /\ held = Nothing /\ savedIn = env /\ raced = FALSE

At(c, p)      == call[c].pc = p
Goes(c, to)   == call' = [call EXCEPT ![c] = to]
Answered(c)   == Goes(c, Idle)

History == <<held, savedIn, raced>>

----------------------------------------------------------------------------
(* The rows.                                                                *)

\* What a query of tenant_configs for the tenant gives, and whether Only finds
\* one: the column is unique.
Rows  == IF row = NoRow THEN {} ELSE {row}
Found == Rows # {}

\* Query().Where(Key("default")).Only, of the system's row.
SystemFound == sys

\* Create on system_configs.
CreateSystem == ~sys /\ sys' = TRUE

\* Create on tenant_configs, unless another was faster.
CreateRow(cfg) == ~Found /\ row' = cfg

\* UpdateOne on tenant_configs.
UpdateRow(cfg) == Found /\ row' = cfg

----------------------------------------------------------------------------
(* The process.                                                             *)

\* Save of the system's settings; the environment's are not in it yet, so that
\* they are valid.
SaveSystem == IF SystemFound THEN UNCHANGED sys ELSE CreateSystem

\* Load of the system's settings: they are written the first time, and valid in
\* the environment or the program does not start.
LoadSystem ==
    /\ IF SystemFound THEN UNCHANGED sys ELSE SaveSystem
    /\ up' = env.valid

Start ==
    /\ ~up
    /\ LoadSystem
    /\ UNCHANGED <<row, env, call, shown, saves, restarts, History>>

\* The process ends and is to start with another environment.
Restart(e) ==
    /\ e # env
    /\ restarts < MaxRestarts /\ restarts' = restarts + 1
    /\ env' = e /\ up' = FALSE
    /\ call' = [c \in Callers |-> Idle]
    /\ UNCHANGED <<sys, row, shown, saves, History>>

----------------------------------------------------------------------------
(* Requests.                                                                *)

Begin(c, r) ==
    /\ up /\ At(c, "idle")
    /\ saves < MaxSaves /\ saves' = saves + 1
    /\ Goes(c, r)
    /\ UNCHANGED <<sys, row, env, up, shown, restarts, History>>

\* GET /api/config.
Get(c) == shown[c] = NoRow /\ Begin(c, [Idle EXCEPT !.pc = "load"])

\* PUT /api/config of what the user has made of what the tab shows, if it decodes.
Put(c) ==
    /\ shown[c] # NoRow
    /\ \E body \in Edits(shown[c]) :
        /\ body \in Forms
        /\ Begin(c, [Idle EXCEPT !.pc = "merge", !.goal = "put", !.cfg = Normalize(body)])

\* disableTask, once a task with a schedule of type once has run.
Disable(c) ==
    /\ Found
    /\ \E t \in Keys(row.tasks) :
            Begin(c, [Idle EXCEPT !.pc = "load", !.goal = "disable", !.task = t])

----------------------------------------------------------------------------
(* LoadUser.                                                                *)

SwitchedOff(cfg, key) ==
    [cfg EXCEPT !.tasks = Each(@, LAMBDA t : [t EXCEPT !.enabled = @ /\ t.key # key])]

Enabled(cfg, key) == key \in Keys(cfg.tasks) /\ Entry(cfg.tasks, key).enabled

\* LoadUser returns cfg: to the tab, or to disableTask, which goes on to save it.
Return(c, cfg, calls) ==
    LET done == call' = [calls EXCEPT ![c] = Idle] IN
    IF ~Validate(cfg, env) THEN done /\ UNCHANGED shown
    ELSE IF call[c].goal # "disable"
         THEN done /\ shown' = [shown EXCEPT ![c] = Redacted(cfg)]
         ELSE /\ IF Enabled(cfg, call[c].task)
                 THEN call' = [calls EXCEPT ![c].pc = "merge", ![c].default = FALSE,
                                            ![c].cfg = SwitchedOff(cfg, call[c].task)]
                 ELSE done
              /\ UNCHANGED shown

\* The row is read; if there is none the defaults are to be saved.
LoadUser(c) ==
    /\ At(c, "load")
    /\ IF Found THEN Return(c, ApplyEnv(row, env), call)
       ELSE /\ Goes(c, [call[c] EXCEPT !.pc = "merge", !.default = TRUE, !.cfg = Default])
            /\ UNCHANGED shown
    /\ UNCHANGED <<sys, row, env, up, saves, restarts, History>>

----------------------------------------------------------------------------
(* SaveUser.                                                                *)

\* Mutant: the settings are saved unchecked.
Unchecked(cfg) == TRUE

Acceptable(cfg) == Validate(cfg, env)

\* loadStoredUserConfig and MergeUserSecrets.
Merged(cfg) == IF Found THEN MergeUserSecrets(cfg, row) ELSE cfg

\* The first read of SaveUser, and Validate.
Merge(c) ==
    /\ At(c, "merge")
    /\ LET cfg == Merged(call[c].cfg) IN
       IF Acceptable(cfg) THEN Goes(c, [call[c] EXCEPT !.pc = "find", !.cfg = cfg, !.typed = call[c].cfg])
       ELSE Answered(c)
    /\ UNCHANGED <<sys, row, env, up, shown, saves, restarts, History>>

\* The row is looked for again.
Find(c) ==
    /\ At(c, "find")
    /\ Goes(c, [call[c] EXCEPT !.pc = IF Found THEN "update" ELSE "create"])
    /\ UNCHANGED <<sys, row, env, up, shown, saves, restarts, History>>

\* Whether d has read a row that it has yet to write.
Relies(d) ==
    \/ call[d].pc \in {"find", "create", "update"}
    \/ call[d].pc = "merge" /\ (call[d].goal = "disable" \/ call[d].default)

Stale(c) == [d \in Callers |->
    IF d # c /\ Relies(d) THEN [call[d] EXCEPT !.stale = TRUE] ELSE call[d]]

\* The fields of cfg that can hold a secret, and those that are in use.
Fields(cfg) ==
    (({"source"} \X Keys(cfg.sources)) \X {"api_key"})
    \cup (({"target"} \X Keys(cfg.targets)) \X Slots)
    \cup (({"task"} \X Keys(cfg.tasks)) \X {"password"})

Used(cfg, f) ==
    CASE f[1][1] = "source" -> Entry(cfg.sources, f[1][2]).type = "nowledgemem_api"
      [] f[1][1] = "target" -> f[2] \in SlotsOf[Entry(cfg.targets, f[1][2]).type]
      [] f[1][1] = "task"   -> TRUE

SecretAt(cfg, f) ==
    CASE f[1][1] = "source" -> Entry(cfg.sources, f[1][2]).secret
      [] f[1][1] = "target" -> Entry(cfg.targets, f[1][2]).secrets[f[2]]
      [] f[1][1] = "task"   -> Entry(cfg.tasks, f[1][2]).secret

\* A field holds what it was given last, until a save finds it out of use.
Given(typed) == [f \in Fields(typed) |->
    IF SecretAt(typed, f) = Blank /\ Used(typed, f) /\ f \in DOMAIN held THEN held[f]
    ELSE SecretAt(typed, f)]

\* SaveUser has written the row; LoadUser, if it saved the defaults, returns
\* them, and a PUT loads what it has saved.
Resume(c) ==
    IF call[c].default THEN Return(c, ApplyEnv(Default, env), Stale(c))
    ELSE /\ call' = [Stale(c) EXCEPT ![c] =
                        IF call[c].goal = "put" THEN [Idle EXCEPT !.pc = "load"] ELSE Idle]
         /\ UNCHANGED shown

\* The row is created or updated.  When another has created it, or deleted it,
\* in the meantime, that is an error.
Write(c) ==
    /\ \/ At(c, "create") /\ CreateRow(call[c].cfg)
       \/ At(c, "update") /\ UpdateRow(call[c].cfg)
    /\ held' = Given(call[c].typed)
    /\ savedIn' = env
    /\ raced' = (raced \/ call[c].stale)
    /\ Resume(c)
    /\ UNCHANGED <<sys, env, up, saves, restarts>>

CreateFails(c) ==
    /\ At(c, "create") /\ Found
    /\ Answered(c)
    /\ UNCHANGED <<sys, row, env, up, shown, saves, restarts, History>>

Next ==
    \/ Start
    \/ \E e \in Envs : Restart(e)
    \/ \E c \in Callers :
        \/ Get(c) \/ Put(c) \/ Disable(c)
        \/ LoadUser(c) \/ Merge(c) \/ Find(c) \/ Write(c) \/ CreateFails(c)

Spec == Init /\ [][Next]_vars

----------------------------------------------------------------------------
(* Properties.                                                              *)

\* Every variable has the values it can have: what is stored and what is about
\* to be stored is complete, and what a tab shows has no secret in it.
TypeOK ==
    /\ sys \in BOOLEAN /\ up \in BOOLEAN /\ raced \in BOOLEAN
    /\ env \in Envs /\ savedIn \in Envs /\ saves \in 0..MaxSaves /\ restarts \in 0..MaxRestarts
    /\ up => sys /\ env.valid
    /\ row # NoRow =>
        /\ row \in Forms /\ Normalize(row) = row
        /\ \A i \in DOMAIN row.targets : row.targets[i].type \in Types
    /\ \A c \in Callers :
        /\ call[c] \in Call
        /\ shown[c] # NoRow => \A f \in Fields(shown[c]) : SecretAt(shown[c], f) = Blank

\* The database has, for every field that holds a secret, the one it was given
\* last by a save that typed one (or by the scheduler, when it saved what the
\* environment gave), through any number of saves of forms that show none, as
\* long as no two saves overlapped: SaveUser, MergeUserSecrets.
SecretsAreKept ==
    row # NoRow /\ ~raced => \A f \in Fields(row) : SecretAt(row, f) = held[f]

\* The environment's address, which is none, replaces the one of a source of cfg.
Spoils(cfg, e) ==
    /\ ~ValidURL(e.url)
    /\ \E i \in DOMAIN cfg.sources :
        cfg.sources[i].key = DefaultSource /\ cfg.sources[i].type = "nowledgemem_api"

\* What was saved can be loaded in the environment it was saved in, but for the one
\* check that SaveUser makes before ApplyEnv and LoadUser after it: the address that
\* the environment puts in place of the default source's.  When that is none the
\* save succeeds, and no request can load the settings any more.
SavedLoads ==
    row # NoRow /\ savedIn = env => (Validate(ApplyEnv(row, env), env) <=> ~Spoils(row, env))

\* What is in use: secrets of other types of target or source are not.
InUse(cfg) == [cfg EXCEPT
    !.sources = Each(@, LAMBDA s :
        IF s.type = "nowledgemem_api" THEN s ELSE [s EXCEPT !.secret = Blank]),
    !.targets = Each(@, LAMBDA t :
        [t EXCEPT !.secrets = [f \in Slots |-> IF f \in SlotsOf[t.type] THEN @[f] ELSE Blank]])]

\* Saving a page of settings as it is shown changes nothing in what is in use,
\* nor which secrets are stored: handleConfig, Redacted, MergeUserSecrets.
EchoChangesNothing ==
    row # NoRow =>
        LET seen  == ApplyEnv(row, env)
            again == MergeUserSecrets(Normalize(Redacted(seen)), row)
        IN  /\ InUse(ApplyEnv(again, env)) = InUse(seen)
            /\ \A f \in Fields(row) : Used(row, f) => SecretAt(again, f) = SecretAt(row, f)

\* The tests in the browser try what a backup will use: the form's blank secrets
\* are those of the settings, its defaults and the environment's values the same.
\* So they agree as far as the world outside lets both do what they do, and no
\* further.  Of an enabled source: what the test download gets, an export gets, and
\* the test passes; what an export gets, the test download gets, except from a
\* service that wants no key or does not answer how it is.  Of an enabled target:
\* if it takes the test object, and a backup's directory can be made and written
\* to, it takes the backup; if it takes a backup, the probe passes where what the
\* probe looks at is there.
TestAgreesWithRun ==
    row # NoRow =>
        LET cfg == ApplyEnv(row, env) IN
        \A w \in Worlds :
            /\ \A i \in DOMAIN cfg.tasks :
                LET t    == cfg.tasks[i]
                    real == Entry(cfg.sources, t.source)
                    form == SourceToTest(cfg, Entry(Redacted(cfg).sources, t.source))
                IN  Validate(cfg, env) /\ real.enabled =>
                        /\ DownloadTest(form, env, w) = "ok" =>
                            Export(cfg, t, env, w) = "ok" /\ TestSource(form, env, w) = "ok"
                        /\ /\ Export(cfg, t, env, w) = "ok"
                           /\ real.type = "nowledgemem_api" =>
                                real.secret # Blank /\ real.url \in w.healthy
                           => DownloadTest(form, env, w) = "ok"
            /\ \A i \in DOMAIN cfg.targets :
                LET t    == cfg.targets[i]
                    form == TargetToTest(cfg, Redacted(cfg).targets[i])
                IN  t.enabled =>
                        /\ UploadTest(form, env, w) = "ok" /\ w.makes /\ w.takes =>
                            Upload(cfg, t.key, w) = "ok"
                        /\ Upload(cfg, t.key, w) = "ok" /\ t.type \in w.looks =>
                            ProbeTest(form, env, w) = "ok"

\* The moments at which a schedule is due.
Due(s, time) ==
    CASE s.type = "once"   -> time = s.at
      [] s.type = "daily"  -> time % SlotsPerDay = s.at
      [] s.type = "weekly" -> time % SlotsPerDay = s.at /\ Day(time) % 7 = s.day

\* A task that is told to be scheduled is told the first moment after now at
\* which its schedule is due; one whose only moment has passed is due at once.
\* Of the tasks of a configuration that can be loaded, none is told that its
\* schedule is missing or invalid: schedulecalc, and Validate.
NextRunIsNext ==
    row # NoRow /\ Validate(row, env) =>
        \A i \in DOMAIN row.tasks, now \in 0..(14 * SlotsPerDay - 1) :
            LET s    == Entry(row.schedules, row.tasks[i].schedule)
                told == Runtime(row, row.tasks[i], now)
            IN  /\ told.status \in {"scheduled", "disabled", "schedule_disabled"}
                /\ told.status = "scheduled" =>
                    IF s.type = "once" /\ s.at <= now THEN told.next = now
                    ELSE /\ Due(s, told.next) /\ told.next > now
                         /\ \A time \in (now + 1)..(told.next - 1) : ~Due(s, time)
=============================================================================
