------------------------------ MODULE Settings ------------------------------
(* What package config does to the settings of a user between the browser,  *)
(* the database and the program: defaults, secrets left blank, values from  *)
(* the environment, validation, references; and, by the same settings, when *)
(* a task runs next.  Functions only; ConfigStore has the state.            *)
(*                                                                          *)
(* Lists are sequences of records with a key, as in the code.  A secret is  *)
(* a model value, Blank when the field is empty.  What no property tells    *)
(* apart (names, remarks, regions, time-outs, prefixes) is left out.        *)
EXTENDS Naturals, Sequences, FiniteSets

CONSTANTS
    Secrets,      \* values a secret can have
    Blank,        \* no secret
    Words,        \* what a field of text can have
    SlotsPerDay   \* bound: moments of a day a schedule can name

ASSUME SettingsAssumption ==
    /\ Blank \notin Secrets /\ SlotsPerDay \in Nat \ {0}
    /\ {"", "local", "nowledgemem_api", "daily", "weekly", "default", "portable", "no cleanup",
        "none"} \subseteq Words

Types == {"s3", "webdav", "gcs", "sftp"}

\* The secrets in use with each type of target.
SlotsOf == [s3     |-> {"secret_access_key"},
            webdav |-> {"webdav_password"},
            gcs    |-> {"credentials_json"},
            sftp   |-> {"password", "private_key", "passphrase"}]

Slots == UNION {SlotsOf[t] : t \in Types}

NoSecrets == [s \in Slots |-> Blank]

Flags == {"memories", "working_memory_archive"}

DefaultExport == [f \in Flags |-> IF f = "memories" THEN "yes" ELSE "no"]

Weekdays == 0..6

\* What decodes into a configuration: the body of a request, or a row.
Sources    == [key : Words, enabled : BOOLEAN, type : Words, url : Words, path : Words,
               secret : Secrets \cup {Blank}]
Schedules  == [key : Words, enabled : BOOLEAN, type : Words, at : Nat, day : Nat]
Targets    == [key : Words, enabled : BOOLEAN, type : Words, complete : BOOLEAN,
               secrets : [Slots -> Secrets \cup {Blank}]]
Options    == [key : Words, export : [Flags -> {"", "yes", "no"}]]
Strategies == [key : Words, mode : Words, keep : Nat]
Tasks      == [key : Words, enabled : BOOLEAN, source : Words, schedule : Words,
               targets : SUBSET Words, option : Words, strategy : Words,
               encrypted : BOOLEAN, secret : Secrets \cup {Blank}]

Forms == [sources : Seq(Sources), schedules : Seq(Schedules), targets : Seq(Targets),
          options : Seq(Options), strategies : Seq(Strategies), tasks : Seq(Tasks),
          limit : Nat, days : Nat]

----------------------------------------------------------------------------
(* The settings of a user who has none yet.                                 *)

DefaultSource == "local"

DefaultOption == [key |-> "portable", export |-> DefaultExport]

DefaultStrategy == [key |-> "no cleanup", mode |-> "none", keep |-> 0]

Default == [
    sources    |-> <<[key |-> DefaultSource, enabled |-> TRUE, type |-> "nowledgemem_api",
                      url |-> "local", path |-> "", secret |-> Blank]>>,
    schedules  |-> <<[key |-> "daily", enabled |-> TRUE, type |-> "daily", at |-> 0, day |-> 0],
                     [key |-> "weekly", enabled |-> FALSE, type |-> "weekly", at |-> 0, day |-> 0]>>,
    targets    |-> <<>>,
    options    |-> <<DefaultOption>>,
    strategies |-> <<DefaultStrategy>>,
    tasks      |-> <<[key |-> "default", enabled |-> FALSE, source |-> DefaultSource,
                      schedule |-> "daily", targets |-> {}, option |-> "portable",
                      strategy |-> "no cleanup", encrypted |-> FALSE, secret |-> Blank]>>,
    limit      |-> 100,
    days       |-> 180]

----------------------------------------------------------------------------
(* Looking things up by key.                                                *)

Each(list, Op(_)) == [i \in DOMAIN list |-> Op(list[i])]

Keys(list) == {list[i].key : i \in DOMAIN list}

\* The first entry with the key.
Entry(list, key) ==
    list[CHOOSE i \in DOMAIN list :
            list[i].key = key /\ \A j \in 1..(i - 1) : list[j].key # key]

----------------------------------------------------------------------------
(* Normalize.  A schedule always has a time: a blank one is one of them.    *)

OrElse(value, fallback) == IF value = "" THEN fallback ELSE value

NormalSource(s) ==
    [s EXCEPT !.type = OrElse(@, "nowledgemem_api"), !.url = OrElse(@, "local")]

MergeExport(export) ==
    [f \in Flags |-> OrElse(export[f], DefaultExport[f])]

NormalOption(o) == [o EXCEPT !.export = MergeExport(@)]

NormalStrategy(s) == [s EXCEPT !.mode = OrElse(@, "none")]

NormalTask(t, option, strategy) ==
    [t EXCEPT !.option = OrElse(@, option), !.strategy = OrElse(@, strategy)]

Normalize(cfg) ==
    LET options    == IF cfg.options = <<>> THEN <<DefaultOption>> ELSE cfg.options
        strategies == IF cfg.strategies = <<>> THEN <<DefaultStrategy>> ELSE cfg.strategies
    IN  [cfg EXCEPT
            !.sources    = Each(@, NormalSource),
            !.options    = Each(options, NormalOption),
            !.strategies = Each(strategies, NormalStrategy),
            !.tasks      = Each(@, LAMBDA t : NormalTask(t, options[1].key, strategies[1].key)),
            !.limit      = IF @ = 0 THEN 100 ELSE @,
            !.days       = IF @ = 0 THEN 180 ELSE @]

----------------------------------------------------------------------------
(* Secrets.  The program shows none; a blank one in what comes back means   *)
(* the stored one.                                                          *)

OrSecret(value, fallback) == IF value = Blank THEN fallback ELSE value

\* Mutant: the task's password is shown.
RedactedButTasks(cfg) ==
    [cfg EXCEPT !.sources = Each(@, LAMBDA s : [s EXCEPT !.secret = Blank])]

Redacted(cfg) ==
    [cfg EXCEPT
        !.sources = Each(@, LAMBDA s : [s EXCEPT !.secret = Blank]),
        !.targets = Each(@, LAMBDA t : [t EXCEPT !.secrets = NoSecrets]),
        !.tasks   = Each(@, LAMBDA t : [t EXCEPT !.secret = Blank])]

MergeSourceSecrets(incoming, existing) ==
    IF incoming.type = "nowledgemem_api"
    THEN [incoming EXCEPT !.secret = OrSecret(@, existing.secret)]
    ELSE incoming

\* Mutant: of the three secrets of an SFTP target the passphrase is forgotten.
MergeTargetForgets(incoming, existing) ==
    IF incoming.type \in Types
    THEN [incoming EXCEPT !.secrets = [s \in Slots |->
            IF s \in SlotsOf[incoming.type] \ {"passphrase"} THEN OrSecret(@[s], existing.secrets[s])
            ELSE @[s]]]
    ELSE incoming

MergeTargetSecrets(incoming, existing) ==
    IF incoming.type \in Types
    THEN [incoming EXCEPT !.secrets = [s \in Slots |->
            IF s \in SlotsOf[incoming.type] THEN OrSecret(@[s], existing.secrets[s])
            ELSE @[s]]]
    ELSE incoming

\* Mutant: only a task that is encrypted gets its password back.
MergeTaskIfEncrypted(incoming, existing) ==
    [incoming EXCEPT !.secret = IF incoming.encrypted THEN OrSecret(@, existing.secret) ELSE @]

MergeTaskSecrets(incoming, existing) ==
    [incoming EXCEPT !.secret = OrSecret(@, existing.secret)]

\* Each entry of incoming, by Op with the entry of existing that has its key.
MergedBy(incoming, existing, Op(_, _)) ==
    Each(incoming, LAMBDA e : IF e.key \in Keys(existing) THEN Op(e, Entry(existing, e.key)) ELSE e)

MergeUserSecrets(incoming, existing) ==
    [incoming EXCEPT
        !.sources = MergedBy(@, existing.sources, MergeSourceSecrets),
        !.targets = MergedBy(@, existing.targets, MergeTargetSecrets),
        !.tasks   = MergedBy(@, existing.tasks, MergeTaskSecrets)]

----------------------------------------------------------------------------
(* The environment of the process: env.url and env.secret override or fill, *)
(* env.roots are the directories that may be backed up.  env.secret has the *)
(* variables that are set, by the kind of entry, its key and the field.     *)

Getenv(env, v) == IF v \in DOMAIN env.secret THEN env.secret[v] ELSE Blank

EnvSource(s, env) ==
    IF s.type # "nowledgemem_api" THEN s
    ELSE [s EXCEPT !.url = IF s.key = DefaultSource THEN OrElse(env.url, @) ELSE @,
                   !.secret = OrSecret(@, Getenv(env, <<"source", s.key, "api_key">>))]

EnvTarget(t, env) ==
    [t EXCEPT !.secrets = [s \in Slots |->
        IF t.type \in Types /\ s \in SlotsOf[t.type] THEN OrSecret(@[s], Getenv(env, <<"target", t.key, s>>))
        ELSE @[s]]]

EnvTask(t, env) ==
    IF t.encrypted THEN [t EXCEPT !.secret = OrSecret(@, Getenv(env, <<"task", t.key, "password">>))]
    ELSE t

ApplyEnv(raw, env) ==
    LET cfg == Normalize(raw) IN
    [cfg EXCEPT
        !.sources = Each(@, LAMBDA s : EnvSource(s, env)),
        !.targets = Each(@, LAMBDA t : EnvTarget(t, env)),
        !.tasks   = Each(@, LAMBDA t : EnvTask(t, env))]

----------------------------------------------------------------------------
(* Validate.                                                                *)

\* Every key is well formed and none occurs twice.
ValidKeys(list) ==
    /\ "" \notin Keys(list)
    /\ Cardinality(Keys(list)) = Len(list)

ValidURL(url) == url # "bad"

ValidDirectory(path, env) == path \in env.roots

ValidSource(s, env) ==
    \/ s.type = "nowledgemem_api" /\ ValidURL(s.url)
    \/ s.type = "directory" /\ ValidDirectory(s.path, env)

\* A clock time, a weekday or a date that does not parse is beyond its range.
ValidSchedule(s) ==
    \/ s.type = "once" /\ s.at < 14 * SlotsPerDay
    \/ s.type = "daily" /\ s.at < SlotsPerDay
    \/ s.type = "weekly" /\ s.at < SlotsPerDay /\ s.day \in Weekdays

\* complete: the fields that the type requires are there.
ValidTarget(t) == t.key # "" /\ t.type \in Types /\ t.complete

ValidStrategy(s) ==
    \/ s.mode = "none"
    \/ s.mode \in {"keep_last", "keep_days", "keep_after", "keep_before"} /\ s.keep >= 1

ValidTask(cfg, t) ==
    /\ t.schedule \in Keys(cfg.schedules)
    /\ t.source \in Keys(cfg.sources)
    /\ t.targets \subseteq Keys(cfg.targets)
    /\ t.option \in Keys(cfg.options)
    /\ t.strategy \in Keys(cfg.strategies)

Validate(cfg, env) ==
    /\ ValidKeys(cfg.sources) /\ \A i \in DOMAIN cfg.sources : ValidSource(cfg.sources[i], env)
    /\ ValidKeys(cfg.schedules) /\ \A i \in DOMAIN cfg.schedules : ValidSchedule(cfg.schedules[i])
    /\ ValidKeys(cfg.targets) /\ \A i \in DOMAIN cfg.targets : ValidTarget(cfg.targets[i])
    /\ ValidKeys(cfg.options)
    /\ ValidKeys(cfg.strategies) /\ \A i \in DOMAIN cfg.strategies : ValidStrategy(cfg.strategies[i])
    /\ ValidKeys(cfg.tasks) /\ \A i \in DOMAIN cfg.tasks : ValidTask(cfg, cfg.tasks[i])

----------------------------------------------------------------------------
(* Tests of a source and of a target, as the browser asks for them, and the *)
(* same stages of a backup.  Each goes through its stages and ends at the   *)
(* first that fails.  w, the world outside: which services answer (up) and  *)
(* say that they are well (healthy), which secrets are accepted, what is on *)
(* the disk; and what a target's server lets one do, which may differ from  *)
(* place to place: write the test object (tries) and remove it, make the    *)
(* directory of a backup (makes) and write there (takes), look at what the  *)
(* probe of a type of target looks at (looks).                              *)

Result(stages) ==
    IF \A i \in DOMAIN stages : stages[i].ok THEN "ok"
    ELSE stages[CHOOSE i \in DOMAIN stages :
                    ~stages[i].ok /\ \A j \in 1..(i - 1) : stages[j].ok].code

Stage(ok, code) == [ok |-> ok, code |-> code]

Accepts(w, s) == s.url \in w.up /\ s.secret \in w.accepted

ApiStages(s, w) == <<
    Stage(s.secret # Blank, "nowledgemem_api_key_required"),
    Stage(ValidURL(s.url), "nowledgemem_api_url"),
    Stage(s.url \in w.healthy, "nowledgemem_health_failed"),
    Stage(Accepts(w, s), "nowledgemem_checkpoint_failed")>>

\* exportDirectory: every file below the directory is read.
ZipDirectory(s, w) == <<
    Stage(s.path \in w.files \cup w.listed, "stat"),
    Stage(s.path \notin w.files, "not a directory"),
    Stage(s.path \in w.readable, "zip")>>

\* source.Test: the directory is listed, not read.
TestSource(s, env, w) ==
    LET e == EnvSource(NormalSource(s), env) IN
    CASE e.type = "nowledgemem_api" -> Result(ApiStages(e, w))
      [] e.type = "directory" -> Result(<<
            Stage(ValidDirectory(e.path, env), "directory_invalid"),
            Stage(e.path \in w.files \cup w.listed, "directory_unreadable"),
            Stage(e.path \notin w.files, "directory_not_directory")>>)
      [] OTHER -> "unsupported_source_type"

\* source.DownloadTest.
DownloadTest(s, env, w) ==
    LET e == EnvSource(NormalSource(s), env) IN
    CASE e.type = "nowledgemem_api" ->
            Result(ApiStages(e, w) \o <<Stage(w.exports, "nowledgemem_download_failed")>>)
      [] e.type = "directory" ->
            Result(<<Stage(ValidDirectory(e.path, env), "directory_invalid")>> \o ZipDirectory(e, w))
      [] OTHER -> "unsupported_source_type"

\* Exporter.Export: a service that wants no key is given none, and none is asked
\* how it is.
Export(cfg, task, env, w) ==
    IF task.source \notin Keys(cfg.sources) THEN "source was not found"
    ELSE LET s == Entry(cfg.sources, task.source) IN
         IF ~s.enabled THEN "source is disabled"
         ELSE CASE s.type = "nowledgemem_api" -> Result(<<
                        Stage(task.option \in Keys(cfg.options), "export option was not found"),
                        Stage(ValidURL(s.url) /\ Accepts(w, s), "checkpoint"),
                        Stage(w.exports, "download")>>)
                [] s.type = "directory" ->
                        Result(<<Stage(ValidDirectory(s.path, env), "invalid")>> \o ZipDirectory(s, w))
                [] OTHER -> "unsupported source type"

\* The server accepts one of the target's secrets.
Known(t, w) == \E f \in SlotsOf[t.type] : t.secrets[f] \in w.accepted

\* Factory.Target: only the client of an SFTP target talks to the server already.
Opens(t, w) == t.enabled /\ (t.type = "sftp" => Known(t, w))

\* storage.Test with upload_file, which takes the target for enabled: a small
\* object is written to its root and removed.
UploadTest(t, env, w) ==
    LET e == [EnvTarget(t, env) EXCEPT !.enabled = TRUE] IN
    IF ~ValidTarget(e) THEN "target_invalid"
    ELSE Result(<<Stage(Opens(e, w), "target_open_failed"),
                  Stage(Known(e, w) /\ w.tries, "target_write_failed"),
                  Stage(w.removes, "target_cleanup_failed")>>)

\* storage.Test without upload_file, probeTarget: the head of an S3 bucket, the
\* root of a WebDAV server, a GCS bucket or the directory of an SFTP target is
\* looked at; only the last two go through the factory.  (One without a directory
\* of its own is at a place that is always there.)
ProbeTest(t, env, w) ==
    LET e == EnvTarget(t, env) IN
    IF ~ValidTarget(e) THEN "target_invalid"
    ELSE Result(<<Stage(e.type \in {"gcs", "sftp"} => Opens(e, w), "target_probe_failed"),
                  Stage(Known(e, w) /\ e.type \in w.looks, "target_probe_failed")>>)

\* A backup's way to one of its targets: the object has a directory of its own,
\* which storage.Write makes first.
Upload(cfg, key, w) ==
    IF key \notin Keys(cfg.targets) THEN "target was not found"
    ELSE LET t == Entry(cfg.targets, key)
         IN  Result(<<Stage(Opens(t, w), "open"),
                      Stage(Known(t, w) /\ w.makes, "directory"),
                      Stage(w.takes, "write")>>)

\* Mutant: what is tested is what the form shows.
AsShown(cfg, shown) == shown

\* What the handlers test: the form, its blank secrets taken from the settings.
SourceToTest(cfg, shown) ==
    IF shown.key \in Keys(cfg.sources)
    THEN MergeSourceSecrets(shown, Entry(cfg.sources, shown.key)) ELSE shown

TargetToTest(cfg, shown) ==
    IF shown.key \in Keys(cfg.targets)
    THEN MergeTargetSecrets(shown, Entry(cfg.targets, shown.key)) ELSE shown

----------------------------------------------------------------------------
(* schedulecalc.  Time is counted in the moments a schedule can name, from  *)
(* the start of a Sunday.                                                   *)

Day(time) == time \div SlotsPerDay

\* Mutant: a schedule that is due now is due now, again and again.
NextRunOrNow(s, now) ==
    LET today == Day(now) * SlotsPerDay + s.at
        days  == (s.day + 7 - (Day(now) % 7)) % 7
        then  == today + days * SlotsPerDay
    IN  CASE s.type = "once"   -> IF s.at < now THEN now ELSE s.at
          [] s.type = "weekly" -> IF then >= now THEN then ELSE then + 7 * SlotsPerDay
          [] s.type = "daily"  -> IF today >= now THEN today ELSE today + SlotsPerDay

NextRun(s, now) ==
    LET today == Day(now) * SlotsPerDay + s.at
        days  == (s.day + 7 - (Day(now) % 7)) % 7
        then  == today + days * SlotsPerDay
    IN  CASE s.type = "once"   -> IF s.at < now THEN now ELSE s.at
          [] s.type = "weekly" -> IF then > now THEN then ELSE then + 7 * SlotsPerDay
          [] s.type = "daily"  -> IF today > now THEN today ELSE today + SlotsPerDay

Told(status) == [status |-> status, next |-> 0]

\* What the browser is told about a task.
Runtime(cfg, task, now) ==
    IF ~task.enabled THEN Told("disabled")
    ELSE IF task.schedule \notin Keys(cfg.schedules) THEN Told("missing_schedule")
    ELSE LET s == Entry(cfg.schedules, task.schedule) IN
         IF ~s.enabled THEN Told("schedule_disabled")
         ELSE IF ~ValidSchedule(s) THEN Told("invalid_schedule")
         ELSE [status |-> "scheduled", next |-> NextRun(s, now)]
=============================================================================
