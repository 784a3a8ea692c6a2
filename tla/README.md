# Verification of nowledge-mem-snap

TLA+ specifications of nowledge-mem-snap, a server that backs up Nowledge Mem
instances and directories to S3, WebDAV, GCS and SFTP storage on a schedule and
restores backups into Nowledge Mem. The specifications are written from the Go
code under `src/internal`; TLC checks them on small instances and TLAPS proves
most of their safety properties for every value of the constants. Run TLC with
`tlc -config <run>.cfg <module>.tla`, TLAPS with `tlapm <module>.tla`.

## The system

| Part | State it keeps | Operations | Hard behaviour |
| --- | --- | --- | --- |
| `scheduler.Manager` | one `tasktimer.Timer` per tenant in a map under a mutex | `StartAll`, `Reload`, `Snapshot`, `disableTask`, `Stop` | a reload runs outside the mutex, so reloads of a tenant overlap; it waits for the runs of the timer it replaces; completion callbacks write the configuration back |
| `tasktimer.Timer` | the entries with their versions; the library's runs | `ReplaceAll`, `Upsert`, `Remove`, `Start`, `Stop`, `finish` | a run ends while its entry is replaced; a one-time task must run once |
| `config.Store`: configurations | `system_config`, `tenant_config` rows | `Load`, `LoadUser`, `SaveUser`, `ListUsers` | whole rows are read, changed and written by several goroutines; a missing row is created by a read |
| `config.Store`: users | `users` rows, with the tenant's configuration and history | setup, create, update, rename, delete, OIDC linking | checks are made before the transaction that relies on them |
| `backup.Runner` | none; a run is a value | export, package, upload to every target at once, retention, history record | targets fail one by one; cancellation and the 30 minute timeout; the record is written last |
| `storage` | remote directories shared by runs and by tasks | `Write`, `Read`, list, `ApplyRetention` | two runs trim one directory; a write is closed from another goroutine when its context ends |
| `history.Store` | `run_records` rows | `Append`, `List`, pruning | every run has a store and a mutex of its own over one table |
| `archive` | none | `ObjectName`, `RetentionDirectory`, `Build`, `Encrypt`, `Decrypt` | two functions make the name of an object and the directory its retention looks in from one template; what an object is is told by its name |
| `server.Auth` | signed cookies, held by browsers | sign-in, sign-out, visits to an OIDC provider, linking | several tabs and one cookie; sign-ins that create accounts at once |
| `restore.Manager` | jobs in memory | `Start`, `Get`, the job's goroutine | answers are lost, requests arrive late, the process ends, imports go on elsewhere |
| `server` | none | the HTTP handlers | each handler is a sequence of store calls and a reload |
| `app.serve` | none | bootstrap of the administrator, boot, signal, shutdown | a signal ends contexts, then waits for handlers, then stops the timers |

A handler writes through `config.Store` and calls `Manager.Reload`, which builds
a timer over a `backup.Runner` for the configuration it has just read; the timer
runs backups through `storage` and records them through `history`, and its
completion callback writes through `config.Store` again. Restore jobs share
`storage` and `archive` with the runner and nothing else.

What makes the parts correct: settings keep their secrets through forms that show
none, and what was saved can be loaded; a person has one account and signs in to
it; what a run stores is found again by its retention and by a restore; at most one live timer per tenant, built from the
stored configuration; no task in two runs at once; a one-time task runs once; a
backup reported as stored is stored, and retention never deletes the newest
ones; the history keeps the newest runs; a restore imports at most once and says
"completed" only of an import that succeeded; there is always an administrator,
and configurations and histories follow their users.

`PROJECT.json` lists every component with what is modelled of it, every hazard
with the properties that cover it, and for every definition the lines of Go it
models.

## The modules

### TenantScheduler

The scheduler of one tenant. Tenants share only the mutex of the map, so one is
enough. Main (`app.serve`: `StartAll`, later `Manager.Stop`) and the request
handlers are threads with a program counter that walks through `Reload`: `take`
(first critical section), `stop` and `closing` (`old.Stop`), `load` (`LoadUser`,
`New`, `Start`, `ReplaceAll`), `install` (last critical section). `timer[t]` is a
`tasktimer.Timer` with the revision of the row it was built from;
`phase[t][k]` is where the library is with task `k`: running, in `finish`, or at
one of the two database statements of `disableTask`. `stored` is the tenant's
row; `rev` tells the saves of users apart.

Time is abstracted: a task that the timer holds may fall due at any moment.
What `schedulecalc.Runtime` calls disabled, missing or invalid never fires. The
timer library is modelled by the options the code gives it (one run per key, runs
cancelled and waited for on `Close`, rescheduled after `OnFinish`). Whether
`Close` also waits for `OnFinish` the code does not tell, so it is the constant
`CloseAwaitsFinish`: `SchedulerSafety` has it FALSE, the weaker library, and
`SchedulerReload` TRUE, the one a reload waits longest for; the proofs hold for both.
`SaveUser` is one step here, its read of the old secrets included.

`overlapped`, `clobbered`, `crossed` and `acked` are history variables. The code does
not keep two reloads of a tenant from overlapping, nor a `disableTask` from
overwriting a row saved since it read it (`clobbered`), nor, if `Close` does not wait
for it, from coming after the next timer was built with the task still enabled
(`crossed`); several properties hold exactly until that has happened, and are stated
so. `DisabledInTime` says that the last cannot happen without the first if `Close`
does wait. Their negations are not claims of the
code, except where a document makes one (the violation runs).

### RestoreJobs and RestorePromise

`run` publishes a stage just before the call it names, so a job's `state` is its
goroutine's program counter and one action is the return of a call with what
follows up to the next. `wire`, `imports` and `import` are the destination's
side: an upload may be received or lost, also after the job has given up, and an
import ends well or badly on its own. `Fail` is any error return, panic or
useless answer. The bytes of an object are abstracted to sealed or plain, which its
name (`enc`) need not tell: anything may lie under a name, and a template that ends
with `.zip` gives a sealed object a plain one. The job goes by the name. A password is
right, wrong or blank. `cancelled` is unreachable, because the job's
context never ends, and is left out. Uploads are not retried below the code
either: Go's HTTP client does not repeat a POST.

`RestorePromise` says what a job promises whatever its stages are: accepted
once, delivered at most once, "completed" only after a good import, forgotten by
a process that ends. `RestoreJobs` implements it under the mapping
`status <- [j |-> Status(j)]`, which is checked and proved.

### Accounts

Users, what is kept under their names (`config`, `records`), the handlers that change
them and those who write under a name whoever has it. Each is a sequence of
statements: read the user, check (administrators left, name free), open the
transaction, commit, read again, load the configurations. Accounts come from setup, an
administrator, the environment of a process that starts on an empty table
(`Bootstrap`; no request is served meanwhile) and OIDC sign-ins (`SignIn`), which ask
for no setup, make no administrator and load no configuration. A load may fail, at
`Look` or at `Make`, and nobody retries it. `known` are the sessions handed out: a
name and the user who got it. A session may visit or save (`Put`) as long as it likes,
also after its user was renamed or deleted, and a run or a completion callback
(`RunEnds`) goes by the name under which its configuration was found. What is written
is labelled with the user it was written for, not with the one who has the name then,
so that a row which a later user of the name inherits can be seen.

The history variables name what the code does not prevent: `raced` (a commit relied on
a check made before another commit), `cut` (a crash stopped a request half-way), `led`
(there has been an administrator), `missed` (users made by a sign-in, or whose load
failed) and `late` (users for whom something was written under a name that was not
theirs any more). A user's name and tenant key are one value.

### SignIns

The users table again, now with names, e-mail addresses, identities of an OIDC
provider and passwords; browsers with a session cookie and one cookie for a visit
to the provider; and an administrator's page. A request is the sequence of its
statements: `find` (the first read), `candidates` (the account with a verified
address), `allocate` (one free name after the other), `check` (names and address),
`write`, `read` (what the session is made from). The unique indexes of the table
are `Indexed`: a statement that breaks one fails. Addresses have no index, only
`EmailIsUnique` before the write. `raced` and `stale` say, as in `Accounts`, that a
write relied on a read that was out of date: `linkOIDCByVerifiedEmail` may
overwrite an identity that was linked between its read and its write, and two
requests can give two users one address, so the properties hold until then.
Signatures of cookies and tokens are taken as unforgeable, and a user of the
application as one who types the right password.

### Settings and ConfigStore

`Settings` has what package `config` does to the settings of a user, as functions:
`Normalize`, `MergeUserSecrets`, `Redacted`, `ApplyEnv`, `Validate`, look-ups by
key; which settings a connection test and a run use; and `NextRun` and `Runtime` of
`schedulecalc`. `ConfigStore` has the rows and the goroutines: browser tabs that
load a form and put it back, edited or as it was, the scheduler that disables a
task, restarts with another environment. `LoadUser` and `SaveUser` are sequences of
statements (`load`, `merge`, `find`, `create`, `update`), and nothing holds them
together. `held` remembers the secret that each field was given last, `savedIn` the
environment of the last save, `raced` that a write relied on an old read. Time is
counted in slots, a few a day, over two weeks; time zones with changing offsets are
left out. What no property tells apart (names, regions, time-outs) is left out. Tests and runs
are the calls they make, in their order: a test download asks a service how it is and
wants a key, an export neither; a probe looks at the head of a bucket, the root of a
WebDAV server or the directory of an SFTP target, an upload test writes to the root and
removes, a backup makes a directory of its own first. Each call succeeds as the world
(`Worlds`) lets it, so that a test may fail where a run succeeds and the other way
round; `TestAgreesWithRun` says which permissions must agree for one to vouch for the
other. A `PUT`
is of a body that decodes (`Forms`): the constant `Words` is what a field of text can
have, all strings in the run, and `Getenv` is blank for a variable that is not set.

### RunHistory and HistoryPromise

One tenant's `run_records`. `pc[r]` is where the `Append` of run `r` is: the row, the
read of all rows (`scan`), the deletions one by one (`delete`), the deletion by age
(`age`). A statement may fail, a row may be gone when it is to be deleted, which
ends the prune, and the process may end. `recorded` is a history variable: the runs
that had a row since the user got the name. `HistoryPromise` says what a user
relies on: the list shows the latest of all recorded runs, as many as the limit
allows, and a prune is not seen. `RunHistory` implements it with the list mapped to
`Shown`, which is what `List` returns; this is checked and proved.

### ObjectNames and Targets

`ObjectNames` has the functions of `archive` that make names of templates. A path is
a sequence of parts, a part a sequence of tokens: a placeholder, a printed second and a
date are one token each, anything else can be taken character by character. So what `cleanSegment`, the
replacement of placeholders and the trimming do to a name is modelled, character
classes included (letters and digits that are kept, punctuation that is trimmed,
everything else). The key of a task is a sequence of tokens as well, and may end with
punctuation that is trimmed, as `keyPattern` allows. `Given` is what `ObjectName` makes of a template, all placeholders
at once; `Keyed` is what `RetentionDirectory` makes of it, one after the other, so
that a name that looks like a placeholder is replaced once more: `{task}`, then
`{task_name}`, then `{task_id}` (`KeyedPart`). `Targets` has several tasks, whose names and templates change
from run to run, on targets that may share a store under different prefixes. A run
here stores in one step and applies its retention in another; `BackupRun` has the
steps within. A user lists a target (`Choose`) and later restores what was shown
(`Restore`), by its name. A listing of a WebDAV target leaves out a subdirectory
whose name is that of the directory it is in (`SameEntry`), as the code does. Where a
WebDAV server sends no display names, the last part of the address is taken for the
name as it stands; a name with a brace in it comes back escaped, the walk asks for what
is not there and ends with an error, and nothing is listed or trimmed (`Stuck`).
Assumed of templates: no `..` part and `/` as the separator. Of the policies only
`keep_last` is here, dates being in `BackupRun`; when two objects have one time on
the target, any may be taken for the newer, but for two of one task, template and
prefix, where the names decide, as `ApplyRetention` does (between tasks, templates or
prefixes they decide too, in a way no property needs).

### BackupRun

The runs of one task, whoever starts them, and the directory they share on each
target. `run[r]` is a call of `Runner.run` with the configuration it was made
with; `work[r][t]` is its goroutine for target `t`, at the storage call it is
about to make: `open` (`Factory.Target`, `MkdirAll`, `OpenFile`), `write`
(`Write` and `Close`), then inside `ApplyRetention` `list` (the walk reads the
names), `stat` (it asks for each file, and the policy chooses), `delete` (one
`Remove` a step). `files` is the listing, later what is still to be deleted.
`stored` is a history variable: every complete object that was ever there.

Targets differ in two ways that matter. `Early` targets (SFTP) show an object as
soon as it is opened, so others can list and remove it before it is complete.
`Buffered` ones (WebDAV) send it when it is closed and with the run's context,
and a second `Close` of a file returns nil; `ClosedEarly` is what follows. Others
(S3, GCS) are neither. A cancelled context (a reload, the 30 minutes, a client
that goes away) may meet any step.

Abstracted: an object's name is the second its run started in, which is all that
`ObjectName` tells runs of a task apart by; dates of `keep_after` and
`keep_before` and days are numbers of the one clock; an incomplete object keeps
the time it was opened at. The status `skipped` cannot occur, because no timer
fires a disabled task, so the model has no guard on it.

`NamesDiffer` (no two runs started in one second) is a premise of some properties
and not something the code ensures: otherwise the later run replaces the earlier
one's object. `Kept` is the honest form of "has been stored": on an `Early` target
another run may have removed the object while it was being written.

### Composition

The modules meet at the tenant's configuration row: `Accounts` says when it
exists and whose it is, `TenantScheduler` what the scheduler makes of its
contents, `ConfigStore` how those come about. `ChangeUser` is the reload that follows
a change in `Accounts`. `SignIns` and `Accounts` share the users table and divide
its columns. `Targets` composes the runs of several tasks, the names of `ObjectNames`
and the restores on one store, and abstracts the steps of `BackupRun`; `RunHistory`
is what a run of `BackupRun` appends to.

## What the runs check

| Run | Bounds | Shows |
| --- | --- | --- |
| `SchedulerSafety` | 1 task (once, repeating, off or removed), 2 handlers, 2 requests, 1 restart, 3 timers, `Close` without `OnFinish` | no timer leaks, no task runs twice at once, the timer is fresh, the tenant is scheduled, a disabled one-time task stays quiet |
| `SchedulerReload` | 1 task, 1 handler, 2 requests, 1 restart, 3 timers, `Close` awaits `OnFinish`, fairness | every reload ends if runs do; a task is disabled before the next timer is built |
| `SchedulerLostDisable` | 2 one-time tasks, no request | expected violation: the second disable undoes the first |
| `RestorePromiseKept` | 2 jobs, 1 crash, fairness | a job keeps `RestorePromise`, opens what is named as sealed before it sends it, its stage is honest, and it ends |
| `AccountsSafety` | 3 names, 2 handlers, 3 requests beside the bootstraps, 1 crash; every load and write by name may fail | an administrator is left, rows follow users, every user has a configuration, as long as no commit relied on an old check and but for the exceptions stated |
| `SignInsSafety` | 3 rows, 2 browsers and an administrator, 2 addresses, 2 people of whom one has several profiles, 2 visits, 3 requests, 2 names tried | addresses are unique, a sign-in is to one's own account, identities come and go only as their owners ask |
| `ConfigSettings` | 2 callers, 4 requests, 1 restart, 4 environments, 8 edits, 5 worlds, 2 secrets, 2 slots a day | secrets are kept, what was saved loads, saving a form as shown changes nothing, tests agree with runs, the next run is the next moment that is due |
| `HistoryKept` | 3 runs, limit 1, 3 days of 6, 2 users of the name in turn | the list is of the latest runs recorded, a prune trims what it read, the excess is accounted for |
| `BackupRetention` | 3 runs, 1 WebDAV target, `keep_last` 1, 3 seconds | a run deletes only where it has stored; no more are left than asked for, unless a listing was cut short |
| `BackupOutcomes` | 2 runs, WebDAV and SFTP, 3 uploads, no retention, `keep_last` 1 or `keep_days` 1, 2 seconds, 1 cancellation or crash | only superseded backups go; the history is true of runs that were not cancelled |
| `TargetsKept` | 2 tasks, 7 configurations of a task, 2 targets on one store (WebDAV at the root, another under a prefix), 2 runs (also both of one task to one target at once), 2 seconds | what is stored is found by its retention, a restore sends what was chosen, only superseded backups go |
| `TargetsScope` | the same | expected violation: a task whose name has no ASCII letter or digit trims its neighbours |

The bounds are chosen so that every hazard has room. Two handlers and main give
three overlapping reloads, and two requests a save between two reloads, a
callback's included; three timers are as many as main and two handlers can hold, so
that overlapping reloads are seen with the map's timer in one of their hands. One task suffices for the properties of one task, since tasks
interact only through the row, which the two-task run covers. Two jobs show that
jobs do not disturb each other; one crash is as good as many, because a crash
leaves nothing in memory. Two handlers give every race of one read and one
commit, three names let a rename meet a deletion and a creation, and three
requests, with the administrator that the environment may make before them, create or
sign in a user, change or delete another, and let a session or a run write under a name
that has changed hands.
Three backup runs are needed for one to list what a second deletes and a third
has stored; two suffice for outcomes, which concern one run and what others do to
its target. As many seconds as runs let them all have names of their own.
The seven task configurations of `MCTargets` have every kind of template: the usual
one, with a name that is partly lost and has a token in it, and one that is wholly
lost; a name that looks like a time's placeholder, with a date in a directory; a name equal to its parent, with the
object's name left to the program; no name, and the key in the object's name; and an
object's name that is always the same and ends with `.zip`, in no directory. A key ends
with a token that is lost, and the WebDAV server sends no display names. Two runs are enough for one
to trim what the other has stored. Three rows and two browsers let two sign-ins of
one person create accounts at once beside an account with the address. Three runs
and a limit of one let a prune go by rows that two others have changed. Two callers
and four requests let a save be overtaken and another observe the result.
`CHECK_DEADLOCK` is off because the bounds on requests end every behaviour.

### Fairness

`TenantScheduler`: every goroutine that can take a step takes one (weak fairness
of each thread's reload and each completion callback). A run is not assumed to end:
`Close` cancels its context and the manager gives it 30 minutes, but its SFTP and S3
calls do not look at the context and have no timeout of their own
(`storage/storage.go:104`, `:413`, `:459`), so that a server that does not answer can
hold a run, and the reload that waits for it, for ever. `ReloadEnds` therefore supposes
`RunsEnd`. Requests, due times, signals and crashes are not fair. `RestoreJobs`: weak fairness of the job's
goroutine, of polling, and of the destination's end of an import. The upload has
a client timeout and decryption ends; storage is assumed to answer; that imports
end is an assumption on the destination, since `pollImport` has no limit. One status
call that fails ends a job while its import goes on: that is what the code does,
and `PollEnds` allows it. The other modules state safety only and assume no
fairness: a transfer has no time limit of its own, and a request ends or not as its
client likes.

## What is proved

All safety properties that the runs check of `TenantScheduler`, `RestoreJobs`,
`RunHistory`, `BackupRun`, `Accounts`, `SignIns`, `ConfigStore` and `Targets` are theorems,
for every value of the constants that the assumption named in the
module allows. Each proof module
has the type invariant, the inductive invariant with one lemma per invariant or
group of actions, and the theorems that follow from it. Every inductive invariant
was first checked by TLC on the instance of the module's run.

`TenantSchedulerProofs` (any set of tasks and handlers, any saved bodies, any
bounds, whether or not `Close` waits for callbacks). The properties are not
inductive: that the map's timer is open depends on no other thread holding the same
timer. `ReloadInv` adds who owns what: `Ownership` (the timer in the map and those in
the hands of the threads are distinct, and their state fits the thread's program
counter), `Alone` (until reloads have overlapped at most one thread is between its
critical sections and while one is, the map is empty), `RunsAreOwned` (a run in
progress belongs to a timer that Close has not left behind) and `Pending` (a tenant
without a timer has a thread that will install one, or the last load failed). From
it follow `MapHoldsLiveTimer`, `TimersDontLeak`, `OneRunPerTask` and
`TenantIsScheduled`. `SchedulerInv` adds what timers, callbacks and the row know of
each other: `CallbacksInv` (a callback finds its entry disabled, a one-time task that
has fired is disabled or not done yet), `AckedStored` and `AckedTimers` (a task whose
disabling succeeded is disabled in the row and in every timer alive) and `Fresh` (the
timer in the map, or on its way there, is of the stored row, or a reload that has not
begun will replace it). A callback may save after a reload has built from the row as
it was; if the new timer has the task to run, that is `crossed`, and the invariant
speaks of the others. If `Close` waits for callbacks it cannot happen, because without
overlaps one timer is alive at a time (`OneLive`) and a saving callback keeps its own
alive (`SaverIsDone`, `CallbacksAreInTime`). `TimerIsFresh` and `OnceStaysQuiet`, neither of which supposes
anything of `Close`, and the action property `FiresOncePerTimer` follow; the last is
proved and in no run.

`RestoreJobsProofs` (any set of jobs, any number of crashes): `RestoreTypeCorrect`,
`NoDuplicateImport`, `CompletedIsTrue`, `OnlyOpenedIsSent`, `FailedStageIsTrue`, and
`PromiseKept`, the refinement. The invariant relates a job's stage to what is on the
wire and at the destination: a job that has not yet uploaded has nothing there, and
one that has uploaded has sent its archive once.

`RunHistoryProofs` (any finite set of runs, limit, retention and bounds):
`TypeCorrect`, `TrimmedToLimitHolds`, `ExcessIsAccountedHolds` and `PromiseKept`, the
refinement of `HistoryPromise`. That pruning is not seen is not inductive, since a
prune deletes by a listing others have made old. `HistoryInv` says that whatever has
gone from the table (`GoneSuperseded`), and whatever a prune is about to delete
(`GoingSuperseded`), is too old or has a limit's worth of newer rows in the table as
it is now, not only as it was read. Deleting keeps this, because a row deleted for
its number is never among the newest, so those that supersede it remain
(`ManyGrows`). `Trimmed` follows a prune's own listing. `ShownIsLatest` then gives
the refinement: the list of the table is the list of all that was ever recorded.
The number of rows is bounded by induction on the last prune to finish that read the
table: what it read has at most the limit left (`Settles`), and whoever is in the
table beside is not finished.

`BackupRunProofs` (any runs, targets, policies and bounds): `TypeCorrect`,
`DeletesOnlyAfterStoringHolds`, `RecordIsTrueHolds`, `OnlySupersededAreGoneHolds` and
`RetentionHoldsHolds`. The first two safety properties follow from what a goroutine's
program counter says of its upload: `Shown` (an object being written is visible, or
another run uses the directory), `Earned` (only what was stored gets to the
retention, unless the run was cancelled) and `Truthful` (a status, once computed,
stays true, since nothing stored is forgotten and a started run keeps its
configuration). The third needs that a run stores one object on a target, under its
own name (`Single`), and that whatever is listed has been stored and whatever is
being deleted is superseded by all that has been stored since (`Trimmed`): a listing
is a subset of what was ever stored, so `CutIsSuperseded` follows from the
monotonicity of `NewerIn`. The last needs `Trimming`: each directory that is not
empty has a run that sees to it, one that has yet to list it (`ToList`), one that
does not succeed (`Fails`), or one whose listing has everything that is there, and
whose cut leaves no more than `keep_last` asks for (`Trims`). That a cut leaves no more than
n is the pigeonhole principle: names differ, so no two objects have equally many
newer ones (`NewerOrder`).

`AccountsProofs` (any names, handlers, bounds): `TypeCorrect`,
`AdminUnlessRacedHolds`, `RowsFollowUsersHolds`, `EveryUserIsLoadedHolds`. The
invariant says of every request at work what its program counter says it has read
and checked, and that this is so until somebody commits (`AsRead`, `Checked`); a
commit that relies on less sets `raced`. With it, ids being unique (`UniqueIds`), each
commit keeps the properties. `Covered` has every user without a configuration who was
not missed in the list of a request that will load it; `Homes` has that where there is
no configuration there are no records but late ones, which `renameTenantConfig` relies
on when it returns early.

`SignInsProofs` (any rows, browsers, addresses, profiles, bounds): `TypeCorrect`,
`EmailsUniqueHolds`, and the action properties `SignsInToOwnHolds` and
`IdentitiesStayHolds`. The invariant is of the same kind (`Shaped`, `AsRead`,
`Checked` for each request), with what the unique indexes enforce on the table
(`Indexed`) and that a cookie and the visit it is for agree on what the visit is for
(`VisitsAgree`): a callback that finds them together does what its browser asked.
`SignInsAssumption` also has that the model values for "none" are no addresses,
subjects or profiles, and that a sign-in tries a name at least once.

`ConfigStoreProofs` (any environments, edits, secrets, texts, callers, bounds):
`TypeCorrect`, `SecretsAreKeptHolds`, `SavedLoadsHolds`, `EchoChangesNothingHolds`,
`NextRunIsNextHolds`, `TestAgreesWithRunHolds`. What `Normalize`, `MergeUserSecrets`,
`ApplyEnv` and `Redacted` do is proved of one entry first, then of lists, then of
configurations: entries are found by their keys where keys are valid (`EntryIs`),
normalising twice is normalising once (`NormalizeIsNormal`, `NormalStays`), whether
settings are valid depends on no secret (`AlikeValid`). That a row keeps its secrets is
not inductive: a save writes what it merged before it looked for the row again.
`StoreInv` adds, of a request between two statements, that what it will write is valid
in this environment and is what was typed merged with the row there is, unless the row
has been written since (`FitsIn`); of the row, that it is normal and was valid where it
was saved (`RowFits`); and of what a tab shows, that it has no secret (`ShownFit`).
Writing then gives the row what the history knows (`SavedIsGiven`). `EchoChangesNothing`
follows from the row's part alone (`ShownAgain`: what comes back of a page is the row,
but for an address that is the environment's). `NextRunIsNext` needs that a moment is
one day and one slot of it (`Division`, `DivisionOf`): no day between now's and the
computed one is the weekday wanted (`WeekdayNext`), and no slot of another day comes
between (`DailyNext`, `WeeklyNext`). For `TestAgreesWithRun`, a test ends well if each
of its stages does (`ResultIs`), which turns every test and every part of a backup into
a condition on the settings and the world; the form of an entry, filled from the settings and once more from the
environment, is the entry as a backup uses it (`FormOfSource`, `EnvSourceAgain`,
`FormOfTarget`). `ConfigStoreAssumption` has the types of the environments and that "no
row" is no configuration; `SettingsAssumption` that `Blank` is no secret and that the
words the program writes itself are texts. `SavedLoads` needs both ways of one argument:
`ApplyEnv` changes nothing that `Validate` looks at but the address of the default
source (`Spoils`).

`TargetsProofs` (any tasks, targets, names, templates and bounds): `TypeCorrect`,
`FoundAgainHolds`, `RestoresChosenHolds`, and the action properties
`OnlySupersededGoHolds` and `LeavesAsManyAsKeptHolds`, each but for the names its
property excepts. The last says of the stores what
does not depend on how names are made: a backup goes only when the run that removes it
leaves as many that are no older as its policy keeps, or has written a later one in its
place. `OnlySupersededGo` is about whose they are. `TargetsInv` relates what is stored
to the clock (`ObjectsFit`), so that what is written is the newest there is. `NamedInv`
adds that every object is called what `ObjectName` makes of its task and second, and
that what was chosen and sent was asked for by such a name; the properties about names
are not inductive without it. The rest is about the functions of `ObjectNames`, which
fold over sequences, and is by induction over the length of a sequence, with a set for
the predicate: that `<` is well-founded on the naturals (`WFMin`) gives a least
counterexample.

- `FoundAgain`: cleaning a path is cleaning its parts (`CleanPathBoth`), so that
  `RetentionDirectory`, which cuts the template first, and `ObjectName`, which does not,
  agree up to the cut.
- `RestoresChosen`: two names of one template and different seconds differ in a token
  that cleaning keeps.
- `OnlySupersededGo`: no name of one task is below the directory of another
  (`ScopesApart`). Cleaning a part takes tokens off its ends and changes none between the
  first and the last that is kept, so a part of the template in which the name of the
  task is put comes out different for two tasks: were it the same for both, what is put
  would have one length and stand at one place (`PartTellsApart`). It is compared with
  itself only if it is at one place in both paths, and parts of which nothing is left go.
  If no part is lost for one task alone, the places are the same. If one is, everything
  after it moves, until a part with a time in it is where the directory has none, or
  there is no part left. Since a name that holds a token is replaced once more, the run's
  own name is supposed to hold none.

`NamesAssumption` has, for this, that what is kept and what is trimmed are different
characters, that the words the program writes itself are of the former, that seconds
are printed each in its own way and in letters and digits, and that keys are what
`keyPattern` (`config/config.go:36`) allows; `TargetsAssumption` that there is a
configuration a task may have, that templates and names are sequences of texts and that
the bounds are numbers.

Left to TLC: liveness (`ReloadEnds`, `JobEnds`), which is out of the prover's reach.

## What the code does besides

Two runs show disagreements with the documents (`SchedulerLostDisable`,
`TargetsScope`; see the findings in `PROJECT.json`). These were met as well. Those
with a definition are stated in the modules, and TLC finds each violated within a minute
with the constants given here.

| Definition | Constants | What happens |
| --- | --- | --- |
| `TenantScheduler!RepeatStaysEnabled` | 1 task of `OneTask`, 1 handler, 1 request, 2 timers | the completion of a one-time run disables a task that the user has meanwhile made a repeating one |
| `Accounts!LastAdminStays` | 2 names, 2 handlers, 4 requests | two administrators demote each other, each check seeing the other |
| `BackupRun!LatestAreKept` | 3 runs, `Early = {f}`, `LastTwo`, 3 seconds | an object that an SFTP upload left incomplete counts as one of the last two |
| `BackupRun!CleanedUp` | 3 runs, `Buffered = {w}`, `LastOne`, 3 seconds | a file that vanishes while another run lists the directory ends that run's retention with an error |
| `BackupRun!SuccessMeansStored` | 1 run, `Buffered = {w}`, `Unlimited`, `MaxStops = 1` | an upload to WebDAV that is cancelled is closed twice, the second time without error, and recorded as a success |

Seen while reading, and left as the models have it:

- A listing of a WebDAV target hides a subdirectory that has the name of its parent
  (`storage/webdav_client.go:331`), for instance an object prefix `nowledge-mem`
  under a root prefix of the same name.
- `BrowseBackupDirectories` walks the whole target, where `src/README.md:136` has it
  otherwise.
- A template without the task's name in a directory shares the directory, and its
  retention, between tasks; one whose last part loses all its characters gives an
  object that no listing takes for a backup; one that ends with `.zip` names an
  encrypted object as a plain one.
- `ObjectName` replaces placeholders all at once and `RetentionDirectory` one after the
  other (`archive/archive.go:203`, `archive/archive.go:230`). A task that is named
  `{task_id}` is stored under that name and trimmed in the directory of its key, so
  never. One that is named `x{task_name}` is stored under that name and trimmed in
  `xx{task_name}`, so that it trims the backups of a task that is named so. One that is named `{timestamp}` or `{date}` has for its directory the parent,
  and trims its neighbours.
- A template with the name and the key of the task in one part, such as
  `{task}-{task_id}`, may give two tasks one directory: that named `x-1` of the key `a`,
  and that named `x` of the key `1-a` (`archive/archive.go:203`). `NamesTask` does not
  count such a part.
- A task named `daily.zip`, encrypted, with a template that ends with `{task}`, stores
  what every listing takes for a plain archive.
- A name or a template that has a time written out in it may give a run the name that
  an earlier one had, and a restore of the one sends the other.
- Of two targets on one account, one at the root and one under a prefix, a task of the
  first that is named like the prefix, with the template `{task}/{timestamp}`, trims
  what the second holds.
- The properties of `Targets` except all of these by name: `NamesTask` (the template
  names the task in a directory, by one token and without the key in that part),
  `NamesObject` (something is left of the last part and the program gives it its
  extension), `PlainlyNamed`, `Stuck`, `Untimed` and `Apart`.
- A run that ends after its user was deleted leaves a row that a later user of the
  name is shown (`backup/runner.go:215`); so does a save by a session from before
  (`server/auth.go:328`), or by a completion callback. `Accounts` has them, as `late`.
- An OIDC sign-in on an empty table makes a user who is no administrator
  (`config/config.go:542`), and setup then refuses (`server/server.go:725`): there is
  none until somebody changes the database or sets it up anew.
- A user who came by an OIDC sign-in, or whose load failed (`config/config.go:419`,
  `:476`), has no configuration until the first visit, and is unknown to `StartAll`.
- An address from the environment that is none makes every stored configuration with a
  default source fail at every load, though it was accepted when saved (`Spoils`). An
  environment that changes the directory roots can do so at the next start
  (`SavedLoads` is about one environment).
- A WebDAV server that sends no display names gives a name with braces back escaped
  (`storage/webdav_client.go:219`): a listing that meets one ends with an error, and the
  retention there deletes nothing.
- A run whose SFTP or S3 server does not answer is not ended by its context; the reload
  that waits for it, and with it the request, waits as long.
- Where `Close` does not wait for `OnFinish`, a one-time task that is disabled after the
  next timer was built stays enabled in that timer and runs again (`crossed`).

## Modelled in part, not modelled, and what is left

- `tasktimer`: `Upsert` and `Remove` have no caller in the program; the versions of
  entries that guard against them are left out with them.
- Time zones and changes of the clock; the YAML file imported at first start; the
  commands `validate`, `version` and `backup` of the CLI.
- The envelope of an encrypted archive and password hashing: cryptography, taken as
  opening only with the right password.
- The HTTP of connection tests and downloads, and the set-up of storage clients: one
  call each, which succeeds or fails.
- Logging, the web interface and the database client as far as nothing calls it.

To do: an abstract store of backups that `BackupRun` implements on targets that do not
show incomplete objects.
