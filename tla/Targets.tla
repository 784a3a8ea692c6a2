------------------------------- MODULE Targets -------------------------------
(* The backups of several tasks on shared storage: runs write objects under  *)
(* names made of their tasks' templates, apply a retention policy to the     *)
(* directory of the task, and a user browses a target and restores from it.  *)
(* BackupRun has the steps of a run, and of a retention, that here are one.  *)
EXTENDS ObjectNames

CONSTANTS
    Tasks,
    Stores,       \* a bucket or an account; targets may share one
    TargetCfg,    \* of each target its store, root_prefix, whether it is WebDAV, the last
                  \* part of its address, and whether the server tells no names of its own
    TaskCfgs,     \* what a task's name, template, keep_last and encryption may be
    None,
    MaxClock,     \* bound: seconds
    MaxRuns       \* bound: runs

Targets  == DOMAIN TargetCfg
Slots    == 1..2  \* bound: runs of a task to a target at once
Jobs     == Tasks \X Targets \X Slots

\* The template of a task is never empty (Normalize), has no ".." part, and
\* keep_last 0 stands for no policy.
ASSUME TargetsAssumption ==
    /\ MaxClock \in Nat \ {0} /\ MaxRuns \in Nat /\ TaskCfgs # {}
    /\ DOMAIN Timestamp = 1..MaxClock /\ DOMAIN Key = Tasks
    /\ \A g \in Targets : TargetCfg[g].store \in Stores /\ TargetCfg[g].root \in Seq(Seq(STRING))
    /\ \A c \in TaskCfgs : /\ c.template \in Seq(Seq(STRING)) /\ c.template # <<>> /\ c.name \in Seq(STRING)
                           /\ c.keep \in Nat /\ c.sealed \in BOOLEAN

VARIABLES
    objects,  \* what the stores hold
    run,      \* the uploads of each task to each target, the first and the one begun during it
    clock,    \* the second
    chosen,   \* the entry of a listing that the user has chosen
    sent,     \* what the restore before that sent: the backup chosen, the one read, and how
    runs      \* runs so far

vars == <<objects, run, clock, chosen, sent, runs>>

Object == [target : Targets, path : Seq(Seq(STRING)), task : Tasks, cfg : TaskCfgs,
           second : 1..MaxClock, mod : 1..MaxClock, sealed : BOOLEAN]

Idle == [pc |-> "idle", cfg |-> CHOOSE c \in TaskCfgs : TRUE, second |-> 1]

Init ==
    /\ objects = {} /\ chosen = None /\ sent = None
    /\ run = [j \in Jobs |-> Idle]
    /\ clock = 1 /\ runs = 0

----------------------------------------------------------------------------
(* Targets.                                                                 *)

Store(g) == TargetCfg[g].store

\* prefixFS: where a target's name is in its store.
WithPrefix(g, path) == TargetCfg[g].root \o path

\* An object's name on a target.
NameOn(g, o) == SubSeq(o.path, Len(TargetCfg[g].root) + 1, Len(o.path))

\* propfind: a WebDAV target gives a directory the name its address ends with.
BaseName(g, dir) == IF dir = <<>> THEN TargetCfg[g].base ELSE Last(dir)

\* sameWebDAVEntry: a listing leaves out what looks like the directory itself, with
\* it any subdirectory of the same name, and Walk does not get there.
SameEntry(g, dir, name) == BaseName(g, dir) = name

Reached(g, scope, path) ==
    TargetCfg[g].webdav =>
        \A i \in (Len(WithPrefix(g, scope)) + 1)..(Len(path) - 1) :
            ~SameEntry(g, SubSeq(path, 1, i - 1), path[i])

Under(g, scope) == {o \in objects : Store(o.target) = Store(g) /\ IsStrictPrefix(WithPrefix(g, scope), o.path)}

\* A name that is told as it stands in an address, where braces are escaped, and is
\* taken for the name: Walk looks for what is not there, and ends with an error,
\* on which no object is listed and none goes.
Stuck(g, scope) ==
    /\ TargetCfg[g].webdav /\ TargetCfg[g].escapes
    /\ \E o \in Under(g, scope) :
        \E i \in (Len(WithPrefix(g, scope)) + 1)..Len(o.path) :
            /\ ToSet(o.path[i]) \cap Braced # {}
            /\ Reached(g, scope, SubSeq(o.path, 1, Min({i + 1, Len(o.path)})))

\* listBackupObjects: Walk from a directory.
Listed(g, scope) ==
    IF Stuck(g, scope) THEN {}
    ELSE {o \in Under(g, scope) : Reached(g, scope, o.path) /\ IsBackupObject(NameOn(g, o))}

\* The object that has a name.
Held(g, name) == {o \in objects : Store(o.target) = Store(g) /\ o.path = WithPrefix(g, name)}

----------------------------------------------------------------------------
(* Runs.                                                                    *)

Scope(c, t) == RetentionDirectory(c.template, t, c.name)

Extension(c) == IF c.sealed THEN EncryptedExtension ELSE PlainExtension

Made(j, r) ==
    [target |-> j[2],
     path |-> WithPrefix(j[2], ObjectName(r.cfg.template, j[1], r.cfg.name, r.second, Extension(r.cfg))),
     task |-> j[1], cfg |-> r.cfg, second |-> r.second, mod |-> clock, sealed |-> r.cfg.sealed]

\* A run keeps what its task is when it starts.
Start(j, c) ==
    /\ run[j].pc = "idle"
    /\ \A i \in Slots : i < j[3] => run[<<j[1], j[2], i>>].pc # "idle"
    /\ runs < MaxRuns /\ runs' = runs + 1
    /\ run' = [run EXCEPT ![j] = [pc |-> "write", cfg |-> c, second |-> clock]]
    /\ UNCHANGED <<objects, clock, chosen, sent>>

\* handleRunBackup: a user runs a task, as it is configured now, on the targets
\* chosen, whether or not it is running.
RunBackup(t, g, c) == \E i \in Slots : Start(<<t, g, i>>, c)

\* The scheduler does not start a task that it is running; it has the task as it
\* was at the last reload.  Beside a user's run it does what RunBackup does.
RunScheduled(t, g, c) == Start(<<t, g, 1>>, c)

\* Mutant: what had the name stays.
WriteBeside(j) ==
    /\ run[j].pc = "write"
    /\ objects' = objects \cup {Made(j, run[j])}
    /\ run' = [run EXCEPT ![j].pc = "retain"]
    /\ UNCHANGED <<clock, chosen, sent, runs>>

\* archive.Build and storage.Write: what had the name is gone.
Write(j) ==
    /\ run[j].pc = "write"
    /\ LET o == Made(j, run[j])
       IN  objects' = {p \in objects : Store(p.target) # Store(o.target) \/ p.path # o.path} \cup {o}
    /\ run' = [run EXCEPT ![j].pc = "retain"]
    /\ UNCHANGED <<clock, chosen, sent, runs>>

\* The upload fails and leaves nothing, or the process ends.
WriteFails(j) ==
    /\ run[j].pc # "idle"
    /\ run' = [run EXCEPT ![j] = Idle]
    /\ UNCHANGED <<objects, clock, chosen, sent, runs>>

Refused(scope) == scope = <<>>

\* Mutant: one too many goes.
NewestButOne(kept, listed, n) ==
    /\ Cardinality(kept) = Min({n - 1, Cardinality(listed)})
    /\ \A o \in kept, p \in listed \ kept : o.mod >= p.mod

\* The first n in the order of the times the target gives; names decide a tie, those
\* that differ in their times only by these.
Newest(kept, listed, n) ==
    /\ Cardinality(kept) = Min({n, Cardinality(listed)})
    /\ \A o \in kept, p \in listed \ kept :
        /\ o.mod >= p.mod
        /\ o.mod = p.mod /\ o.task = p.task /\ o.cfg = p.cfg /\ TargetCfg[o.target].root = TargetCfg[p.target].root
            => o.second >= p.second

\* ApplyRetention, which refuses the root.
Retain(j) ==
    /\ run[j].pc = "retain"
    /\ LET c      == run[j].cfg
           scope  == Scope(c, j[1])
           listed == Listed(j[2], scope)
       IN  IF c.keep = 0 \/ Refused(scope) THEN UNCHANGED objects
           ELSE \E kept \in SUBSET listed :
                    Newest(kept, listed, c.keep) /\ objects' = objects \ (listed \ kept)
    /\ run' = [run EXCEPT ![j] = Idle]
    /\ UNCHANGED <<clock, chosen, sent, runs>>

Tick ==
    /\ clock < MaxClock /\ clock' = clock + 1
    /\ UNCHANGED <<objects, run, chosen, sent, runs>>

----------------------------------------------------------------------------
(* Restoring.                                                               *)

\* What is shown of an object; of: history, the backup that the user wants.
Entry(g, o) == [target |-> g, name |-> NameOn(g, o), of |-> o]

\* BrowseBackupDirectories: the directories that hold backups, and the backups
\* that are in none.
Directories(g) == {Front(NameOn(g, o)) : o \in Listed(g, <<>>)} \ {<<>>}
InNone(g)      == {o \in Listed(g, <<>>) : Len(NameOn(g, o)) = 1}

\* ListBackupObjects of a directory, in which the user chooses.
Choose(g) ==
    /\ \E o \in InNone(g) \cup UNION {Listed(g, d) : d \in Directories(g)} : chosen' = Entry(g, o)
    /\ sent' = None
    /\ UNCHANGED <<objects, run, clock, runs>>

\* With the right password: what is named as encrypted has to be, and is sent as
\* it was exported.
Opens(o, name) == IsEncryptedObject(name) => o.sealed
Plain(o, name) == IsEncryptedObject(name) \/ ~o.sealed

\* Manager.run: the object is read now, by the name that was chosen.
Restore ==
    /\ chosen # None /\ chosen' = None
    /\ LET held == {o \in Held(chosen.target, chosen.name) : Opens(o, chosen.name)}
       IN  IF held = {} THEN UNCHANGED sent
           ELSE \E o \in held : 
                   sent' = [asked |-> chosen.of, from |-> o, plain |-> Plain(o, chosen.name),
                            as |-> ImportFilename(chosen.name)]
    /\ UNCHANGED <<objects, run, clock, runs>>

Next ==
    \/ \E t \in Tasks, g \in Targets, c \in TaskCfgs : RunBackup(t, g, c) \/ RunScheduled(t, g, c)
    \/ \E j \in Jobs : Write(j) \/ WriteFails(j) \/ Retain(j)
    \/ \E g \in Targets : Choose(g)
    \/ Tick \/ Restore

Spec == Init /\ [][Next]_vars

----------------------------------------------------------------------------
(* Properties.                                                              *)

Segment(t, c) == TaskSegment(t, c.name)

\* A template that names the task in a directory, by one of its two tokens, before any
\* time and without its key run into its name, so that the directory is the task's own.
NamesTask(c) ==
    \E i \in DOMAIN Stable(c.template) : ToSet(c.template[i]) \cap Tokens \in {{"{task}"}, {"{task_name}"}}

\* A template whose names differ from second to second.
Stamped(c) == Last(c.template) = <<>> \/ \E i \in DOMAIN c.template : "{timestamp}" \in ToSet(c.template[i])

\* An object whose name, as far as the template gives it, is left something, and the
\* end of which is left to the program.
NamesObject(o) ==
    LET given == Given(o.cfg.template, o.task, o.cfg.name, o.second)
    IN  \/ Last(given) = <<>>
        \/ /\ ToSet(Last(given)) \cap Kept # {}
           /\ ~EndsWith(given, PlainExtension) /\ ~EndsWith(given, EncryptedExtension)

\* The task's part of names does not look like what is put in after it.
PlainlyNamed(o) == {"{task_name}", "{task_id}"} \cap ToSet(Segment(o.task, o.cfg)) = {}

\* Nothing that a name is made of, other than its times, looks like a time.
Typed(g, t, c) ==
    (UNION {ToSet(part) : part \in ToSet(TargetCfg[g].root) \cup ToSet(c.template)}) \cup ToSet(c.name) \cup ToSet(Key[t])

Untimed(g, t, c) == Typed(g, t, c) \cap (Range(Timestamp) \cup Range(Date)) = {}

\* Whether a run and a backup are of tasks with one template that tells them apart, on
\* targets with one prefix, and the name of the run's task is not taken for a time or a
\* token.
Apart(j, c, o) ==
    /\ c.template = o.cfg.template /\ NamesTask(c) /\ TargetCfg[j[2]].root = TargetCfg[o.target].root
    /\ Segment(j[1], c) \notin {<<>>, Segment(o.task, o.cfg)}
    /\ ToSet(Segment(j[1], c)) \cap {"{task_name}", "{task_id}", "{timestamp}", "{date}"} = {}
    /\ Untimed(j[2], j[1], c) /\ Untimed(o.target, o.task, o.cfg)

\* The values of the variables, and no two objects in one place.
TypeOK ==
    /\ run \in [Jobs -> [pc : {"idle", "write", "retain"}, cfg : TaskCfgs, second : 1..MaxClock]]
    /\ clock \in 1..MaxClock /\ runs \in 0..MaxRuns
    /\ \A o \in objects :
        /\ o.target \in Targets /\ o.task \in Tasks /\ o.cfg \in TaskCfgs
        /\ o.second \in 1..clock /\ o.mod \in o.second..clock /\ o.sealed \in BOOLEAN
    /\ \A o, p \in objects : o # p => Store(o.target) # Store(p.target) \/ o.path # p.path

\* A backup goes only when a retention has done with it, as many newer ones being
\* left as that one keeps, or when a run of the same second, or of a task that has
\* no time in its names, takes its place; and no run takes away the backups of a
\* task that the template tells apart: ApplyRetention by RetentionDirectory, and
\* Write by ObjectName.  A name with no letter or digit tells no task apart.
OnlySupersededGo ==
    [][\A o \in objects \ objects' :
        \E j \in Jobs :
            LET c == run[j].cfg
                Ours(p) == p.task = j[1] \/ ~Apart(j, c, p)
            IN  /\ run'[j] # run[j] /\ Ours(o)
                /\ \/ /\ run[j].pc = "retain" /\ c.keep > 0
                      /\ Cardinality({p \in objects' : Ours(p) /\ p.mod >= o.mod}) >= c.keep
                   \/ /\ run[j].pc = "write"
                      /\ \/ run[j].second = o.second \/ ~Stamped(c) \/ o.task # j[1]
                         \/ ~Untimed(o.target, o.task, o.cfg)]_vars

\* What a run has stored is in the directory that its task's retention goes
\* through, where a WebDAV listing gets to it, is a backup to it, and is shown as
\* encrypted when it is: ObjectName and RetentionDirectory go different ways to their
\* names, and the listings go by nothing else.  They part where the task's own name
\* has "{task_name}" or "{task_id}" in it: only the second puts something for that.
FoundAgain ==
    \A o \in objects : NamesObject(o) =>
        /\ IsEncryptedObject(NameOn(o.target, o)) = o.sealed
        /\ LET scope == Scope(o.cfg, o.task)
           IN  PlainlyNamed(o) /\ Reached(o.target, scope, o.path) /\ ~Stuck(o.target, scope)
                => o \in Listed(o.target, scope)

\* A restore sends the backup that was chosen, however long ago it was shown, and
\* sends it as it was exported; unless one that began in the same second, or whose
\* name has no time, has taken its place, or one was given a time for a name.
RestoresChosen ==
    sent # None =>
        /\ \/ sent.from = sent.asked \/ sent.from.second = sent.asked.second
           \/ ~Stamped(sent.from.cfg) \/ ~Untimed(sent.asked.target, sent.asked.task, sent.asked.cfg)
        /\ NamesObject(sent.from) => sent.plain /\ EndsWith(<<sent.as>>, PlainExtension)

\* README.zh-CN.md:132 and storage_test.go:298: a retention goes through the
\* directory of its own task.  Not so when the name of the task has neither
\* letters nor digits of ASCII.
ScopedToTask ==
    [][\A o \in objects \ objects', j \in Jobs :
        run[j].pc = "retain" /\ run'[j] # run[j] /\ NamesTask(run[j].cfg) /\ run[j].cfg.template = o.cfg.template
        /\ run[j].cfg.name # o.cfg.name => o.task = j[1]]_vars
=============================================================================
