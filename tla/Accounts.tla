------------------------------ MODULE Accounts ------------------------------
(* The users of config.Store and what is kept under their names, the       *)
(* configurations and the run records; the web handlers that create,       *)
(* rename, promote, demote and delete users; and those who write under a   *)
(* name whoever has it: a session's PUT /api/config, the record of a run,  *)
(* and the scheduler when it disables a task.  Each is a sequence of       *)
(* database statements: it reads, checks what it read, and only then       *)
(* writes, so what it checked may be out of date by then.                  *)
(*                                                                         *)
(* A user's name and tenant key are one here.  The unique indexes on both  *)
(* make a commit that would duplicate one fail.                            *)
EXTENDS Naturals, FiniteSets

CONSTANTS
    Tenants,       \* names a user may have
    Handlers,      \* goroutines that serve requests or end a backup run
    NoTenant,      \* where no name is needed
    NoUser,        \* no row in the users table
    NoRow,         \* no row in the tenant_configs table
    MaxRequests,   \* bound: requests served and runs ended over the whole
                   \* behaviour
    MaxCrashes     \* bound: times the process ends and comes back

ASSUME AccountsAssumption ==
    /\ NoTenant \notin Tenants
    /\ NoRow \notin Nat
    /\ NoUser \notin [id : Nat, admin : BOOLEAN]
    /\ MaxRequests \in Nat
    /\ MaxCrashes \in Nat

VARIABLES
    user,       \* the users table: who has the name, and is an administrator
    config,     \* the tenant_configs row of a name: the user who saved it last, 0
                \* for the default one
    records,    \* the run_records of a name: the users whose runs they are of
    lastId,     \* the id of the newest user
    known,      \* the sessions handed out: a name, and the user who got it
    req,        \* what each handler is doing
    requests,   \* requests served so far
    crashes,    \* times the process has ended
    raced,      \* history: a commit relied on a check that was out of date
    cut,        \* history: the process ended before a commit's loads were done
    led,        \* history: there has been an administrator
    missed,     \* history: users made by a sign-in, or without a configuration
                \* when a load of it failed
    late        \* history: users for whom something was written under a name that
                \* was not theirs any more

Tables  == <<user, config, records, lastId, known>>
Bounds  == <<requests, crashes, cut>>
History == <<raced, led, missed, late>>
vars    == <<Tables, req, Bounds, History>>

User == [id : Nat, admin : BOOLEAN]
Ops  == {"none", "boot", "setup", "create", "oidc", "update", "delete", "load", "write"}
Pcs  == {"idle", "read", "check", "commit", "reread", "look", "make", "save",
         "disable", "append"}

\* t: the tenant named by the request; to, admin: what an update or a creation
\* asks for; found: the user read; todo: the tenants to load afterwards; who: the
\* user whose session, run or configuration it is.
Request == [pc : Pcs, op : Ops, t : Tenants \cup {NoTenant},
            to : Tenants \cup {NoTenant}, admin : BOOLEAN, found : User \cup {NoUser},
            todo : SUBSET Tenants, who : Nat, stale : BOOLEAN]

Idle == [pc |-> "idle", op |-> "none", t |-> NoTenant, to |-> NoTenant, admin |-> FALSE,
         found |-> NoUser, todo |-> {}, who |-> 0, stale |-> FALSE]

Exists(t) == user[t] # NoUser
Admins    == {t \in Tenants : Exists(t) /\ user[t].admin}

SetUp     == \E t \in Tenants : Exists(t)

\* Does user u have the name t?
Has(t, u) == Exists(t) /\ user[t].id = u

\* BootstrapFromEnv: the administrator that the environment names is created
\* before any request is served, if there is no user yet.
Bootstrap(t) == [Idle EXCEPT !.pc = "commit", !.op = "boot", !.t = t, !.admin = TRUE]
Booting == \E h \in Handlers : req[h].op = "boot"

\* What a process that starts is doing; the environment need not name one.
Starts ==
    LET idle == [h \in Handlers |-> Idle]
    IN  {idle} \cup IF SetUp THEN {}
                    ELSE {[idle EXCEPT ![h] = Bootstrap(t)] : h \in Handlers, t \in Tenants}

Init ==
    /\ user = [t \in Tenants |-> NoUser]
    /\ config = [t \in Tenants |-> NoRow]
    /\ records = [t \in Tenants |-> {}]
    /\ lastId = 0 /\ known = {}
    /\ req \in Starts
    /\ requests = 0 /\ crashes = 0
    /\ raced = FALSE /\ cut = FALSE
    /\ led = FALSE /\ missed = {} /\ late = {}

\* Handler h goes on with request r, or is done with it.
Continue(h, r) == req' = [req EXCEPT ![h] = r]
At(h, p)       == req[h].pc = p

\* Between its first read and its commit a request relies on what it has read.
Window == {"check", "commit"}

----------------------------------------------------------------------------
(* Requests arrive.                                                        *)

Arrive(h, r) ==
    /\ At(h, "idle") /\ ~Booting
    /\ requests < MaxRequests
    /\ requests' = requests + 1
    /\ Continue(h, r)
    /\ UNCHANGED <<Tables, crashes, cut, History>>

\* handleSetup: POST /api/setup, once there is no user.
Setup(h) ==
    /\ \A t \in Tenants : ~Exists(t)
    /\ \E t \in Tenants :
        Arrive(h, [Idle EXCEPT !.pc = "commit", !.op = "setup", !.t = t, !.admin = TRUE])

\* requireAdmin lets an administrator create a user ...
Create(h) ==
    /\ Admins # {}
    /\ \E t \in Tenants, a \in BOOLEAN :
        Arrive(h, [Idle EXCEPT !.pc = "check", !.op = "create", !.t = t, !.admin = a])

\* ... rename or change another's or their own, but not demote themselves ...
Update(h) ==
    \E me \in Admins, t \in Tenants, to \in Tenants, a \in BOOLEAN :
        /\ t = me => a
        /\ Arrive(h, [Idle EXCEPT !.pc = "read", !.op = "update", !.t = t, !.to = to,
                                  !.admin = a])

\* ... and delete another.
Delete(h) ==
    \E me \in Admins : \E t \in Tenants \ {me} :
        Arrive(h, [Idle EXCEPT !.pc = "read", !.op = "delete", !.t = t])

\* OIDCCallback: somebody whom the provider vouches for, and who is nobody's
\* account yet, gets one under a name that uniqueOIDCUserIdentity finds free.  No
\* setup need have been done.
SignIn(h) ==
    \E t \in Tenants :
        Arrive(h, [Idle EXCEPT !.pc = "check", !.op = "oidc", !.t = t])

\* A page of a session: it loads the configuration of the name in the cookie,
\* which is valid for a day whatever becomes of the user.
Visit(h) ==
    \E s \in known :
        Arrive(h, [Idle EXCEPT !.pc = "look", !.op = "load", !.todo = {s[1]}])

\* PUT /api/config of a session.
Put(h) ==
    \E s \in known :
        Arrive(h, [Idle EXCEPT !.pc = "save", !.op = "write", !.t = s[1], !.who = s[2]])

\* A run of a task ends, or disableTask has read the configuration that it is
\* about to write back: both go by the name under which the configuration was
\* found.  The default configuration has no tasks.
RunEnds(h) ==
    \E t \in Tenants, p \in {"append", "disable"} :
        /\ config[t] \notin {NoRow, 0}
        /\ Arrive(h, [Idle EXCEPT !.pc = p, !.op = "write", !.t = t, !.who = config[t]])

----------------------------------------------------------------------------
(* UpdateUser, DeleteUser, CreateUser and CreateLocalUser.                 *)

Refuse(h) == Continue(h, Idle)

\* The first statement of UpdateUser and DeleteUser.
Read(h) ==
    /\ At(h, "read")
    /\ LET t == req[h].t IN
        \/ /\ Exists(t)
           /\ Continue(h, [req[h] EXCEPT !.pc = "check", !.found = user[t]])
        \/ ~Exists(t) /\ Refuse(h)
    /\ UNCHANGED <<Tables, Bounds, History>>

\* Mutant: a demotion is not taken for a removal.
RemovesOnlyOnDelete(r) == r.op = "delete" /\ r.found.admin

\* Does the request take an administrator away, as far as it has read?
Removes(r) ==
    /\ r.op \in {"update", "delete"}
    /\ r.found.admin
    /\ r.op = "update" => ~r.admin

\* adminCountExcept and the checks of the name asked for.
Allowed(r) ==
    /\ Removes(r) => Admins \ {r.t} # {}
    /\ r.op = "update" /\ r.to # r.t => ~Exists(r.to) /\ config[r.to] = NoRow
    /\ r.op \in {"create", "oidc"} => ~Exists(r.t)

Check(h) ==
    /\ At(h, "check")
    /\ IF Allowed(req[h]) THEN Continue(h, [req[h] EXCEPT !.pc = "commit"]) ELSE Refuse(h)
    /\ UNCHANGED <<Tables, Bounds, History>>

\* What is left of request r once only the names in left have to be loaded.
Loading(r, left) ==
    IF left = {} THEN Idle
    ELSE [Idle EXCEPT !.pc = "look", !.todo = left,
                      !.op = IF r.op = "boot" THEN "boot" ELSE "load"]

\* Handler h has committed and goes on with request next: what the others in their
\* windows have read is old.
Committed(h, next) ==
    /\ req' = [g \in Handlers |->
                IF g = h THEN next
                ELSE [req[g] EXCEPT !.stale = @ \/ req[g].pc \in Window]]
    /\ raced' = (raced \/ req[h].stale)
    /\ led' = (led \/ req[h].admin)

Creates == {"boot", "setup", "create", "oidc"}

\* Mutant: the insertion sets no is_admin.
CommitNewNoFlag(h) ==
    /\ At(h, "commit")
    /\ req[h].op \in Creates
    /\ ~Exists(req[h].t)
    /\ user' = [user EXCEPT ![req[h].t] = [id |-> lastId + 1]]
    /\ lastId' = lastId + 1
    /\ Committed(h, Loading(req[h], {req[h].t}))
    /\ UNCHANGED <<config, records, known, missed, late, Bounds>>

\* The insertion of CreateUser, CreateLocalUser and UpsertOIDCUser.  The second
\* updates a user that it found under the name; the last loads no configuration.
CommitNew(h) ==
    /\ At(h, "commit")
    /\ req[h].op \in Creates
    /\ LET t == req[h].t
           u == lastId + 1
           oidc == req[h].op = "oidc" IN
        \/ /\ ~Exists(t)
           /\ user' = [user EXCEPT ![t] = [id |-> u, admin |-> req[h].admin]]
           /\ lastId' = u
           /\ known' = known \cup {<<t, u>>}
           /\ missed' = IF oidc THEN missed \cup {u} ELSE missed
           /\ Committed(h, Loading(req[h], IF oidc THEN {} ELSE {t}))
        \/ /\ Exists(t)
           /\ req[h].op = "setup"
           /\ user' = [user EXCEPT ![t].admin = TRUE]
           /\ Committed(h, Loading(req[h], {t}))
           /\ UNCHANGED <<lastId, known, missed>>
        \/ /\ Exists(t)
           /\ Refuse(h)
           /\ UNCHANGED <<user, lastId, known, raced, led, missed>>
    /\ UNCHANGED <<config, records, late, Bounds>>

\* The name that the user read earlier has now.
NameOf(u) == {t \in Tenants : Exists(t) /\ user[t].id = u.id}

\* Mutant: the run records stay under the old name.
RenamedConfigOnly(from, to) ==
    /\ config' = IF config[from] = NoRow THEN config
                 ELSE [config EXCEPT ![to] = config[from], ![from] = NoRow]
    /\ UNCHANGED records

\* renameTenantConfig: the configuration and then the records get the new name;
\* where there is no configuration it returns at once.
Renamed(from, to) ==
    \/ /\ config[from] = NoRow \/ from = to
       /\ UNCHANGED <<config, records>>
    \/ /\ config[from] # NoRow /\ from # to
       /\ config' = [config EXCEPT ![to] = config[from], ![from] = NoRow]
       /\ records' = [records EXCEPT ![to] = @ \cup records[from], ![from] = {}]

\* The transaction of UpdateUser: the user is found by id, the configuration and
\* the records by the name in the request.
CommitUpdate(h) ==
    /\ At(h, "commit")
    /\ req[h].op = "update"
    /\ LET r == req[h] IN
        \/ \E now \in NameOf(r.found) :
            /\ r.to # now => ~Exists(r.to)
            /\ r.to # r.t /\ config[r.t] # NoRow => config[r.to] = NoRow
            /\ user' = [[user EXCEPT ![now] = NoUser]
                            EXCEPT ![r.to] = [id |-> r.found.id, admin |-> r.admin]]
            /\ Renamed(r.t, r.to)
            /\ known' = known \cup {<<r.to, r.found.id>>}
            /\ Committed(h, [Idle EXCEPT !.pc = "reread", !.op = r.op, !.to = r.to,
                                         !.todo = {r.t, r.to}])
        \/ /\ \/ NameOf(r.found) = {}
              \/ \E now \in NameOf(r.found) : r.to # now /\ Exists(r.to)
              \/ r.to # r.t /\ config[r.t] # NoRow /\ config[r.to] # NoRow
           /\ Refuse(h)
           /\ UNCHANGED <<user, config, records, known, raced, led>>
    /\ UNCHANGED <<lastId, missed, late, Bounds>>

\* UpdateUser reads the user again under the new name: an error there ends the
\* request without a reload.
Reread(h) ==
    /\ At(h, "reread")
    /\ IF Exists(req[h].to) THEN Continue(h, Loading(req[h], req[h].todo)) ELSE Refuse(h)
    /\ UNCHANGED <<Tables, Bounds, History>>

\* The transaction of DeleteUser, likewise.
CommitDelete(h) ==
    /\ At(h, "commit")
    /\ req[h].op = "delete"
    /\ LET r == req[h] IN
        \/ \E now \in NameOf(r.found) :
            /\ user' = [user EXCEPT ![now] = NoUser]
            /\ config' = [config EXCEPT ![r.t] = NoRow]
            /\ records' = [records EXCEPT ![r.t] = {}]
            /\ Committed(h, Loading(r, {r.t}))
        \/ /\ NameOf(r.found) = {}
           /\ Refuse(h)
           /\ UNCHANGED <<user, config, records, raced, led>>
    /\ UNCHANGED <<lastId, known, missed, late, Bounds>>

----------------------------------------------------------------------------
(* LoadUser, of the handler itself and of the reload that onConfigChanged  *)
(* starts: a name without a configuration is given the default one.        *)

\* The load of t is over; what is left to load?
Loaded(h, t) == Continue(h, Loading(req[h], req[h].todo \ {t}))

\* The user who goes without a configuration when the load of t fails.
MissedAt(t) == IF Exists(t) /\ config[t] = NoRow THEN {user[t].id} ELSE {}

\* Mutant: the default configuration is returned and not saved.
LookOnly(h) ==
    /\ At(h, "look")
    /\ \E t \in req[h].todo : Loaded(h, t)
    /\ UNCHANGED <<Tables, Bounds, History>>

\* LoadUser looks for the row, or fails, at the latest in Validate.
Look(h) ==
    /\ At(h, "look")
    /\ \E t \in req[h].todo :
        \/ /\ config[t] # NoRow
           /\ Loaded(h, t)
           /\ UNCHANGED missed
        \/ /\ config[t] = NoRow
           /\ Continue(h, [req[h] EXCEPT !.pc = "make", !.t = t])
           /\ UNCHANGED missed
        \/ /\ Loaded(h, t)
           /\ missed' = missed \cup MissedAt(t)
    /\ UNCHANGED <<Tables, Bounds, raced, led, late>>

\* SaveUser creates the row, or writes the default over one made meanwhile; or
\* fails.
Make(h) ==
    /\ At(h, "make")
    /\ LET t == req[h].t IN
        /\ Loaded(h, t)
        /\ \/ config' = [config EXCEPT ![t] = 0] /\ UNCHANGED missed
           \/ missed' = missed \cup MissedAt(t) /\ UNCHANGED config
    /\ UNCHANGED <<user, records, lastId, known, Bounds, raced, led, late>>

----------------------------------------------------------------------------
(* Writes that go by a name, whoever has it now.  Each may fail.           *)

WrittenFor(h) ==
    late' = IF Has(req[h].t, req[h].who) THEN late ELSE late \cup {req[h].who}

\* SaveUser for PUT /api/config, which then loads what it has saved, and for
\* disableTask, which does not.
SaveConfig(h) ==
    /\ At(h, "save") \/ At(h, "disable")
    /\ \/ /\ config' = [config EXCEPT ![req[h].t] = req[h].who]
          /\ WrittenFor(h)
          /\ Continue(h, IF At(h, "disable") THEN Idle
                         ELSE Loading(req[h], {req[h].t}))
       \/ /\ Refuse(h)
          /\ UNCHANGED <<config, late>>
    /\ UNCHANGED <<user, records, lastId, known, Bounds, raced, led, missed>>

\* history.Append, at the end of a run.
Append(h) ==
    /\ At(h, "append")
    /\ \/ /\ records' = [records EXCEPT ![req[h].t] = @ \cup {req[h].who}]
          /\ WrittenFor(h)
       \/ UNCHANGED <<records, late>>
    /\ Refuse(h)
    /\ UNCHANGED <<user, config, lastId, known, Bounds, raced, led, missed>>

----------------------------------------------------------------------------

Crash ==
    /\ crashes < MaxCrashes
    /\ crashes' = crashes + 1
    /\ cut' = (cut \/ \E h \in Handlers : req[h].pc \in {"reread", "look", "make"})
    /\ req' \in Starts
    /\ UNCHANGED <<Tables, requests, History>>

Next ==
    \/ \E h \in Handlers :
        \/ Setup(h) \/ Create(h) \/ SignIn(h) \/ Update(h) \/ Delete(h)
        \/ Visit(h) \/ Put(h) \/ RunEnds(h)
        \/ Read(h) \/ Check(h) \/ CommitNew(h) \/ CommitUpdate(h) \/ CommitDelete(h)
        \/ Reread(h) \/ Look(h) \/ Make(h) \/ SaveConfig(h) \/ Append(h)
    \/ Crash

Spec == Init /\ [][Next]_vars

----------------------------------------------------------------------------
(* Properties.                                                             *)

TypeOK ==
    /\ user \in [Tenants -> User \cup {NoUser}]
    /\ config \in [Tenants -> Nat \cup {NoRow}]
    /\ records \in [Tenants -> SUBSET Nat]
    /\ lastId \in Nat
    /\ known \subseteq Tenants \X Nat
    /\ req \in [Handlers -> Request]
    /\ requests \in Nat
    /\ crashes \in Nat
    /\ raced \in BOOLEAN
    /\ cut \in BOOLEAN
    /\ led \in BOOLEAN
    /\ missed \subseteq Nat
    /\ late \subseteq Nat

Quiet == \A h \in Handlers : At(h, "idle")

\* As long as no commit has relied on an outdated check, an application that has
\* had an administrator has one, whatever is renamed, demoted or deleted.  It need
\* not have had one: a sign-in that the provider vouches for makes an account that
\* is none, also where there are no accounts yet, and setup refuses from then on.
AdminUnlessRaced == ~raced /\ led => Admins # {}

\* As long as no commit has relied on an outdated check, a configuration that a
\* user saved and the records of his runs are under the name that he has: they
\* follow a rename, and do not outlive him.  The exceptions are users for whom a
\* session, a run or a callback has written under a name that was not theirs any
\* more: what it wrote stays there, for whoever takes the name.
RowsFollowUsers ==
    ~raced => \A t \in Tenants :
        \A u \in ({config[t]} \cup records[t]) \ ({NoRow, 0} \cup late) : Has(t, u)

\* Between requests every user has a configuration, and so a scheduler at the
\* next start (StartAll goes by the configurations), except for users made by a
\* sign-in, which loads none, and users whose load failed, unless a crash kept a
\* request from its loads or a commit relied on an outdated check.
EveryUserIsLoaded ==
    Quiet /\ ~raced /\ ~cut => \A t \in Tenants :
        Exists(t) /\ user[t].id \notin missed => config[t] # NoRow

\* config.go:743, "cannot remove the last administrator", and user_test.go:142,
\* TestDeleteUserRejectsLastAdministrator: one who was there is not lost.
LastAdminStays == led => Admins # {}
=============================================================================
