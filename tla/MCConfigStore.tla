---------------------------- MODULE MCConfigStore ----------------------------
(* A user with two tabs (or a tab and the scheduler), who types secrets,    *)
(* changes the type of an entry, removes one, refers to what is not there.  *)
EXTENDS ConfigStore

CONSTANTS k1, k2, c1, c2

MCSecrets == {k1, k2}
MCCallers == {c1, c2}
MCWords   == STRING

Ids == ({"source"} \X {"local"} \X {"api_key"}) \cup ({"target"} \X {"nas"} \X Slots)
       \cup ({"task"} \X {"default"} \X {"password"})

Bare == [valid |-> TRUE, url |-> "", roots |-> {"data"}, secret |-> [i \in {} |-> Blank]]
Rich == [valid |-> TRUE, url |-> "remote", roots |-> {}, secret |-> [i \in Ids |-> k2]]
Odd  == [valid |-> TRUE, url |-> "bad", roots |-> {"data"}, secret |-> [i \in Ids |-> k2]]
Off  == [valid |-> FALSE, url |-> "", roots |-> {"data"}, secret |-> [i \in {} |-> Blank]]

MCEnvs == {Bare, Rich, Odd, Off}

\* Services that answer, secrets that are accepted, and what fails besides.
World(answers, accepted, fails) ==
    [up |-> answers, healthy |-> IF "health" \in fails THEN {} ELSE answers,
     accepted |-> accepted, exports |-> "export" \notin fails,
     tries |-> "try" \notin fails, removes |-> "remove" \notin fails,
     makes |-> "make" \notin fails, takes |-> "take" \notin fails,
     looks |-> IF "look" \in fails THEN {} ELSE Types,
     files |-> {}, listed |-> {"data"}, readable |-> IF "read" \in fails THEN {} ELSE {"data"}]

MCWorlds == {World({"local"}, {k1}, {}), World({"local"}, {k2}, {"remove", "health"}),
             World({"remote"}, {k2}, {"make", "take", "read"}),
             World({"local", "remote"}, {Blank}, {"look"}),
             World({"local", "remote"}, {k1, k2}, {"export", "try"})}

Nas(type, field, secret) ==
    [key |-> "nas", enabled |-> TRUE, type |-> type, complete |-> TRUE,
     secrets |-> [NoSecrets EXCEPT ![field] = secret]]

Head1(list, Op(_)) == IF list = <<>> THEN list ELSE [list EXCEPT ![1] = Op(@)]

MCEdits(cfg) == {
    cfg,
    [cfg EXCEPT !.sources = Head1(@, LAMBDA s : [s EXCEPT !.secret = k1])],
    [cfg EXCEPT !.sources = Head1(@, LAMBDA s : [s EXCEPT !.type = "directory", !.path = "data"])],
    [cfg EXCEPT !.sources = Head1(@, LAMBDA s : [s EXCEPT !.type = ""])],
    [cfg EXCEPT !.targets = <<Nas("sftp", "passphrase", k1)>>,
                !.tasks = Head1(@, LAMBDA t : [t EXCEPT !.enabled = TRUE, !.encrypted = TRUE,
                                                       !.targets = {"nas"}, !.secret = k1])],
    [cfg EXCEPT !.targets = <<Nas("webdav", "passphrase", Blank)>>, !.strategies = <<>>, !.limit = 0],
    [cfg EXCEPT !.targets = <<>>, !.schedules = Head1(@, LAMBDA s : [s EXCEPT !.type = "weekly", !.at = 1, !.day = 3])],
    [cfg EXCEPT !.tasks = Head1(@, LAMBDA t : [t EXCEPT !.enabled = TRUE, !.schedule = "weekly", !.encrypted = ~@, !.secret = k1])]}
=============================================================================
