---------------------------- MODULE AccountsProofs ----------------------------
(* Proofs about Accounts, for any names, handlers and bounds.                 *)
EXTENDS Accounts, TLAPS

USE AccountsAssumption

----------------------------------------------------------------------------
(* The invariant.                                                           *)

\* A user keeps its id, and no two have one; the ids that others go by are those
\* of users.
UniqueIds ==
    /\ \A t \in Tenants : Exists(t) =>
        /\ user[t].id \in 1..lastId
        /\ \A v \in Tenants \ {t} : Exists(v) => user[v].id # user[t].id
    /\ \A t \in Tenants : config[t] \in 0..lastId \cup {NoRow}
    /\ \A s \in known : s[2] \in 0..lastId

\* What request r is, by how far it has come.
Shaped(r) ==
    /\ r.pc \notin {"look", "make", "reread"} => r.todo = {}
    /\ r.pc \notin {"idle", "look", "reread"} => r.t \in Tenants
    /\ r.pc \in {"read", "check", "commit", "reread"} /\ r.op = "update" => r.to \in Tenants
    /\ r.pc = "read" => r.op \in {"update", "delete"}
    /\ r.pc = "check" => r.op \in {"create", "oidc", "update", "delete"}
    /\ r.pc = "reread" => r.op = "update"
    /\ r.pc \in Window /\ r.op \in {"update", "delete"} => r.found \in User
    /\ r.pc = "commit" /\ r.op \in {"boot", "setup"} => r.admin
    /\ r.op = "delete" => ~r.admin
    /\ r.who \in 0..lastId
    /\ r.stale => r.pc \in Window

\* What r has read and checked is so until somebody commits.
AsRead(r) ==
    ~r.stale /\ r.pc \in Window /\ r.op \in {"update", "delete"} => user[r.t] = r.found

Checked(r) ==
    ~r.stale /\ r.pc = "commit" /\ Removes(r) => Admins \ {r.t} # {}

Fits(r) == Shaped(r) /\ AsRead(r) /\ Checked(r)

Requests == \A h \in Handlers : Fits(req[h])

\* The user for whom r is about to write has a configuration, if a name.
Home(r) ==
    r.pc \in {"append", "disable"} =>
        \A t \in Tenants : Has(t, r.who) /\ config[t] = NoRow => r.who \in late

\* Where there is no configuration there are no records, but those written late.
Homes ==
    ~raced => /\ \A t \in Tenants : config[t] = NoRow => records[t] \subseteq late
              /\ \A h \in Handlers : Home(req[h])

\* The names that r is sure to load.
Loads(r) == {t \in r.todo : r.pc = "reread" => t = r.to}

\* A user without a configuration, who was not missed, is about to be loaded.
Covered ==
    ~raced /\ ~cut => \A t \in Tenants :
        Exists(t) /\ config[t] = NoRow /\ user[t].id \notin missed =>
            \E h \in Handlers : t \in Loads(req[h])

AccountsInv ==
    TypeOK /\ UniqueIds /\ Requests /\ AdminUnlessRaced /\ RowsFollowUsers /\ Homes /\ Covered

----------------------------------------------------------------------------
(* Requests, and the steps that commit nothing to the users table.          *)

\* What is idle, or only loads, relies on nothing.
LEMMA LoadingFits ==
    ASSUME lastId \in Nat, NEW r, NEW left \in SUBSET Tenants
    PROVE  /\ Idle \in Request /\ Fits(Idle) /\ Home(Idle) /\ Loads(Idle) = {} /\ Idle.pc = "idle"
           /\ Loading(r, left) \in Request /\ Fits(Loading(r, left)) /\ Home(Loading(r, left))
           /\ Loads(Loading(r, left)) = left /\ Loading(r, left).pc \in {"idle", "look"}
  <1>1. Idle \in Request /\ Idle.pc = "idle" /\ Idle.todo = {} /\ Idle.who = 0 /\ ~Idle.stale /\ ~Idle.admin
        /\ Idle.op = "none"
    BY DEF Idle, Request, Pcs, Ops
  <1>2. Fits(Idle) /\ Home(Idle) /\ Loads(Idle) = {}
    BY <1>1 DEF Fits, Shaped, AsRead, Checked, Home, Loads, Window
  <1> DEFINE op == IF r.op = "boot" THEN "boot" ELSE "load"
             n  == [Idle EXCEPT !.pc = "look", !.todo = left, !.op = op]
  <1>3. op \in {"boot", "load"} /\ op \in Ops /\ "look" \in Pcs
    BY DEF Ops, Pcs
  <1> HIDE DEF op
  <1>4. /\ n \in Request /\ n.pc = "look" /\ n.todo = left /\ n.who = 0 /\ ~n.stale /\ n.op = op
        /\ ~n.admin
    BY <1>1, <1>3 DEF Request
  <1>5. Fits(n) /\ Home(n) /\ Loads(n) = left
    BY <1>3, <1>4 DEF Fits, Shaped, AsRead, Checked, Home, Loads, Window
  <1>6. Loading(r, left) = IF left = {} THEN Idle ELSE n
    BY DEF Loading, op
  <1> QED BY <1>1, <1>2, <1>4, <1>5, <1>6

\* What a process starts with is in order.
LEMMA StartsFit ==
    ASSUME lastId \in Nat, NEW s \in Starts
    PROVE  /\ s \in [Handlers -> Request]
           /\ \A h \in Handlers : Fits(s[h]) /\ Home(s[h])
  <1>1. ASSUME NEW t \in Tenants
        PROVE  LET r == Bootstrap(t) IN r \in Request /\ Fits(r) /\ Home(r)
    <2> DEFINE r == Bootstrap(t)
    <2>1. "commit" \in Pcs /\ "boot" \in Ops /\ TRUE \in BOOLEAN
      BY DEF Pcs, Ops
    <2>2. /\ r \in Request /\ r.pc = "commit" /\ r.op = "boot" /\ r.admin /\ r.t = t
          /\ r.todo = {} /\ ~r.stale /\ r.who = 0
      BY <2>1, LoadingFits DEF Bootstrap, Idle, Request
    <2> HIDE DEF r
    <2>3. Fits(r) /\ Home(r)
      BY <2>2 DEF Fits, Shaped, AsRead, Checked, Removes, Window, Home
    <2> QED BY <2>2, <2>3 DEF r
  <1> DEFINE idle == [h \in Handlers |-> Idle]
  <1>2. idle \in [Handlers -> Request] /\ \A h \in Handlers : Fits(idle[h]) /\ Home(idle[h])
    BY LoadingFits
  <1>3. s = idle \/ \E h \in Handlers, t \in Tenants : s = [idle EXCEPT ![h] = Bootstrap(t)]
    BY DEF Starts
  <1> QED BY <1>1, <1>2, <1>3

LEMMA InitAccountsInv == Init => AccountsInv
  <1> SUFFICES ASSUME Init PROVE AccountsInv
    OBVIOUS
  <1>1. lastId \in Nat /\ req \in Starts
    BY DEF Init
  <1>2. req \in [Handlers -> Request] /\ Requests /\ \A h \in Handlers : Home(req[h])
    BY <1>1, StartsFit DEF Requests
  <1>3. \A t \in Tenants : ~Exists(t)
    BY DEF Init, Exists
  <1>4. TypeOK
    BY <1>2 DEF Init, TypeOK
  <1>5. UniqueIds /\ AdminUnlessRaced /\ RowsFollowUsers /\ Homes /\ Covered
    BY <1>2, <1>3 DEF Init, UniqueIds, AdminUnlessRaced, RowsFollowUsers, Homes, Covered
  <1> QED BY <1>2, <1>4, <1>5 DEF AccountsInv

\* A step of h that leaves the users alone: what it writes under a name is of the
\* user who has it, or is on record as late, and it takes no configuration away.
LEMMA StepKeeps ==
    ASSUME AccountsInv, user' = user, lastId' = lastId, known' = known, raced' = raced, led' = led,
           cut' = cut, requests' \in Nat, crashes' \in Nat,
           NEW h \in Handlers, NEW r \in Request, Continue(h, r), Fits(r), ~raced => Home(r),
           config' \in [Tenants -> 0..lastId \cup {NoRow}], records' \in [Tenants -> SUBSET Nat],
           late' \in SUBSET Nat, missed' \in SUBSET Nat, late \subseteq late', missed \subseteq missed',
           \A t \in Tenants : config'[t] = NoRow => config[t] = NoRow,
           \A t \in Tenants : \A u \in ({config'[t]} \cup records'[t]) \ ({NoRow, 0} \cup late') :
                Has(t, u) \/ u \in {config[t]} \cup records[t],
           ~raced => \A t \in Tenants : config'[t] = NoRow => records'[t] \subseteq late',
           \A t \in Loads(req[h]) : Exists(t) /\ config'[t] = NoRow =>
                t \in Loads(r) \/ user[t].id \in missed'
    PROVE  AccountsInv'
  <1>1. req' \in [Handlers -> Request] /\ \A g \in Handlers : req'[g] = IF g = h THEN r ELSE req[g]
    BY DEF AccountsInv, TypeOK, Continue
  <1>2. lastId \in Nat
    BY DEF AccountsInv, TypeOK
  <1>3. TypeOK'
    <2>1. config' \in [Tenants -> Nat \cup {NoRow}]
      BY <1>2
    <2> QED BY <1>1, <2>1 DEF AccountsInv, TypeOK
  <1>4. Admins' = Admins /\ (\A t : Exists(t)' = Exists(t)) /\ \A t, u : Has(t, u)' = Has(t, u)
    BY DEF Admins, Exists, Has
  <1>5. UniqueIds' /\ AdminUnlessRaced'
    BY <1>4 DEF AccountsInv, UniqueIds, AdminUnlessRaced
  <1>6. RowsFollowUsers'
    <2> SUFFICES ASSUME ~raced, NEW t \in Tenants,
                        NEW u \in ({config'[t]} \cup records'[t]) \ ({NoRow, 0} \cup late')
                 PROVE  Has(t, u)
      BY <1>4 DEF RowsFollowUsers
    <2>1. CASE u \in {config[t]} \cup records[t]
      BY <2>1 DEF AccountsInv, RowsFollowUsers
    <2> QED BY <2>1
  <1>7. Requests'
    <2>1. \A g \in Handlers : Fits(req'[g])
      BY <1>1 DEF AccountsInv, Requests
    <2> QED BY <1>4, <2>1 DEF Requests, Fits, Shaped, AsRead, Checked, Removes
  <1>8. Homes'
    <2> SUFFICES ASSUME ~raced, NEW g \in Handlers PROVE Home(req[g])'
      BY DEF Homes
    <2>1. Home(req'[g])
      BY <1>1 DEF AccountsInv, Homes
    <2> QED BY <1>4, <2>1 DEF Home
  <1>9. Covered'
    <2> SUFFICES ASSUME ~raced, ~cut, NEW t \in Tenants, Exists(t), config'[t] = NoRow,
                        user[t].id \notin missed'
                 PROVE  \E g \in Handlers : t \in Loads(req'[g])
      BY <1>4 DEF Covered, Loads
    <2>1. PICK g \in Handlers : t \in Loads(req[g])
      BY DEF AccountsInv, Covered
    <2>2. t \in Loads(req'[g])
      BY <1>1, <2>1
    <2> QED BY <2>2
  <1> QED BY <1>3, <1>5, <1>6, <1>7, <1>8, <1>9 DEF AccountsInv

\* A step that writes nothing at all.
LEMMA ContinueKeeps ==
    ASSUME AccountsInv, UNCHANGED <<Tables, History>>, cut' = cut, requests' \in Nat, crashes' \in Nat,
           NEW h \in Handlers, NEW r \in Request, Continue(h, r), Fits(r), ~raced => Home(r),
           \A t \in Loads(req[h]) : Exists(t) /\ config[t] = NoRow => t \in Loads(r)
    PROVE  AccountsInv'
  <1>1. /\ user' = user /\ config' = config /\ records' = records /\ lastId' = lastId /\ known' = known
        /\ raced' = raced /\ led' = led /\ missed' = missed /\ late' = late
    BY DEF Tables, History
  <1>2. /\ config \in [Tenants -> 0..lastId \cup {NoRow}] /\ records \in [Tenants -> SUBSET Nat]
        /\ late \in SUBSET Nat /\ missed \in SUBSET Nat
    BY DEF AccountsInv, TypeOK, UniqueIds
  <1>3. ~raced => \A t \in Tenants : config[t] = NoRow => records[t] \subseteq late
    BY DEF AccountsInv, Homes
  <1> QED BY <1>1, <1>2, <1>3, StepKeeps

\* A request that ends, and leaves nothing to load.
LEMMA RefuseKeeps ==
    ASSUME AccountsInv, UNCHANGED <<Tables, Bounds, History>>, NEW h \in Handlers, Refuse(h),
           \A t \in Loads(req[h]) : ~Exists(t)
    PROVE  AccountsInv'
  <1>1. requests' \in Nat /\ crashes' \in Nat /\ cut' = cut /\ lastId \in Nat
    BY DEF Bounds, AccountsInv, TypeOK
  <1> QED BY <1>1, LoadingFits, ContinueKeeps DEF Refuse

LEMMA ArriveKeeps ==
    ASSUME AccountsInv, NEW h \in Handlers, NEW r \in Request, Arrive(h, r), Fits(r), ~raced => Home(r)
    PROVE  AccountsInv'
  <1>1. requests' \in Nat /\ crashes' \in Nat /\ cut' = cut /\ UNCHANGED <<Tables, History>> /\ Continue(h, r)
    BY DEF Arrive, AccountsInv, TypeOK
  <1>2. Loads(req[h]) = {}
    BY DEF Arrive, At, AccountsInv, Requests, Fits, Shaped, Loads
  <1> QED BY <1>1, <1>2, ContinueKeeps

LEMMA ArrivalsKeep ==
    ASSUME AccountsInv, NEW h \in Handlers,
           \/ Setup(h) \/ Create(h) \/ SignIn(h) \/ Update(h) \/ Delete(h)
           \/ Visit(h) \/ Put(h) \/ RunEnds(h)
    PROVE  AccountsInv'
  <1> USE DEF Fits, Shaped, AsRead, Checked, Window
  <1>1. /\ {"check", "commit", "read", "look", "save", "append", "disable"} \subseteq Pcs
        /\ {"setup", "create", "oidc", "update", "delete", "load", "write"} \subseteq Ops
    BY DEF Pcs, Ops
  <1>2. /\ Idle \in Request /\ Idle.todo = {} /\ ~Idle.stale /\ Idle.who = 0 /\ ~Idle.admin
        /\ lastId \in Nat
    BY LoadingFits DEF AccountsInv, TypeOK, Idle
  <1>3. CASE Setup(h)
    <2>1. PICK t \in Tenants : Arrive(h, [Idle EXCEPT !.pc = "commit", !.op = "setup", !.t = t, !.admin = TRUE])
      BY <1>3 DEF Setup
    <2> DEFINE r == [Idle EXCEPT !.pc = "commit", !.op = "setup", !.t = t, !.admin = TRUE]
    <2>2. /\ r \in Request /\ r.pc = "commit" /\ r.op = "setup" /\ r.admin /\ r.t = t
          /\ r.todo = {} /\ ~r.stale /\ r.who = 0
      BY <1>1, <1>2 DEF Request
    <2>3. Fits(r) /\ Home(r)
      BY <1>2, <2>2 DEF Removes, Home
    <2> QED BY <2>1, <2>2, <2>3, ArriveKeeps
  <1>4. CASE Create(h)
    <2>1. PICK t \in Tenants, a \in BOOLEAN :
            Arrive(h, [Idle EXCEPT !.pc = "check", !.op = "create", !.t = t, !.admin = a])
      BY <1>4 DEF Create
    <2> DEFINE r == [Idle EXCEPT !.pc = "check", !.op = "create", !.t = t, !.admin = a]
    <2>2. r \in Request /\ r.pc = "check" /\ r.op = "create" /\ r.t = t /\ r.todo = {} /\ ~r.stale /\ r.who = 0
      BY <1>1, <1>2 DEF Request
    <2>3. Fits(r) /\ Home(r)
      BY <1>2, <2>2 DEF Home
    <2> QED BY <2>1, <2>2, <2>3, ArriveKeeps
  <1>5. CASE SignIn(h)
    <2>1. PICK t \in Tenants : Arrive(h, [Idle EXCEPT !.pc = "check", !.op = "oidc", !.t = t])
      BY <1>5 DEF SignIn
    <2> DEFINE r == [Idle EXCEPT !.pc = "check", !.op = "oidc", !.t = t]
    <2>2. r \in Request /\ r.pc = "check" /\ r.op = "oidc" /\ r.t = t /\ r.todo = {} /\ ~r.stale /\ r.who = 0
      BY <1>1, <1>2 DEF Request
    <2>3. Fits(r) /\ Home(r)
      BY <1>2, <2>2 DEF Home
    <2> QED BY <2>1, <2>2, <2>3, ArriveKeeps
  <1>6. CASE Update(h)
    <2>1. PICK t \in Tenants, to \in Tenants, a \in BOOLEAN :
            Arrive(h, [Idle EXCEPT !.pc = "read", !.op = "update", !.t = t, !.to = to, !.admin = a])
      BY <1>6 DEF Update
    <2> DEFINE r == [Idle EXCEPT !.pc = "read", !.op = "update", !.t = t, !.to = to, !.admin = a]
    <2>2. /\ r \in Request /\ r.pc = "read" /\ r.op = "update" /\ r.t = t /\ r.to = to
          /\ r.todo = {} /\ ~r.stale /\ r.who = 0
      BY <1>1, <1>2 DEF Request
    <2>3. Fits(r) /\ Home(r)
      BY <1>2, <2>2 DEF Home
    <2> QED BY <2>1, <2>2, <2>3, ArriveKeeps
  <1>7. CASE Delete(h)
    <2>1. PICK t \in Tenants : Arrive(h, [Idle EXCEPT !.pc = "read", !.op = "delete", !.t = t])
      BY <1>7 DEF Delete
    <2> DEFINE r == [Idle EXCEPT !.pc = "read", !.op = "delete", !.t = t]
    <2>2. /\ r \in Request /\ r.pc = "read" /\ r.op = "delete" /\ r.t = t /\ r.todo = {} /\ ~r.stale
          /\ r.who = 0 /\ ~r.admin
      BY <1>1, <1>2 DEF Request
    <2>3. Fits(r) /\ Home(r)
      BY <1>2, <2>2 DEF Home
    <2> QED BY <2>1, <2>2, <2>3, ArriveKeeps
  <1>8. CASE Visit(h)
    <2>1. PICK s \in known : Arrive(h, [Idle EXCEPT !.pc = "look", !.op = "load", !.todo = {s[1]}])
      BY <1>8 DEF Visit
    <2> DEFINE r == [Idle EXCEPT !.pc = "look", !.op = "load", !.todo = {s[1]}]
    <2>2. s[1] \in Tenants
      BY <2>1 DEF AccountsInv, TypeOK
    <2>3. r \in Request /\ r.pc = "look" /\ r.op = "load" /\ ~r.stale /\ r.who = 0
      BY <1>1, <1>2, <2>2 DEF Request
    <2>4. Fits(r) /\ Home(r)
      BY <1>2, <2>3 DEF Home
    <2> QED BY <2>1, <2>3, <2>4, ArriveKeeps
  <1>9. CASE Put(h)
    <2>1. PICK s \in known :
            Arrive(h, [Idle EXCEPT !.pc = "save", !.op = "write", !.t = s[1], !.who = s[2]])
      BY <1>9 DEF Put
    <2> DEFINE r == [Idle EXCEPT !.pc = "save", !.op = "write", !.t = s[1], !.who = s[2]]
    <2>2. s[1] \in Tenants /\ s[2] \in Nat /\ s[2] \in 0..lastId
      BY <2>1 DEF AccountsInv, TypeOK, UniqueIds
    <2>3. /\ r \in Request /\ r.pc = "save" /\ r.op = "write" /\ ~r.stale /\ r.todo = {}
          /\ r.t \in Tenants /\ r.who = s[2]
      BY <1>1, <1>2, <2>2 DEF Request
    <2>4. Fits(r) /\ Home(r)
      BY <1>2, <2>2, <2>3 DEF Home
    <2> QED BY <2>1, <2>3, <2>4, ArriveKeeps
  <1>10. CASE RunEnds(h)
    <2>1. PICK t \in Tenants, p \in {"append", "disable"} :
            /\ config[t] \notin {NoRow, 0}
            /\ Arrive(h, [Idle EXCEPT !.pc = p, !.op = "write", !.t = t, !.who = config[t]])
      BY <1>10 DEF RunEnds
    <2> DEFINE r == [Idle EXCEPT !.pc = p, !.op = "write", !.t = t, !.who = config[t]]
    <2>2. config[t] \in 0..lastId /\ config[t] \in Nat
      BY <1>2, <2>1 DEF AccountsInv, UniqueIds
    <2>3. /\ r \in Request /\ r.pc = p /\ r.op = "write" /\ ~r.stale /\ r.todo = {}
          /\ r.t = t /\ r.who = config[t]
      BY <1>1, <1>2, <2>1, <2>2 DEF Request
    <2>4. ~raced => Home(r)
      <3> SUFFICES ASSUME ~raced, NEW v \in Tenants, Has(v, config[t]), config[v] = NoRow,
                          config[t] \notin late
                   PROVE  FALSE
        BY <2>3 DEF Home
      <3>1. Has(t, config[t])
        BY <2>1 DEF AccountsInv, RowsFollowUsers
      <3> QED BY <2>1, <3>1 DEF AccountsInv, UniqueIds, Has
    <2>5. Fits(r)
      BY <2>2, <2>3
    <2> QED BY <2>1, <2>3, <2>4, <2>5, ArriveKeeps
  <1> QED BY <1>3, <1>4, <1>5, <1>6, <1>7, <1>8, <1>9, <1>10

LEMMA ReadKeeps ==
    ASSUME AccountsInv, NEW h \in Handlers, Read(h)
    PROVE  AccountsInv'
  <1> DEFINE r == req[h]
             n == [r EXCEPT !.pc = "check", !.found = user[r.t]]
  <1>1. /\ r \in Request /\ r.pc = "read" /\ Shaped(r) /\ "check" \in Pcs
        /\ UNCHANGED <<Tables, Bounds, History>> /\ Loads(r) = {} /\ r.t \in Tenants
    BY DEF Read, At, AccountsInv, TypeOK, Requests, Fits, Pcs, Shaped, Loads
  <1>2. CASE Exists(r.t) /\ Continue(h, n)
    <2>1. user[r.t] \in User
      BY <1>1, <1>2 DEF Exists, AccountsInv, TypeOK
    <2>2. n \in Request
      BY <1>1, <2>1 DEF Request
    <2>3. /\ n.pc = "check" /\ n.op = r.op /\ n.t = r.t /\ n.to = r.to /\ n.found = user[r.t]
          /\ n.todo = r.todo /\ n.stale = r.stale /\ n.admin = r.admin /\ n.who = r.who
      BY <1>1 DEF Request
    <2>4. Fits(n) /\ Home(n)
      BY <1>1, <2>1, <2>3 DEF Fits, Shaped, AsRead, Checked, Window, Home
    <2>5. requests' \in Nat /\ crashes' \in Nat /\ cut' = cut
      BY <1>1 DEF Bounds, AccountsInv, TypeOK
    <2> QED BY <1>1, <1>2, <2>2, <2>4, <2>5, ContinueKeeps
  <1> QED BY <1>1, <1>2, RefuseKeeps DEF Read

LEMMA CheckKeeps ==
    ASSUME AccountsInv, NEW h \in Handlers, Check(h)
    PROVE  AccountsInv'
  <1> DEFINE r == req[h]
             n == [r EXCEPT !.pc = "commit"]
  <1>1. /\ r \in Request /\ r.pc = "check" /\ Shaped(r) /\ AsRead(r) /\ "commit" \in Pcs
        /\ UNCHANGED <<Tables, Bounds, History>> /\ Loads(r) = {}
    BY DEF Check, At, AccountsInv, TypeOK, Requests, Fits, Pcs, Shaped, Loads
  <1>2. CASE Allowed(r) /\ Continue(h, n)
    <2>1. n \in Request
      BY <1>1 DEF Request
    <2>2. /\ n.pc = "commit" /\ n.op = r.op /\ n.t = r.t /\ n.to = r.to /\ n.found = r.found
          /\ n.todo = r.todo /\ n.stale = r.stale /\ n.admin = r.admin /\ n.who = r.who
      BY <1>1 DEF Request
    <2>3. r.op \notin {"boot", "setup"}
      BY <1>1 DEF Shaped
    <2>4. Shaped(n) /\ AsRead(n) /\ Home(n)
      BY <1>1, <2>2, <2>3 DEF Shaped, AsRead, Window, Home
    <2>5. Checked(n)
      BY <1>2, <2>2 DEF Checked, Allowed, Removes
    <2>6. requests' \in Nat /\ crashes' \in Nat /\ cut' = cut
      BY <1>1 DEF Bounds, AccountsInv, TypeOK
    <2> QED BY <1>1, <1>2, <2>1, <2>4, <2>5, <2>6, ContinueKeeps DEF Fits
  <1> QED BY <1>1, <1>2, RefuseKeeps DEF Check

LEMMA RereadKeeps ==
    ASSUME AccountsInv, NEW h \in Handlers, Reread(h)
    PROVE  AccountsInv'
  <1> DEFINE r == req[h]
             n == Loading(r, r.todo)
  <1>1. /\ r \in Request /\ r.pc = "reread" /\ r.todo \in SUBSET Tenants
        /\ UNCHANGED <<Tables, Bounds, History>> /\ lastId \in Nat
    BY DEF Reread, At, AccountsInv, TypeOK, Request
  <1>2. CASE Exists(r.to) /\ Continue(h, n)
    <2>1. n \in Request /\ Fits(n) /\ Home(n) /\ Loads(n) = r.todo
      BY <1>1, LoadingFits
    <2>2. Loads(r) \subseteq Loads(n)
      BY <2>1 DEF Loads
    <2>3. requests' \in Nat /\ crashes' \in Nat /\ cut' = cut
      BY <1>1 DEF Bounds, AccountsInv, TypeOK
    <2> HIDE DEF n
    <2> QED BY <1>1, <1>2, <2>1, <2>2, <2>3, ContinueKeeps
  <1>3. CASE ~Exists(r.to) /\ Refuse(h)
    <2>1. \A t \in Loads(r) : ~Exists(t)
      BY <1>1, <1>3 DEF Loads
    <2> QED BY <1>1, <1>3, <2>1, RefuseKeeps
  <1> QED BY <1>2, <1>3 DEF Reread

\* Handler h is done with t: it goes on with a request that loads what is left.
LEMMA LoadedFits ==
    ASSUME AccountsInv, NEW h \in Handlers, req[h].pc \in {"look", "make"}, NEW t, Loaded(h, t)
    PROVE  \E n \in Request :
            /\ Continue(h, n) /\ Fits(n) /\ Home(n)
            /\ Loads(n) = Loads(req[h]) \ {t}
  <1> DEFINE left == req[h].todo \ {t}
             n    == Loading(req[h], left)
  <1>1. left \in SUBSET Tenants /\ lastId \in Nat
    BY DEF AccountsInv, TypeOK, Request
  <1>2. left = Loads(req[h]) \ {t}
    BY DEF Loads
  <1>3. n \in Request /\ Fits(n) /\ Home(n) /\ Loads(n) = left
    BY <1>1, LoadingFits
  <1>4. Continue(h, n)
    BY DEF Loaded
  <1> QED BY <1>2, <1>3, <1>4

\* A load of t that is over, with whatever it wrote: the default configuration, or
\* nothing, and then the user who goes without one is on record.
LEMMA LoadedKeeps ==
    ASSUME AccountsInv, NEW h \in Handlers, req[h].pc \in {"look", "make"}, NEW t \in Tenants, Loaded(h, t),
           UNCHANGED <<user, records, lastId, known, Bounds, raced, led, late>>,
           \/ config[t] # NoRow /\ UNCHANGED <<config, missed>>
           \/ config' = [config EXCEPT ![t] = 0] /\ UNCHANGED missed
           \/ config' = config /\ missed' = missed \cup MissedAt(t)
    PROVE  AccountsInv'
  <1>1. PICK n \in Request :
            /\ Continue(h, n) /\ Fits(n) /\ Home(n)
            /\ Loads(n) = Loads(req[h]) \ {t}
    BY LoadedFits
  <1>2. /\ lastId \in Nat /\ config \in [Tenants -> 0..lastId \cup {NoRow}] /\ records \in [Tenants -> SUBSET Nat]
        /\ late \in SUBSET Nat /\ missed \in SUBSET Nat /\ requests' \in Nat /\ crashes' \in Nat /\ cut' = cut
    BY DEF AccountsInv, TypeOK, UniqueIds, Bounds
  <1>3. config' \in [Tenants -> 0..lastId \cup {NoRow}] /\ \A v \in Tenants : config'[v] \in {config[v], 0}
    BY <1>2
  <1>4. MissedAt(t) \in SUBSET Nat /\ (Exists(t) /\ config[t] = NoRow => user[t].id \in MissedAt(t))
    BY DEF MissedAt, Exists, AccountsInv, TypeOK, User
  <1>5. missed' \in SUBSET Nat /\ missed \subseteq missed'
    BY <1>2, <1>4
  <1>6. \A v \in Tenants : config'[v] = NoRow => config[v] = NoRow
    BY <1>3
  <1>7. ~raced => \A v \in Tenants : config'[v] = NoRow => records[v] \subseteq late
    BY <1>6 DEF AccountsInv, Homes
  <1>8. \A v \in Loads(req[h]) : Exists(v) /\ config'[v] = NoRow => v \in Loads(n) \/ user[v].id \in missed'
    <2> SUFFICES ASSUME NEW v \in Loads(req[h]), Exists(v), config'[v] = NoRow, v \notin Loads(n)
                 PROVE  user[v].id \in missed'
      OBVIOUS
    <2>1. v = t
      BY <1>1
    <2>2. config[t] = NoRow /\ config' # [config EXCEPT ![t] = 0]
      BY <1>2, <1>6, <2>1
    <2> QED BY <1>4, <2>1, <2>2
  <1>9. \A v \in Tenants : \A u \in ({config'[v]} \cup records[v]) \ ({NoRow, 0} \cup late) :
            u \in {config[v]} \cup records[v]
    BY <1>3
  <1> QED BY <1>1, <1>2, <1>3, <1>5, <1>6, <1>7, <1>8, <1>9, StepKeeps

LEMMA LookKeeps ==
    ASSUME AccountsInv, NEW h \in Handlers, Look(h)
    PROVE  AccountsInv'
  <1> DEFINE r == req[h]
  <1>1. /\ r \in Request /\ r.pc = "look" /\ Shaped(r) /\ "make" \in Pcs /\ lastId \in Nat
        /\ UNCHANGED <<Tables, Bounds, raced, led, late>>
    BY DEF Look, At, AccountsInv, TypeOK, Requests, Fits, Pcs
  <1>2. PICK t \in r.todo :
            \/ config[t] # NoRow /\ Loaded(h, t) /\ UNCHANGED missed
            \/ Continue(h, [r EXCEPT !.pc = "make", !.t = t]) /\ UNCHANGED missed
            \/ Loaded(h, t) /\ missed' = missed \cup MissedAt(t)
    BY DEF Look
  <1>3. t \in Tenants
    BY <1>1 DEF Request
  <1>4. CASE Continue(h, [r EXCEPT !.pc = "make", !.t = t]) /\ UNCHANGED missed
    <2> DEFINE n == [r EXCEPT !.pc = "make", !.t = t]
    <2>1. n \in Request
      BY <1>1, <1>3 DEF Request
    <2>2. /\ n.pc = "make" /\ n.op = r.op /\ n.todo = r.todo /\ n.stale = r.stale /\ n.t = t
          /\ n.who = r.who /\ n.admin = r.admin
      BY <1>1 DEF Request
    <2>3. Fits(n) /\ Home(n) /\ Loads(r) \subseteq Loads(n)
      BY <1>1, <1>3, <2>2 DEF Fits, Shaped, AsRead, Checked, Window, Loads, Home
    <2>4. requests' \in Nat /\ crashes' \in Nat /\ cut' = cut /\ UNCHANGED History
      BY <1>1, <1>4 DEF Bounds, History, AccountsInv, TypeOK
    <2> QED BY <1>1, <1>4, <2>1, <2>3, <2>4, ContinueKeeps
  <1>5. CASE Loaded(h, t) /\ (\/ config[t] # NoRow /\ UNCHANGED missed
                              \/ missed' = missed \cup MissedAt(t))
    BY <1>1, <1>3, <1>5, LoadedKeeps DEF Tables
  <1> QED BY <1>2, <1>4, <1>5

LEMMA MakeKeeps ==
    ASSUME AccountsInv, NEW h \in Handlers, Make(h)
    PROVE  AccountsInv'
  <1> DEFINE t == req[h].t
  <1>1. /\ req[h].pc = "make" /\ t \in Tenants /\ Loaded(h, t)
        /\ \/ config' = [config EXCEPT ![t] = 0] /\ UNCHANGED missed
           \/ missed' = missed \cup MissedAt(t) /\ UNCHANGED config
        /\ UNCHANGED <<user, records, lastId, known, Bounds, raced, led, late>>
    BY DEF Make, At, AccountsInv, Requests, Fits, Shaped
  <1> QED BY <1>1, LoadedKeeps

LEMMA SaveConfigKeeps ==
    ASSUME AccountsInv, NEW h \in Handlers, SaveConfig(h)
    PROVE  AccountsInv'
  <1> DEFINE r == req[h]
             t == r.t
             u == r.who
             n == Loading(r, {t})
  <1>1. /\ r \in Request /\ r.pc \in {"save", "disable"} /\ t \in Tenants /\ Loads(r) = {}
        /\ u \in 0..lastId /\ lastId \in Nat /\ u \in Nat
        /\ UNCHANGED <<user, records, lastId, known, Bounds, raced, led, missed>>
    BY DEF SaveConfig, At, AccountsInv, TypeOK, Requests, Fits, Shaped, Loads
  <1>2. /\ Idle \in Request /\ Fits(Idle) /\ Home(Idle)
        /\ n \in Request /\ Fits(n) /\ Home(n)
    BY <1>1, LoadingFits
  <1>3. CASE config' = [config EXCEPT ![t] = u] /\ WrittenFor(h) /\ Continue(h, IF At(h, "disable") THEN Idle ELSE n)
    <2>1. PICK m \in Request : Continue(h, m) /\ Fits(m) /\ Home(m)
      BY <1>2, <1>3
    <2>2. /\ config \in [Tenants -> 0..lastId \cup {NoRow}] /\ records \in [Tenants -> SUBSET Nat]
          /\ late \in SUBSET Nat /\ missed \in SUBSET Nat /\ requests' \in Nat /\ crashes' \in Nat /\ cut' = cut
      BY <1>1 DEF AccountsInv, TypeOK, UniqueIds, Bounds
    <2>3. /\ config' \in [Tenants -> 0..lastId \cup {NoRow}]
          /\ \A v \in Tenants : config'[v] = IF v = t THEN u ELSE config[v]
      BY <1>1, <1>3, <2>2
    <2>4. late' \in SUBSET Nat /\ late \subseteq late' /\ (u \in late' \/ Has(t, u))
      BY <1>1, <1>3, <2>2 DEF WrittenFor
    <2>5. ~raced => \A v \in Tenants : config'[v] = NoRow => records[v] \subseteq late'
      BY <1>1, <2>3, <2>4 DEF AccountsInv, Homes
    <2>6. /\ \A v \in Tenants : config'[v] = NoRow => config[v] = NoRow
          /\ \A v \in Tenants : \A x \in ({config'[v]} \cup records[v]) \ ({NoRow, 0} \cup late') :
                Has(v, x) \/ x \in {config[v]} \cup records[v]
      BY <1>1, <2>3, <2>4
    <2> QED BY <1>1, <2>1, <2>2, <2>3, <2>4, <2>5, <2>6, StepKeeps
  <1>4. CASE Refuse(h) /\ UNCHANGED <<config, late>>
    BY <1>1, <1>4, RefuseKeeps DEF Tables, History
  <1> QED BY <1>3, <1>4 DEF SaveConfig

LEMMA AppendKeeps ==
    ASSUME AccountsInv, NEW h \in Handlers, Append(h)
    PROVE  AccountsInv'
  <1> DEFINE r == req[h]
             t == r.t
             u == r.who
  <1>1. /\ r \in Request /\ r.pc = "append" /\ t \in Tenants /\ Loads(r) = {} /\ u \in Nat /\ lastId \in Nat
        /\ UNCHANGED <<user, config, lastId, known, Bounds, raced, led, missed>> /\ Refuse(h)
    BY DEF Append, At, AccountsInv, TypeOK, Requests, Fits, Shaped, Loads, Request
  <1>2. CASE records' = [records EXCEPT ![t] = @ \cup {u}] /\ WrittenFor(h)
    <2>1. Idle \in Request /\ Fits(Idle) /\ Home(Idle) /\ Continue(h, Idle)
      BY <1>1, LoadingFits DEF Refuse
    <2>2. /\ config \in [Tenants -> 0..lastId \cup {NoRow}] /\ records \in [Tenants -> SUBSET Nat]
          /\ late \in SUBSET Nat /\ missed \in SUBSET Nat /\ requests' \in Nat /\ crashes' \in Nat /\ cut' = cut
      BY <1>1 DEF AccountsInv, TypeOK, UniqueIds, Bounds
    <2>3. /\ records' \in [Tenants -> SUBSET Nat]
          /\ \A v \in Tenants : records'[v] = IF v = t THEN records[v] \cup {u} ELSE records[v]
      BY <1>1, <1>2, <2>2
    <2>4. late' \in SUBSET Nat /\ late \subseteq late' /\ (u \in late' \/ Has(t, u))
      BY <1>1, <1>2, <2>2 DEF WrittenFor
    <2>5. ~raced => \A v \in Tenants : config[v] = NoRow => records'[v] \subseteq late'
      <3> SUFFICES ASSUME ~raced, NEW v \in Tenants, config[v] = NoRow PROVE records'[v] \subseteq late'
        OBVIOUS
      <3>1. records[v] \subseteq late'
        BY <2>4 DEF AccountsInv, Homes
      <3>2. v = t => u \in late'
        BY <1>1, <2>4 DEF AccountsInv, Homes, Home
      <3> QED BY <2>3, <3>1, <3>2
    <2>6. \A v \in Tenants : \A x \in ({config[v]} \cup records'[v]) \ ({NoRow, 0} \cup late') :
                Has(v, x) \/ x \in {config[v]} \cup records[v]
      BY <1>1, <2>3, <2>4
    <2> QED BY <1>1, <2>1, <2>2, <2>3, <2>4, <2>5, <2>6, StepKeeps
  <1>3. CASE UNCHANGED <<records, late>>
    BY <1>1, <1>3, RefuseKeeps DEF Tables, History
  <1> QED BY <1>2, <1>3 DEF Append

----------------------------------------------------------------------------
(* The commits.                                                             *)

\* A commit makes outdated what the others rely on: none of them has to be as it
\* was read, but when it commits itself that is on record.
LEMMA CommittedFits ==
    ASSUME AccountsInv, NEW h \in Handlers, At(h, "commit"), NEW next \in Request, Committed(h, next),
           next.pc \in {"idle", "look", "reread"}, Shaped(next), lastId' \in Nat, lastId' >= lastId
    PROVE  /\ req' \in [Handlers -> Request] /\ Requests'
           /\ raced' \in BOOLEAN /\ (~raced' => ~raced /\ ~req[h].stale)
           /\ led' \in BOOLEAN /\ (led' => led \/ req[h].admin)
           /\ Loads(req[h]) = {}
           /\ \A g \in Handlers : Loads(req[g]) \subseteq Loads(req'[g])
           /\ Loads(req'[h]) = Loads(next)
           /\ \A g \in Handlers : req'[g].pc \in {"append", "disable"} =>
                req[g].pc = req'[g].pc /\ req[g].who = req'[g].who
  <1> DEFINE Other(g) == [req[g] EXCEPT !.stale = req[g].stale \/ req[g].pc \in Window]
  <1>1. /\ \A g \in Handlers : req'[g] = IF g = h THEN next ELSE Other(g)
        /\ req' = [g \in Handlers |-> req'[g]]
        /\ raced' = (raced \/ req[h].stale) /\ led' = (led \/ req[h].admin)
    BY DEF Committed
  <1>2. /\ \A g \in Handlers : req[g] \in Request /\ Shaped(req[g]) /\ req[g].stale \in BOOLEAN
        /\ req[h].admin \in BOOLEAN /\ lastId \in Nat
    BY DEF AccountsInv, TypeOK, Requests, Fits, Request
  <1>3. ASSUME NEW g \in Handlers, g # h
        PROVE  /\ req'[g] \in Request /\ Fits(req[g])'
               /\ Loads(req'[g]) = Loads(req[g])
               /\ req'[g].pc = req[g].pc /\ req'[g].who = req[g].who
    <2> DEFINE stale == req[g].stale \/ req[g].pc \in Window
               n     == [req[g] EXCEPT !.stale = stale]
    <2>1. req'[g] = n /\ stale \in BOOLEAN
      BY <1>1, <1>2, <1>3
    <2>2. stale <=> req[g].pc \in Window
      BY <1>2 DEF Shaped
    <2> HIDE DEF stale
    <2>3. /\ n \in Request /\ n.pc = req[g].pc /\ n.op = req[g].op /\ n.todo = req[g].todo /\ n.t = req[g].t
          /\ n.found = req[g].found /\ n.admin = req[g].admin /\ n.to = req[g].to /\ n.stale = stale
          /\ n.who = req[g].who
      BY <1>2, <2>1 DEF Request
    <2>4. Shaped(req[g])'
      <3>1. req[g].who \in 0..lastId'
        BY <1>2 DEF Shaped
      <3> QED BY <1>2, <2>1, <2>2, <2>3, <3>1 DEF Shaped
    <2>5. (AsRead(req[g]) /\ Checked(req[g]))'
      BY <2>1, <2>2, <2>3 DEF AsRead, Checked, Window
    <2>6. Loads(req'[g]) = Loads(req[g])
      BY <2>1, <2>3 DEF Loads
    <2> QED BY <2>1, <2>3, <2>4, <2>5, <2>6 DEF Fits
  <1>4. req'[h] = next /\ Fits(req[h])'
    <2>1. next.who \in 0..lastId'
      BY <1>2 DEF Shaped
    <2>2. Shaped(req[h])'
      BY <1>1, <2>1 DEF Shaped
    <2>3. (AsRead(req[h]) /\ Checked(req[h]))'
      BY <1>1 DEF AsRead, Checked, Window
    <2> QED BY <1>1, <2>2, <2>3 DEF Fits
  <1>5. Loads(req[h]) = {}
    BY <1>2 DEF Shaped, At, Loads
  <1>6. req' \in [Handlers -> Request] /\ Requests'
    BY <1>1, <1>3, <1>4 DEF Requests
  <1>7. /\ raced' \in BOOLEAN /\ (~raced' => ~raced /\ ~req[h].stale)
        /\ led' \in BOOLEAN /\ (led' => led \/ req[h].admin)
    BY <1>1, <1>2 DEF AccountsInv, TypeOK
  <1>8. \A g \in Handlers : Loads(req[g]) \subseteq Loads(req'[g])
    BY <1>3, <1>5
  <1>9. \A g \in Handlers : req'[g].pc \in {"append", "disable"} =>
            req[g].pc = req'[g].pc /\ req[g].who = req'[g].who
    BY <1>3, <1>4
  <1> QED BY <1>4, <1>5, <1>6, <1>7, <1>8, <1>9

LEMMA CommitNewKeeps ==
    ASSUME AccountsInv, NEW h \in Handlers, CommitNew(h)
    PROVE  AccountsInv'
  <1> DEFINE r == req[h]
             u == lastId + 1
             oidc == r.op = "oidc"
  <1>0. PICK t \in Tenants : t = r.t
    BY DEF CommitNew, At, AccountsInv, Requests, Fits, Shaped
  <1>1. /\ r \in Request /\ At(h, "commit") /\ r.op \in Creates /\ Shaped(r)
        /\ t \in Tenants /\ r.admin \in BOOLEAN /\ UNCHANGED <<config, records, late, Bounds>>
        /\ Loads(r) = {} /\ lastId \in Nat
    BY DEF CommitNew, At, AccountsInv, TypeOK, Requests, Fits, Request, Shaped, Loads
  <1>2. ASSUME NEW loads \in SUBSET {t}, Committed(h, Loading(r, loads)), lastId' \in Nat, lastId' >= lastId
        PROVE  /\ req' \in [Handlers -> Request] /\ Requests'
               /\ raced' \in BOOLEAN /\ (~raced' => ~raced /\ ~r.stale)
               /\ led' \in BOOLEAN /\ (led' => led \/ r.admin)
               /\ \A g \in Handlers : Loads(req[g]) \subseteq Loads(req'[g])
               /\ Loads(req'[h]) = loads
               /\ \A g \in Handlers : req'[g].pc \in {"append", "disable"} =>
                    req[g].pc = req'[g].pc /\ req[g].who = req'[g].who
    <2>1. loads \in SUBSET Tenants
      BY <1>1
    <2> DEFINE n == Loading(r, loads)
    <2>2. n \in Request /\ Shaped(n) /\ Loads(n) = loads /\ n.pc \in {"idle", "look", "reread"}
      BY <1>1, <2>1, LoadingFits DEF Fits
    <2>3. Committed(h, n)
      BY <1>2
    <2> HIDE DEF n
    <2> QED BY <1>1, <1>2, <2>2, <2>3, CommittedFits
  <1>3. CASE /\ ~Exists(t) /\ lastId' = u
             /\ user' = [user EXCEPT ![t] = [id |-> u, admin |-> r.admin]]
             /\ known' = known \cup {<<t, u>>}
             /\ missed' = IF oidc THEN missed \cup {u} ELSE missed
             /\ Committed(h, Loading(r, IF oidc THEN {} ELSE {t}))
    <2> DEFINE loads == IF oidc THEN {} ELSE {t}
    <2>1. /\ req' \in [Handlers -> Request] /\ Requests'
          /\ raced' \in BOOLEAN /\ (~raced' => ~raced /\ ~r.stale)
          /\ led' \in BOOLEAN /\ (led' => led \/ r.admin)
          /\ \A g \in Handlers : Loads(req[g]) \subseteq Loads(req'[g])
          /\ Loads(req'[h]) = loads
          /\ \A g \in Handlers : req'[g].pc \in {"append", "disable"} =>
               req[g].pc = req'[g].pc /\ req[g].who = req'[g].who
      <3>1. loads \in SUBSET {t} /\ Committed(h, Loading(r, loads)) /\ lastId' \in Nat /\ lastId' >= lastId
        BY <1>1, <1>3
      <3> HIDE DEF loads
      <3> QED BY <1>2, <3>1
    <2>2. /\ user'[t] = [id |-> u, admin |-> r.admin] /\ user'[t] \in User /\ user'[t] # NoUser
          /\ user'[t].id = u /\ user'[t].admin = r.admin
          /\ \A v \in Tenants : v # t => user'[v] = user[v]
          /\ user' \in [Tenants -> User \cup {NoUser}]
      BY <1>1, <1>3 DEF User, AccountsInv, TypeOK
    <2>3. /\ Exists(t)' /\ \A v \in Tenants : v # t => (Exists(v)' <=> Exists(v))
          /\ \A v \in Tenants : v # t => \A x : Has(v, x)' <=> Has(v, x)
          /\ \A x : ~Has(t, x)
      <3>1. \A v \in Tenants : v # t => user'[v] = user[v]
        BY <2>2
      <3>2. Exists(t)' /\ \A x : ~Has(t, x)
        BY <1>3, <2>2 DEF Exists, Has
      <3>3. ASSUME NEW v \in Tenants, v # t
            PROVE  (Exists(v)' <=> Exists(v)) /\ \A x : Has(v, x)' <=> Has(v, x)
        BY <3>1, <3>3 DEF Exists, Has
      <3> QED BY <3>2, <3>3
    <2>4. TypeOK'
      BY <1>1, <1>3, <2>1, <2>2 DEF AccountsInv, TypeOK, Bounds
    <2>5. UniqueIds'
      <3>1. \A v \in Tenants : v # t /\ Exists(v) => user[v].id \in 1..lastId /\ user'[v] = user[v]
        BY <2>2 DEF AccountsInv, UniqueIds
      <3>2. /\ \A v \in Tenants : config'[v] \in 0..lastId' \cup {NoRow}
            /\ \A s \in known' : s[2] \in 0..lastId'
        BY <1>1, <1>3 DEF AccountsInv, UniqueIds
      <3> QED BY <1>1, <1>3, <2>2, <2>3, <3>1, <3>2 DEF AccountsInv, UniqueIds
    <2>6. AdminUnlessRaced'
      <3> SUFFICES ASSUME ~raced', led' PROVE Admins' # {}
        BY DEF AdminUnlessRaced
      <3>1. CASE r.admin
        <4>1. user'[t].admin
          BY <2>2, <3>1
        <4>2. t \in Admins'
          BY <1>1, <2>3, <4>1 DEF Admins
        <4> QED BY <4>2
      <3>2. CASE led
        <4>1. PICK v \in Tenants : Exists(v) /\ user[v].admin
          BY <2>1, <3>2 DEF AccountsInv, AdminUnlessRaced, Admins
        <4>2. v \in Admins'
          BY <1>3, <2>2, <2>3, <4>1 DEF Admins
        <4> QED BY <4>2
      <3> QED BY <2>1, <3>1, <3>2
    <2>7. RowsFollowUsers'
      <3> SUFFICES ASSUME ~raced', NEW v \in Tenants,
                          NEW x \in ({config[v]} \cup records[v]) \ ({NoRow, 0} \cup late)
                   PROVE  Has(v, x)'
        BY <1>1 DEF RowsFollowUsers
      <3>1. Has(v, x)
        BY <2>1 DEF AccountsInv, RowsFollowUsers
      <3> QED BY <2>3, <3>1
    <2>8. Homes'
      <3> SUFFICES ASSUME ~raced',
                          NEW g \in Handlers, req'[g].pc \in {"append", "disable"},
                          NEW v \in Tenants, Has(v, req[g].who)', config[v] = NoRow
                   PROVE  req'[g].who \in late
        BY <1>1, <2>1 DEF AccountsInv, Homes, Home
      <3>1. req[g].pc = req'[g].pc /\ req[g].who = req'[g].who /\ req[g].who \in 0..lastId
        BY <2>1 DEF AccountsInv, Requests, Fits, Shaped
      <3>2. v # t /\ Has(v, req[g].who)
        BY <1>1, <2>2, <2>3, <3>1 DEF Has
      <3> QED BY <2>1, <3>1, <3>2 DEF AccountsInv, Homes, Home
    <2>9. Covered'
      <3> SUFFICES ASSUME ~raced', ~cut', NEW v \in Tenants, Exists(v)', config[v] = NoRow,
                          user'[v].id \notin missed'
                   PROVE  \E g \in Handlers : v \in Loads(req'[g])
        BY <1>1 DEF Covered, Loads
      <3>1. CASE v = t
        BY <1>3, <2>1, <2>2, <3>1
      <3>2. CASE v # t
        <4>1. Exists(v) /\ user[v].id \notin missed
          BY <1>3, <2>2, <2>3, <3>2
        <4>2. \E g \in Handlers : v \in Loads(req[g])
          BY <1>1, <2>1, <4>1 DEF AccountsInv, Covered, Bounds
        <4> QED BY <2>1, <4>2
      <3> QED BY <3>1, <3>2
    <2> QED BY <2>1, <2>4, <2>5, <2>6, <2>7, <2>8, <2>9 DEF AccountsInv
  <1>4. CASE /\ Exists(t) /\ r.op = "setup" /\ user' = [user EXCEPT ![t].admin = TRUE]
             /\ Committed(h, Loading(r, {t})) /\ UNCHANGED <<lastId, known, missed>>
    <2>1. /\ req' \in [Handlers -> Request] /\ Requests'
          /\ raced' \in BOOLEAN /\ (~raced' => ~raced /\ ~r.stale)
          /\ led' \in BOOLEAN
          /\ \A g \in Handlers : Loads(req[g]) \subseteq Loads(req'[g])
          /\ Loads(req'[h]) = {t}
          /\ \A g \in Handlers : req'[g].pc \in {"append", "disable"} =>
               req[g].pc = req'[g].pc /\ req[g].who = req'[g].who
      <3>1. {t} \in SUBSET {t} /\ lastId' \in Nat /\ lastId' >= lastId
        BY <1>1, <1>4
      <3> QED BY <1>2, <1>4, <3>1
    <2>2. /\ user[t] \in User /\ user'[t] = [user[t] EXCEPT !.admin = TRUE]
          /\ \A v \in Tenants : v # t => user'[v] = user[v]
          /\ user' = [v \in Tenants |-> user'[v]]
      BY <1>1, <1>4 DEF AccountsInv, TypeOK, Exists
    <2>3. /\ user'[t] \in User /\ user'[t] # NoUser /\ user'[t].id = user[t].id /\ user'[t].admin = TRUE
      BY <2>2 DEF User
    <2>4. /\ user' \in [Tenants -> User \cup {NoUser}]
          /\ \A v \in Tenants : (Exists(v)' <=> Exists(v)) /\ (Exists(v) => user'[v].id = user[v].id)
          /\ \A v \in Tenants : \A x : Has(v, x)' <=> Has(v, x)
      BY <1>1, <1>4, <2>2, <2>3 DEF AccountsInv, TypeOK, Exists, Has
    <2>5. TypeOK'
      BY <1>1, <1>4, <2>1, <2>4 DEF AccountsInv, TypeOK, Bounds
    <2>6. UniqueIds'
      BY <1>1, <1>4, <2>4 DEF AccountsInv, UniqueIds
    <2>7. AdminUnlessRaced'
      <3>1. t \in Admins'
        BY <1>1, <1>4, <2>3, <2>4 DEF Admins
      <3> QED BY <3>1 DEF AdminUnlessRaced
    <2>8. RowsFollowUsers'
      BY <1>1, <2>1, <2>4 DEF AccountsInv, RowsFollowUsers
    <2>9. Homes'
      <3> SUFFICES ASSUME ~raced',
                          NEW g \in Handlers, req'[g].pc \in {"append", "disable"},
                          NEW v \in Tenants, Has(v, req[g].who)', config[v] = NoRow
                   PROVE  req'[g].who \in late
        BY <1>1, <2>1 DEF AccountsInv, Homes, Home
      <3> QED BY <2>1, <2>4 DEF AccountsInv, Homes, Home
    <2>10. Covered'
      <3> SUFFICES ASSUME ~raced', ~cut', NEW v \in Tenants, Exists(v)', config[v] = NoRow,
                          user'[v].id \notin missed
                   PROVE  \E g \in Handlers : v \in Loads(req'[g])
        BY <1>1, <1>4 DEF Covered, Loads
      <3>1. Exists(v) /\ user[v].id \notin missed
        BY <2>4
      <3>2. \E g \in Handlers : v \in Loads(req[g])
        BY <1>1, <2>1, <3>1 DEF AccountsInv, Covered, Bounds
      <3> QED BY <2>1, <3>2
    <2> QED BY <2>1, <2>5, <2>6, <2>7, <2>8, <2>9, <2>10 DEF AccountsInv
  <1>5. CASE Refuse(h) /\ UNCHANGED <<user, lastId, known, raced, led, missed>>
    BY <1>1, <1>5, RefuseKeeps DEF Tables, History
  <1> QED BY <1>0, <1>3, <1>4, <1>5 DEF CommitNew

\* The user that was found still has the name of the request, unless that is out
\* of date.
LEMMA FoundIsNow ==
    ASSUME AccountsInv, NEW h \in Handlers, At(h, "commit"), req[h].op \in {"update", "delete"},
           NEW now \in NameOf(req[h].found)
    PROVE  /\ req[h].found \in User /\ now \in Tenants /\ Exists(now) /\ user[now].id = req[h].found.id
           /\ ~req[h].stale => now = req[h].t /\ user[now] = req[h].found
  <1>1. req[h].found \in User /\ req[h].t \in Tenants /\ AsRead(req[h])
    BY DEF AccountsInv, TypeOK, Requests, Fits, Shaped, Window, At
  <1>2. now \in Tenants /\ Exists(now) /\ user[now].id = req[h].found.id
    BY DEF NameOf
  <1>3. ~req[h].stale => user[req[h].t] = req[h].found
    BY <1>1 DEF AsRead, Window, At
  <1>4. ~req[h].stale => Exists(req[h].t) /\ user[req[h].t].id = user[now].id
    BY <1>1, <1>2, <1>3 DEF Exists, User
  <1> QED BY <1>1, <1>2, <1>3, <1>4 DEF AccountsInv, UniqueIds

\* Among the administrators there is one who is not taken away by an update or a
\* deletion that relies on nothing outdated.
LEMMA AdminLeft ==
    ASSUME AccountsInv, NEW h \in Handlers, At(h, "commit"), req[h].op \in {"update", "delete"},
           ~raced, led, user[req[h].t] = req[h].found, ~req[h].stale
    PROVE  \E v \in Admins : v = req[h].t => req[h].op = "update" /\ req[h].admin
  <1> DEFINE r == req[h]
  <1>1. Checked(r) /\ r.admin \in BOOLEAN /\ r.t \in Tenants
    BY DEF AccountsInv, TypeOK, Request, Requests, Fits, Shaped, At
  <1>2. CASE Removes(r)
    BY <1>1, <1>2 DEF Checked, At
  <1>3. CASE ~Removes(r)
    <2>1. PICK x \in Admins : TRUE
      BY DEF AccountsInv, AdminUnlessRaced
    <2>2. x = r.t => r.op = "update" /\ r.admin
      BY <1>1, <1>3, <2>1 DEF Removes, Admins
    <2> QED BY <2>1, <2>2
  <1> QED BY <1>2, <1>3

LEMMA CommitUpdateKeeps ==
    ASSUME AccountsInv, NEW h \in Handlers, CommitUpdate(h)
    PROVE  AccountsInv'
  <1> DEFINE r == req[h]
  <1>0. PICK t \in Tenants, to \in Tenants : t = r.t /\ to = r.to
    BY DEF CommitUpdate, At, AccountsInv, Requests, Fits, Shaped
  <1>1. /\ r \in Request /\ At(h, "commit") /\ r.op = "update" /\ Shaped(r)
        /\ r.admin \in BOOLEAN /\ UNCHANGED <<lastId, missed, late, Bounds>>
        /\ Loads(r) = {} /\ lastId \in Nat
    BY DEF CommitUpdate, At, AccountsInv, TypeOK, Requests, Fits, Request, Shaped, Loads
  <1> DEFINE n == [Idle EXCEPT !.pc = "reread", !.op = r.op, !.to = r.to, !.todo = {r.t, r.to}]
             Step(now) ==
                /\ to # now => ~Exists(to)
                /\ to # t /\ config[t] # NoRow => config[to] = NoRow
                /\ user' = [[user EXCEPT ![now] = NoUser] EXCEPT ![to] = [id |-> r.found.id, admin |-> r.admin]]
                /\ Renamed(t, to)
                /\ known' = known \cup {<<to, r.found.id>>}
                /\ Committed(h, n)
  <1>2. CASE \E now \in NameOf(r.found) : Step(now)
    <2>1. PICK now \in NameOf(r.found) : Step(now)
      BY <1>2
    <2>2. /\ r.found \in User /\ now \in Tenants /\ Exists(now) /\ user[now].id = r.found.id
          /\ ~r.stale => now = t /\ user[now] = r.found
      BY <1>0, <1>1, <2>1, FoundIsNow
    <2>3. r.found.id \in 1..lastId /\ r.found.id \in Nat
      BY <2>2 DEF AccountsInv, UniqueIds, User
    <2>4. n \in Request /\ n.pc = "reread" /\ Shaped(n) /\ Loads(n) = {to}
      <3>1. "reread" \in Pcs /\ {t, to} \in SUBSET Tenants
        BY DEF Pcs
      <3>2. Idle \in Request /\ Idle.who = 0 /\ ~Idle.stale
        BY <1>1, LoadingFits DEF Idle
      <3>3. /\ n \in Request /\ n.pc = "reread" /\ n.op = "update" /\ n.to = to /\ n.todo = {t, to}
            /\ n.who = 0 /\ ~n.stale
        BY <1>0, <1>1, <3>1, <3>2 DEF Request
      <3> HIDE DEF n
      <3> QED BY <1>1, <3>3 DEF Shaped, Loads, Window
    <2>5. /\ req' \in [Handlers -> Request] /\ Requests'
          /\ raced' \in BOOLEAN /\ (~raced' => ~raced /\ ~r.stale)
          /\ led' \in BOOLEAN /\ (led' => led \/ r.admin)
          /\ \A g \in Handlers : Loads(req[g]) \subseteq Loads(req'[g])
          /\ to \in Loads(req'[h])
          /\ \A g \in Handlers : req'[g].pc \in {"append", "disable"} =>
               req[g].pc = req'[g].pc /\ req[g].who = req'[g].who
      <3>1. Committed(h, n) /\ lastId' \in Nat /\ lastId' >= lastId
        BY <1>1, <2>1
      <3> HIDE DEF n
      <3> QED BY <1>1, <2>4, <3>1, CommittedFits
    <2> HIDE DEF n
    <2>6. /\ user'[to] = [id |-> r.found.id, admin |-> r.admin]
          /\ now # to => user'[now] = NoUser
          /\ \A v \in Tenants : v # to /\ v # now => user'[v] = user[v]
          /\ user' = [v \in Tenants |-> user'[v]]
      BY <2>1, <2>2 DEF AccountsInv, TypeOK
    <2>7. user'[to] \in User /\ user'[to] # NoUser /\ user'[to].id = r.found.id /\ user'[to].admin = r.admin
      BY <1>1, <2>3, <2>6 DEF User
    <2>8. \/ /\ config[t] = NoRow \/ t = to
             /\ config' = config /\ records' = records
          \/ /\ config[t] # NoRow /\ t # to /\ config[to] = NoRow
             /\ config'[to] = config[t] /\ config'[t] = NoRow
             /\ records'[to] = records[to] \cup records[t] /\ records'[t] = {}
             /\ \A v \in Tenants \ {t, to} : config'[v] = config[v] /\ records'[v] = records[v]
      BY <2>1 DEF Renamed, AccountsInv, TypeOK
    <2>9. TypeOK'
      <3>1. user' \in [Tenants -> User \cup {NoUser}]
        BY <2>2, <2>6, <2>7 DEF AccountsInv, TypeOK
      <3>2. config' \in [Tenants -> Nat \cup {NoRow}] /\ records' \in [Tenants -> SUBSET Nat]
        BY <2>1 DEF Renamed, AccountsInv, TypeOK
      <3>3. known' \subseteq Tenants \X Nat
        BY <2>1, <2>3 DEF AccountsInv, TypeOK
      <3> QED BY <1>1, <2>5, <3>1, <3>2, <3>3 DEF AccountsInv, TypeOK, Bounds
    <2>10. UniqueIds'
      <3>1. \A v \in Tenants : Exists(v)' =>
              \/ v = to /\ user'[v].id = user[now].id
              \/ v \notin {to, now} /\ Exists(v) /\ user'[v] = user[v]
        BY <2>2, <2>6, <2>7 DEF Exists
      <3>2. \A v \in Tenants \ {now} : Exists(v) => user[v].id # user[now].id
        BY <2>2 DEF AccountsInv, UniqueIds
      <3>3. \A v \in Tenants : config'[v] \in 0..lastId \cup {NoRow}
        BY <2>8 DEF AccountsInv, UniqueIds
      <3>4. \A s \in known' : s[2] \in 0..lastId
        BY <1>1, <2>1, <2>3 DEF AccountsInv, UniqueIds
      <3>5. \A v \in Tenants : Exists(v)' =>
              /\ user'[v].id \in 1..lastId
              /\ \A x \in Tenants \ {v} : Exists(x)' => user'[x].id # user'[v].id
        BY <2>2, <2>3, <3>1, <3>2 DEF AccountsInv, UniqueIds
      <3> QED BY <1>1, <3>3, <3>4, <3>5 DEF UniqueIds
    <2>11. ~raced' => now = t /\ user[t] = r.found /\ ~raced /\ ~r.stale
      BY <2>2, <2>5
    <2>12. AdminUnlessRaced'
      <3> SUFFICES ASSUME ~raced', led' PROVE Admins' # {}
        BY DEF AdminUnlessRaced
      <3>1. CASE r.admin
        <4>1. Exists(to)' /\ user'[to].admin
          BY <2>7, <3>1 DEF Exists
        <4>2. to \in Admins'
          BY <4>1 DEF Admins
        <4> QED BY <4>2
      <3>2. CASE ~r.admin
        <4>1. PICK v \in Admins : v # t
          BY <1>0, <1>1, <2>5, <2>11, <3>2, AdminLeft
        <4>2. v \in Tenants /\ Exists(v) /\ user[v].admin /\ v # to
          BY <2>1, <2>11, <4>1 DEF Admins
        <4>3. v \in Admins'
          BY <2>6, <2>11, <4>1, <4>2 DEF Admins, Exists
        <4> QED BY <4>3
      <3> QED BY <3>1, <3>2
    <2>13. ASSUME NEW v \in Tenants, NEW x
           PROVE  /\ v = to => (Has(v, x)' <=> x = r.found.id)
                  /\ v = now /\ v # to => ~Has(v, x)'
                  /\ v \notin {to, now} => (Has(v, x)' <=> Has(v, x))
      BY <2>2, <2>6, <2>7 DEF Has, Exists
    <2>14. RowsFollowUsers'
      <3> SUFFICES ASSUME ~raced', NEW v \in Tenants,
                          NEW x \in ({config'[v]} \cup records'[v]) \ ({NoRow, 0} \cup late)
                   PROVE  Has(v, x)'
        BY <1>1 DEF RowsFollowUsers
      <3>1. now = t /\ \A y \in Tenants : x \in {config[y]} \cup records[y] => Has(y, x)
        BY <2>11 DEF AccountsInv, RowsFollowUsers
      <3>2. Has(t, x) => x = r.found.id
        BY <2>11 DEF Has
      <3>3. config[t] = NoRow => x \notin {config[t]} \cup records[t]
        BY <2>11 DEF AccountsInv, Homes
      <3>4. to # t => ~Has(to, x)
        BY <2>1, <3>1 DEF Has
      <3>5. PICK y \in {v, t} : x \in {config[y]} \cup records[y] /\ (y = v => v # t \/ t = to) /\ (y # v => v = to)
        BY <2>8, <3>3
      <3> QED BY <2>13, <3>1, <3>2, <3>4, <3>5
    <2>15. Homes'
      <3>1. ASSUME ~raced', NEW v \in Tenants, config'[v] = NoRow
            PROVE  records'[v] \subseteq late
        <4>1. config[v] = NoRow => records[v] \subseteq late
          BY <2>11, <3>1 DEF AccountsInv, Homes
        <4> QED BY <2>8, <3>1, <4>1
      <3>2. ASSUME ~raced', NEW g \in Handlers, req'[g].pc \in {"append", "disable"},
                   NEW v \in Tenants, Has(v, req[g].who)', config'[v] = NoRow
            PROVE  req'[g].who \in late
        <4>1. /\ req[g].pc \in {"append", "disable"} /\ req[g].who = req'[g].who
              /\ \A y \in Tenants : Has(y, req[g].who) /\ config[y] = NoRow => req[g].who \in late
          BY <2>5, <2>11, <3>2 DEF AccountsInv, Homes, Home
        <4>2. \/ Has(v, req'[g].who) /\ v \notin {to, t}
              \/ v = to /\ req'[g].who = r.found.id
          <5>1. PICK w : w = req'[g].who
            OBVIOUS
          <5>2. Has(v, w)'
            BY <3>2, <5>1 DEF Has
          <5>3. /\ v = to => w = r.found.id
                /\ v # t \/ v = to
                /\ v \notin {to, t} => Has(v, w)
            BY <2>11, <2>13, <3>2, <5>2
          <5> QED BY <5>1, <5>3
        <4>3. CASE Has(v, req'[g].who) /\ v \notin {to, t}
          BY <2>8, <3>2, <4>1, <4>3
        <4>4. CASE v = to /\ req'[g].who = r.found.id
          <5>1. Has(t, req[g].who)
            BY <2>2, <2>11, <3>2, <4>1, <4>4 DEF Has
          <5>2. config[t] = NoRow
            BY <2>8, <3>2, <4>4
          <5> QED BY <4>1, <5>1, <5>2
        <4> QED BY <4>2, <4>3, <4>4
      <3> QED BY <1>1, <3>1, <3>2 DEF Homes, Home
    <2>16. Covered'
      <3> SUFFICES ASSUME ~raced', ~cut', NEW v \in Tenants, Exists(v)', config'[v] = NoRow,
                          user'[v].id \notin missed
                   PROVE  \E g \in Handlers : v \in Loads(req'[g])
        BY <1>1 DEF Covered, Loads
      <3>1. CASE v # to
        <4>1. v # t /\ Exists(v) /\ user[v].id \notin missed
          BY <2>6, <2>11, <3>1 DEF Exists
        <4>2. config[v] = NoRow
          BY <2>8, <3>1, <4>1
        <4>3. \E g \in Handlers : v \in Loads(req[g])
          BY <1>1, <2>11, <4>1, <4>2 DEF AccountsInv, Covered, Bounds
        <4> QED BY <2>5, <4>3
      <3> QED BY <2>5, <3>1
    <2> QED BY <2>5, <2>9, <2>10, <2>12, <2>14, <2>15, <2>16 DEF AccountsInv
  <1>3. CASE Refuse(h) /\ UNCHANGED <<user, config, records, known, raced, led>>
    BY <1>1, <1>3, RefuseKeeps DEF Tables, History
  <1> QED BY <1>0, <1>2, <1>3 DEF CommitUpdate

LEMMA CommitDeleteKeeps ==
    ASSUME AccountsInv, NEW h \in Handlers, CommitDelete(h)
    PROVE  AccountsInv'
  <1> DEFINE r == req[h]
  <1>0. PICK t \in Tenants : t = r.t
    BY DEF CommitDelete, At, AccountsInv, Requests, Fits, Shaped
  <1>1. /\ r \in Request /\ At(h, "commit") /\ r.op = "delete" /\ Shaped(r) /\ ~r.admin
        /\ UNCHANGED <<lastId, known, missed, late, Bounds>> /\ Loads(r) = {} /\ lastId \in Nat
    BY DEF CommitDelete, At, AccountsInv, TypeOK, Requests, Fits, Shaped, Loads
  <1> DEFINE n == Loading(r, {t})
             Step(now) ==
                /\ user' = [user EXCEPT ![now] = NoUser]
                /\ config' = [config EXCEPT ![t] = NoRow]
                /\ records' = [records EXCEPT ![t] = {}]
                /\ Committed(h, n)
  <1>2. CASE \E now \in NameOf(r.found) : Step(now)
    <2>1. PICK now \in NameOf(r.found) : Step(now)
      BY <1>2
    <2>2. /\ r.found \in User /\ now \in Tenants /\ Exists(now)
          /\ ~r.stale => now = t /\ user[now] = r.found
      BY <1>0, <1>1, <2>1, FoundIsNow
    <2>3. /\ req' \in [Handlers -> Request] /\ Requests'
          /\ raced' \in BOOLEAN /\ (~raced' => ~raced /\ ~r.stale)
          /\ led' \in BOOLEAN /\ (led' => led)
          /\ \A g \in Handlers : Loads(req[g]) \subseteq Loads(req'[g])
          /\ \A g \in Handlers : req'[g].pc \in {"append", "disable"} =>
               req[g].pc = req'[g].pc /\ req[g].who = req'[g].who
      <3>1. n \in Request /\ Shaped(n) /\ n.pc \in {"idle", "look", "reread"}
        BY <1>1, LoadingFits DEF Fits
      <3>2. Committed(h, n) /\ lastId' \in Nat /\ lastId' >= lastId
        BY <1>1, <2>1
      <3> HIDE DEF n
      <3> QED BY <1>1, <3>1, <3>2, CommittedFits
    <2> HIDE DEF n
    <2>4. /\ user' \in [Tenants -> User \cup {NoUser}] /\ user'[now] = NoUser
          /\ \A v \in Tenants \ {now} : user'[v] = user[v]
          /\ config' \in [Tenants -> Nat \cup {NoRow}] /\ config'[t] = NoRow
          /\ records' \in [Tenants -> SUBSET Nat] /\ records'[t] = {}
          /\ \A v \in Tenants \ {t} : config'[v] = config[v] /\ records'[v] = records[v]
      BY <2>1, <2>2 DEF AccountsInv, TypeOK
    <2>5. TypeOK'
      BY <1>1, <2>3, <2>4 DEF AccountsInv, TypeOK, Bounds
    <2>6. \A v \in Tenants : Exists(v)' <=> v # now /\ Exists(v)
      BY <2>4 DEF Exists
    <2>7. UniqueIds'
      <3>1. \A v \in Tenants : config'[v] \in 0..lastId \cup {NoRow}
        BY <2>4 DEF AccountsInv, UniqueIds
      <3> QED BY <1>1, <2>4, <2>6, <3>1 DEF AccountsInv, UniqueIds
    <2>8. ~raced' => now = t /\ user[t] = r.found /\ ~raced /\ ~r.stale
      BY <2>2, <2>3
    <2>9. AdminUnlessRaced'
      <3> SUFFICES ASSUME ~raced', led' PROVE Admins' # {}
        BY DEF AdminUnlessRaced
      <3>1. PICK v \in Admins : v # t
        BY <1>0, <1>1, <2>3, <2>8, AdminLeft
      <3>2. v \in Admins'
        BY <2>4, <2>6, <2>8, <3>1 DEF Admins
      <3> QED BY <3>2
    <2>10. \A v \in Tenants : \A x : v # now => (Has(v, x)' <=> Has(v, x))
      BY <2>4, <2>6 DEF Has
    <2>11. RowsFollowUsers'
      <3> SUFFICES ASSUME ~raced', NEW v \in Tenants,
                          NEW x \in ({config'[v]} \cup records'[v]) \ ({NoRow, 0} \cup late)
                   PROVE  Has(v, x)'
        BY <1>1 DEF RowsFollowUsers
      <3>1. v # t /\ x \in {config[v]} \cup records[v]
        BY <2>4
      <3>2. Has(v, x)
        BY <2>8, <3>1 DEF AccountsInv, RowsFollowUsers
      <3> QED BY <2>8, <2>10, <3>1, <3>2
    <2>12. Homes'
      <3>1. ASSUME ~raced', NEW v \in Tenants, config'[v] = NoRow
            PROVE  records'[v] \subseteq late
        BY <2>4, <2>8, <3>1 DEF AccountsInv, Homes
      <3>2. ASSUME ~raced', NEW g \in Handlers, req'[g].pc \in {"append", "disable"},
                   NEW v \in Tenants, Has(v, req[g].who)', config'[v] = NoRow
            PROVE  req'[g].who \in late
        <4>1. /\ req[g].pc \in {"append", "disable"} /\ req[g].who = req'[g].who
              /\ \A y \in Tenants : Has(y, req[g].who) /\ config[y] = NoRow => req[g].who \in late
          BY <2>3, <2>8, <3>2 DEF AccountsInv, Homes, Home
        <4>2. v # t
          BY <2>6, <2>8, <3>2 DEF Has
        <4>3. Has(v, req[g].who) /\ config[v] = NoRow
          BY <2>4, <2>8, <3>2, <4>1, <4>2 DEF Has, Exists
        <4> QED BY <4>1, <4>3
      <3> QED BY <1>1, <3>1, <3>2 DEF Homes, Home
    <2>13. Covered'
      <3> SUFFICES ASSUME ~raced', ~cut', NEW v \in Tenants, Exists(v)', config'[v] = NoRow,
                          user'[v].id \notin missed
                   PROVE  \E g \in Handlers : v \in Loads(req'[g])
        BY <1>1 DEF Covered, Loads
      <3>1. Exists(v) /\ config[v] = NoRow /\ user[v].id \notin missed
        BY <2>4, <2>6, <2>8
      <3>2. \E g \in Handlers : v \in Loads(req[g])
        BY <1>1, <2>8, <3>1 DEF AccountsInv, Covered, Bounds
      <3> QED BY <2>3, <3>2
    <2> QED BY <2>3, <2>5, <2>7, <2>9, <2>11, <2>12, <2>13 DEF AccountsInv
  <1>3. CASE Refuse(h) /\ UNCHANGED <<user, config, records, raced, led>>
    BY <1>1, <1>3, RefuseKeeps DEF Tables, History
  <1> QED BY <1>0, <1>2, <1>3 DEF CommitDelete

----------------------------------------------------------------------------
(* The end of the process, and the theorems.                                *)

LEMMA CrashKeeps ==
    ASSUME AccountsInv, Crash
    PROVE  AccountsInv'
  <1>1. /\ user' = user /\ config' = config /\ records' = records /\ lastId' = lastId /\ known' = known
        /\ raced' = raced /\ led' = led /\ missed' = missed /\ late' = late
        /\ lastId \in Nat /\ req' \in Starts /\ cut' \in BOOLEAN
        /\ ~cut' => ~cut /\ \A h \in Handlers : req[h].pc \notin {"reread", "look", "make"}
    BY DEF Crash, Tables, History, AccountsInv, TypeOK
  <1>2. requests' \in Nat /\ crashes' \in Nat
    BY DEF Crash, AccountsInv, TypeOK
  <1>3. /\ req' \in [Handlers -> Request]
        /\ \A h \in Handlers : Fits(req'[h]) /\ Home(req'[h])
    BY <1>1, StartsFit
  <1>4. Admins' = Admins /\ (\A t : Exists(t)' = Exists(t)) /\ \A t, u : Has(t, u)' = Has(t, u)
    BY <1>1 DEF Admins, Exists, Has
  <1>5. TypeOK'
    BY <1>1, <1>2, <1>3 DEF AccountsInv, TypeOK
  <1>6. UniqueIds' /\ AdminUnlessRaced' /\ RowsFollowUsers'
    BY <1>1, <1>4 DEF AccountsInv, UniqueIds, AdminUnlessRaced, RowsFollowUsers
  <1>7. Requests'
    BY <1>1, <1>3, <1>4 DEF Requests, Fits, Shaped, AsRead, Checked, Removes
  <1>8. Homes'
    <2>1. \A h \in Handlers : Home(req[h])'
      BY <1>1, <1>3, <1>4 DEF Home
    <2> QED BY <1>1, <2>1 DEF AccountsInv, Homes
  <1>9. Covered'
    <2>1. ~cut' => \A h \in Handlers : Loads(req[h]) = {}
      BY <1>1 DEF AccountsInv, Requests, Fits, Shaped, Loads
    <2> QED BY <1>1, <1>4, <2>1 DEF AccountsInv, Covered
  <1> QED BY <1>5, <1>6, <1>7, <1>8, <1>9 DEF AccountsInv

LEMMA NextAccountsInv == AccountsInv /\ [Next]_vars => AccountsInv'
  <1> SUFFICES ASSUME AccountsInv, [Next]_vars PROVE AccountsInv'
    OBVIOUS
  <1>1. ASSUME NEW h \in Handlers,
               \/ Setup(h) \/ Create(h) \/ SignIn(h) \/ Update(h) \/ Delete(h)
               \/ Visit(h) \/ Put(h) \/ RunEnds(h)
               \/ Read(h) \/ Check(h) \/ CommitNew(h) \/ CommitUpdate(h) \/ CommitDelete(h)
               \/ Reread(h) \/ Look(h) \/ Make(h) \/ SaveConfig(h) \/ Append(h)
        PROVE  AccountsInv'
    BY <1>1, ArrivalsKeep, ReadKeeps, CheckKeeps, CommitNewKeeps, CommitUpdateKeeps, CommitDeleteKeeps,
       RereadKeeps, LookKeeps, MakeKeeps, SaveConfigKeeps, AppendKeeps
  <1>2. CASE UNCHANGED vars
    BY <1>2 DEF vars, Tables, Bounds, History, AccountsInv, TypeOK, UniqueIds, Requests, Fits,
                AdminUnlessRaced, RowsFollowUsers, Homes, Home, Covered,
                Exists, Admins, Has, Shaped, AsRead, Checked, Removes, Loads
  <1> QED BY <1>1, <1>2, CrashKeeps DEF Next

\* What the requests that are at work have read and checked holds until somebody
\* commits, and with it what the commits keep true of the tables.
THEOREM AccountsInvariant == Spec => []AccountsInv
  BY InitAccountsInv, NextAccountsInv, PTL DEF Spec

\* The variables stay in their ranges, for any names, handlers and bounds.
THEOREM TypeCorrect == Spec => []TypeOK
  <1>1. AccountsInv => TypeOK
    BY DEF AccountsInv
  <1> QED BY <1>1, AccountsInvariant, PTL

\* An application that has had an administrator has one, as long as no commit
\* relied on an outdated check: adminCountExcept is enough for everything else,
\* sign-ins that make accounts included.
THEOREM AdminUnlessRacedHolds == Spec => []AdminUnlessRaced
  <1>1. AccountsInv => AdminUnlessRaced
    BY DEF AccountsInv
  <1> QED BY <1>1, AccountsInvariant, PTL

\* A configuration that a user saved and the records of his runs are under the name
\* that he has, likewise, unless something was written for him under another.
THEOREM RowsFollowUsersHolds == Spec => []RowsFollowUsers
  <1>1. AccountsInv => RowsFollowUsers
    BY DEF AccountsInv
  <1> QED BY <1>1, AccountsInvariant, PTL

\* Between requests every user has a configuration, but for those whom a sign-in
\* made or whose load failed, and unless a crash cut a request short: whoever else
\* makes a user, or moves one, loads its name.
THEOREM EveryUserIsLoadedHolds == Spec => []EveryUserIsLoaded
  <1>1. ASSUME AccountsInv, Quiet
        PROVE  \A h \in Handlers : Loads(req[h]) = {}
    BY <1>1 DEF AccountsInv, Requests, Fits, Shaped, Loads, Quiet, At
  <1>2. AccountsInv => EveryUserIsLoaded
    BY <1>1 DEF AccountsInv, EveryUserIsLoaded, Covered
  <1> QED BY <1>2, AccountsInvariant, PTL
==============================================================================
