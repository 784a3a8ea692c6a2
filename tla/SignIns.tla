------------------------------- MODULE SignIns -------------------------------
(* Accounts, e-mail addresses and identities of an OIDC provider: browsers  *)
(* that sign in with a password or through the provider, link an identity   *)
(* and change their profile, while an administrator changes accounts.       *)
(* Package config does each of these with several statements and, but for   *)
(* the indexes of the table, nothing holds them together.  Accounts has the *)
(* rows that follow a user, and the last administrator.                     *)
EXTENDS Naturals, FiniteSets

CONSTANTS
    Ids,          \* rows the table can have (bound)
    Browsers,     \* each with its cookies, and one request at a time
    Admin,        \* the page of an administrator
    First,        \* user name of the account that setup makes
    Names,        \* user names an administrator gives
    Emails,       \* e-mail addresses
    Profiles,     \* what the provider says of those who sign in; allowed: whether the
                  \* configuration lets the address in
    NoUser, None,
    Tries,        \* names tried for a new account: 100 in the code
    MaxRequests,  \* bound: requests
    MaxFlows      \* bound: visits to the provider

VARIABLES
    users,    \* table users
    session,  \* per browser, the tenant of its session cookie
    cookie,   \* per browser, its cookie of a visit to the provider
    flows,    \* visits to the provider that have not come back
    call,     \* per browser or Admin, the request at work
    requests, \* requests so far
    visits,   \* visits to the provider so far
    raced     \* history: a statement relied on a read that was out of date

vars == <<users, session, cookie, flows, call, requests, visits, raced>>

Callers == Browsers \cup {Admin}

Subjects == {p.subject : p \in Profiles}

\* A name is a base and the number appended to it; TenantKey leaves it as it is.
AllNames == (Names \cup {First} \cup Subjects \cup {p.name : p \in Profiles}) \X (0..(Tries - 1))

\* A row; local: its password hash is one.
User == [tenant : AllNames, name : AllNames, email : Emails \cup {None},
         identity : Subjects \cup {None}, local : BOOLEAN]

ASSUME SignInsAssumption ==
    /\ IsFiniteSet(Ids) /\ NoUser \notin Ids /\ NoUser \notin User
    /\ Admin \notin Browsers
    /\ None \notin Emails /\ None \notin Subjects /\ None \notin Profiles
    /\ \A p \in Profiles : p.email \in Emails \cup {None} /\ p.verified \in BOOLEAN
    /\ Tries \in Nat \ {0} /\ MaxRequests \in Nat /\ MaxFlows \in Nat

Ops == {"none", "signin", "join", "refresh", "register", "link", "profile", "create", "edit", "reset", "delete"}
Pcs == {"find", "candidates", "allocate", "check", "write", "read"}

\* id: the row found; tenant: its tenant, then; email: the one to be set, None
\* for no; asked: what the visit to the provider was for; stale: what was read
\* has changed since.
Idle == [op |-> "none", pc |-> "find", id |-> NoUser, tenant |-> None, name |-> None, email |-> None,
         profile |-> None, try |-> 0, asked |-> "none", stale |-> FALSE]

Call == [op : Ops, pc : Pcs, id : Ids \cup {NoUser}, tenant : AllNames \cup {None}, name : AllNames \cup {None},
         email : Emails \cup {None}, profile : Profiles \cup {None}, try : 0..Tries,
         asked : {"none", "login", "link"}, stale : BOOLEAN]

Init ==
    \E u \in Ids, e \in Emails \cup {None} :
        /\ users = [i \in Ids |-> IF i # u THEN NoUser ELSE
                [tenant |-> <<First, 0>>, name |-> <<First, 0>>, email |-> e, identity |-> None, local |-> TRUE]]
        /\ session = [b \in Browsers |-> None]
        /\ cookie = [b \in Browsers |-> None]
        /\ flows = {} /\ requests = 0 /\ visits = 0 /\ raced = FALSE
        /\ call = [c \in Callers |-> Idle]

Bounds == <<requests, visits>>
Cookies == <<session, cookie, flows>>

At(c, p) == call[c].op # "none" /\ call[c].pc = p
Continue(c, r) == call' = [call EXCEPT ![c] = r]
Answered(c) == Continue(c, Idle)

----------------------------------------------------------------------------
(* The table.                                                               *)

Live == {u \in Ids : users[u] # NoUser}

WithTenant(t)   == {u \in Live : users[u].tenant = t}
WithName(n)     == {u \in Live : users[u].name = n}
WithEmail(e)    == {u \in Live : users[u].email = e}
WithIdentity(s) == {u \in Live : users[u].identity = s}

Exist(found) == found # {}

\* Only, of a query by an index.
Only(found) == CHOOSE u \in found : TRUE

\* Mutant: no index on the identity.
IndexedByName(t) ==
    \A u, v \in Ids : u # v /\ t[u] # NoUser /\ t[v] # NoUser =>
        t[u].tenant # t[v].tenant /\ t[u].name # t[v].name

\* Unique indexes: user_tenant, username and user_oidc_issuer_oidc_subject.
Indexed(t) ==
    \A u, v \in Ids : u # v /\ t[u] # NoUser /\ t[v] # NoUser =>
        /\ t[u].tenant # t[v].tenant
        /\ t[u].name # t[v].name
        /\ t[u].identity # None => t[u].identity # t[v].identity

\* INSERT takes a free row, UPDATE and DELETE the row of an id.
Row(u) == IF u = NoUser THEN CHOOSE v \in Ids \ Live : TRUE ELSE u

\* A statement that gives row u the value row succeeds: Create().Save,
\* UpdateOneID().Save and DeleteOneID().Exec.
Insert(u)      == u = NoUser /\ Ids \ Live # {}
UpdateOneID(u) == u \in Live

Succeeds(u, row) == (Insert(u) \/ UpdateOneID(u)) /\ Indexed([users EXCEPT ![Row(u)] = row])

----------------------------------------------------------------------------
(* Requests.                                                                *)

Arrive(c, r) ==
    /\ call[c].op = "none"
    /\ requests < MaxRequests /\ requests' = requests + 1
    /\ Continue(c, r)

\* VerifyLocalUser, with the right password: a user that signs in with a provider
\* only has none.
Verified(u) == u \in Live /\ users[u].local

PasswordLogin(b) ==
    /\ \E u \in Ids :
        /\ Verified(u)
        /\ Arrive(b, Idle)
        /\ session' = [session EXCEPT ![b] = users[u].tenant]
    /\ UNCHANGED <<users, cookie, flows, visits, raced>>

\* Logout, or the day of the session is over.
Logout(b) ==
    /\ session[b] # None
    /\ session' = [session EXCEPT ![b] = None]
    /\ UNCHANGED <<users, cookie, flows, call, Bounds, raced>>

\* Session: the cookie of the browser is good.
SignedIn(b) == session[b] # None

\* StartOIDC: the browser is sent to the provider, to sign in or to link an
\* identity to the account of its session.
StartOIDC(b, mode) ==
    /\ mode = "link" => SignedIn(b)
    /\ visits < MaxFlows /\ visits' = visits + 1
    /\ cookie' = [cookie EXCEPT ![b] = [state |-> visits, mode |-> mode]]
    /\ flows' = flows \cup {[by |-> b, state |-> visits, mode |-> mode]}
    /\ UNCHANGED <<users, session, call, requests, raced>>

\* The ten minutes of the state are over.
Expire(b) ==
    /\ cookie[b] # None
    /\ cookie' = [cookie EXCEPT ![b] = None]
    /\ UNCHANGED <<users, session, flows, call, Bounds, raced>>

\* Mutant: the state is not compared.
AnyState(b, f) == cookie[b] # None

Expected(b, f) == cookie[b] # None /\ cookie[b].state = f.state

EmailAllowed(p) == p.allowed

\* OIDCCallback: the browser comes back from a visit, once, with a profile.
OIDCCallback(b, f, p) ==
    /\ f.by = b
    /\ flows' = flows \ {f}
    /\ IF Expected(b, f) /\ EmailAllowed(p) /\ (cookie[b].mode = "link" => SignedIn(b))
       THEN Arrive(b, [Idle EXCEPT !.op = IF cookie[b].mode = "link" THEN "link" ELSE "signin",
                                   !.tenant = session[b], !.profile = p, !.asked = f.mode])
       ELSE Arrive(b, Idle)
    /\ UNCHANGED <<users, session, cookie, visits, raced>>

\* PUT /api/profile.
PutProfile(b, e) ==
    /\ SignedIn(b)
    /\ Arrive(b, [Idle EXCEPT !.op = "profile", !.tenant = session[b], !.email = e])
    /\ UNCHANGED <<users, Cookies, visits, raced>>

\* POST, PUT and DELETE of /api/admin/users, and of a password.
Create(n, e) ==
    /\ Arrive(Admin, [Idle EXCEPT !.op = "create", !.name = n, !.email = e])
    /\ UNCHANGED <<users, Cookies, visits, raced>>

Edit(t, n, e) ==
    /\ Arrive(Admin, [Idle EXCEPT !.op = "edit", !.tenant = t, !.name = n, !.email = e])
    /\ UNCHANGED <<users, Cookies, visits, raced>>

Reset(t) ==
    /\ Arrive(Admin, [Idle EXCEPT !.op = "reset", !.tenant = t])
    /\ UNCHANGED <<users, Cookies, visits, raced>>

Delete(t) ==
    /\ Arrive(Admin, [Idle EXCEPT !.op = "delete", !.tenant = t])
    /\ UNCHANGED <<users, Cookies, visits, raced>>

----------------------------------------------------------------------------
(* The reads of a request.                                                  *)

\* Mutant: the provider need not have verified the address.
VouchedUnverified(p) == p.email # None

Vouched(p) == p.verified /\ p.email # None

\* The first read: by identity when signing in, else by tenant; LinkOIDCIdentity
\* refuses an identity that another account has.
Find(c) ==
    /\ At(c, "find")
    /\ LET r     == call[c]
           found == CASE r.op = "signin" -> WithIdentity(r.profile.subject)
                      [] r.op = "create" -> {}
                      [] OTHER           -> WithTenant(r.tenant)
           u     == Only(found)
           at    == [r EXCEPT !.id = u, !.tenant = users[u].tenant]
       IN  CASE r.op = "signin" /\ Exist(found) ->
                    Continue(c, [at EXCEPT !.op = "refresh", !.pc = "check"])
             [] r.op = "signin" /\ ~Exist(found) ->
                    Continue(c, [r EXCEPT !.pc = IF Vouched(r.profile) THEN "candidates" ELSE "allocate"])
             [] r.op = "create" -> Continue(c, [r EXCEPT !.pc = "check"])
             [] r.op = "link" ->
                    IF ~Exist(found) \/ Exist(WithIdentity(r.profile.subject) \ {u}) THEN Answered(c)
                    ELSE IF Vouched(r.profile)
                    THEN Continue(c, [at EXCEPT !.pc = "check", !.email = r.profile.email])
                    ELSE Continue(c, [at EXCEPT !.pc = "write"])
             [] OTHER ->
                    IF ~Exist(found) THEN Answered(c)
                    ELSE Continue(c, [at EXCEPT !.pc = IF r.op \in {"reset", "delete"} THEN "write" ELSE "check"])
    /\ UNCHANGED <<users, Cookies, Bounds, raced>>

\* linkOIDCByVerifiedEmail: the one account with the address, if it has no
\* identity yet.
Candidates(c) ==
    /\ At(c, "candidates")
    /\ LET found == WithEmail(call[c].profile.email)
           u     == Only(found)
       IN  IF Cardinality(found) = 1 /\ users[u].identity = None
           THEN Continue(c, [call[c] EXCEPT !.op = "join", !.pc = "write", !.id = u, !.tenant = users[u].tenant,
                                            !.email = call[c].profile.email])
           ELSE Continue(c, [call[c] EXCEPT !.pc = "allocate"])
    /\ UNCHANGED <<users, Cookies, Bounds, raced>>

\* Mutant: one more is tried than there are.
AllocateOneMore(c) ==
    /\ At(c, "allocate")
    /\ LET r == call[c]
           t == <<r.profile.subject, r.try>>
           n == <<r.profile.name, r.try>>
       IN  CASE r.try > Tries -> Answered(c)
             [] r.try <= Tries /\ (Exist(WithTenant(t)) \/ Exist(WithName(n))) ->
                    Continue(c, [r EXCEPT !.try = @ + 1])
             [] OTHER ->
                    Continue(c, [r EXCEPT !.op = "register", !.pc = "check", !.tenant = t, !.name = n])
    /\ UNCHANGED <<users, Cookies, Bounds, raced>>

\* uniqueOIDCUserIdentity, one candidate.
Allocate(c) ==
    /\ At(c, "allocate")
    /\ LET r == call[c]
           t == <<r.profile.subject, r.try>>
           n == <<r.profile.name, r.try>>
       IN  CASE r.try = Tries -> Answered(c)
             [] r.try < Tries /\ (Exist(WithTenant(t)) \/ Exist(WithName(n))) ->
                    Continue(c, [r EXCEPT !.try = @ + 1])
             [] OTHER ->
                    Continue(c, [r EXCEPT !.op = "register", !.pc = "check", !.tenant = t, !.name = n])
    /\ UNCHANGED <<users, Cookies, Bounds, raced>>

\* Mutant: an address in use is refused, but given by the provider it is set.
EmailIsUniqueUnlessSignedIn(c, e) ==
    call[c].op \in {"refresh", "register"} \/ ~Exist(WithEmail(e) \ {call[c].id})

\* emailIsUnique, the account at work being excepted by its tenant.
EmailIsUnique(c, e) ==
    e = None \/ ~Exist(WithEmail(e) \ (IF call[c].op \in {"register", "create"} THEN {} ELSE WithTenant(call[c].tenant)))

\* The checks before a write: the names (which the indexes check again) and the
\* address.  An address that is taken ends a request; a sign-in goes on without.
Check(c) ==
    /\ At(c, "check")
    /\ LET r == call[c] IN
       IF r.op \in {"refresh", "register"}
       THEN Continue(c, [r EXCEPT !.pc = "write",
                !.email = IF Vouched(r.profile) /\ EmailIsUnique(c, r.profile.email) THEN r.profile.email ELSE None])
       ELSE IF \/ r.op = "create" /\ (Exist(WithName(r.name)) \/ Exist(WithTenant(r.name)))
               \/ r.op = "edit" /\ Exist((WithName(r.name) \cup WithTenant(r.name)) \ {r.id})
               \/ ~EmailIsUnique(c, r.email)
            THEN Answered(c)
            ELSE Continue(c, [r EXCEPT !.pc = "write"])
    /\ UNCHANGED <<users, Cookies, Bounds, raced>>

----------------------------------------------------------------------------
(* The write, and the read after it.                                        *)

Subject(r) == r.profile.subject

\* The row that a UserCreate makes of what it was given.
NewUser(t, n, e, s, local) == [tenant |-> t, name |-> n, email |-> e, identity |-> s, local |-> local]

\* SetEmail, when there is one to set, and ClearEmail.
SetEmail(row, e)   == IF e = None THEN row ELSE [row EXCEPT !.email = e]
ClearEmail(row, e) == [row EXCEPT !.email = e]

\* What the statement of each request makes: of nothing ...
Registered(r) == NewUser(r.tenant, r.name, r.email, Subject(r), FALSE)
Created(r)    == NewUser(r.name, r.name, r.email, None, TRUE)

\* ... or of its row.
Refreshed(r, row)   == SetEmail(row, r.email)
Joined(r, row)      == [SetEmail(row, r.email) EXCEPT !.identity = Subject(r)]
Linked(r, row)      == [SetEmail(row, r.email) EXCEPT !.identity = Subject(r)]
Edited(r, row)      == [ClearEmail(row, r.email) EXCEPT !.tenant = r.name, !.name = r.name]
WithProfile(r, row) == ClearEmail(row, r.email)
WithPassword(row)   == [row EXCEPT !.local = TRUE]

Changed(r, row) ==
    CASE r.op = "refresh"  -> Refreshed(r, row)
      [] r.op = "join"     -> Joined(r, row)
      [] r.op = "link"     -> Linked(r, row)
      [] r.op = "profile"  -> WithProfile(r, row)
      [] r.op = "edit"     -> Edited(r, row)
      [] r.op = "reset"    -> WithPassword(row)

\* The row that the statement of a request writes; NoUser when it deletes it, or
\* it is no longer there.
Written(r) ==
    CASE r.op = "register" -> Registered(r)
      [] r.op = "create"   -> Created(r)
      [] r.op \notin {"register", "create"} /\ (r.id \notin Live \/ r.op = "delete") -> NoUser
      [] OTHER -> Changed(r, users[r.id])

\* Whether a change of row u from before to after makes what r has read outdated.
Disturbs(u, before, after, r) ==
    /\ r.op # "none" /\ r.pc # "find"
    /\ \/ r.id = u
       \/ \E row \in {before, after} \ {NoUser} :
            \/ row.tenant = r.tenant
            \/ row.email # None /\ row.email = r.email
            \/ r.profile # None /\ row.email # None /\ row.email = r.profile.email
            \/ r.profile # None /\ row.identity = r.profile.subject

\* The calls after the table has become t.
Aware(t) ==
    [c \in Callers |-> [call[c] EXCEPT !.stale =
        @ \/ \E u \in Ids : t[u] # users[u] /\ Disturbs(u, users[u], t[u], call[c])]]

\* Of a sign-in or a link, the row is read again for the session.
Write(c) ==
    /\ At(c, "write")
    /\ LET r == call[c]
           t == [users EXCEPT ![Row(r.id)] = Written(r)]
       IN  IF Succeeds(r.id, Written(r))
           THEN /\ users' = t
                /\ raced' = (raced \/ r.stale)
                /\ call' = [Aware(t) EXCEPT ![c] =
                     IF r.op \in {"join", "refresh", "register", "link"} THEN [r EXCEPT !.pc = "read"] ELSE Idle]
           ELSE Answered(c) /\ UNCHANGED <<users, raced>>
    /\ UNCHANGED <<Cookies, Bounds>>

\* The account that is signed in.
ToSignIn(r) ==
    IF r.op \in {"join", "link"} THEN WithTenant(r.tenant) ELSE WithIdentity(r.profile.subject)

\* setSession and clearOIDCCookie.
SignIn(b) ==
    /\ At(b, "read")
    /\ LET found == ToSignIn(call[b]) IN
       IF Exist(found)
       THEN /\ session' = [session EXCEPT ![b] = users[Only(found)].tenant]
            /\ cookie' = [cookie EXCEPT ![b] = None]
       ELSE UNCHANGED <<session, cookie>>
    /\ Answered(b)
    /\ UNCHANGED <<users, flows, Bounds, raced>>

Next ==
    \/ \E b \in Browsers :
        \/ PasswordLogin(b) \/ Logout(b) \/ Expire(b) \/ SignIn(b)
        \/ \E mode \in {"login", "link"} : StartOIDC(b, mode)
        \/ \E f \in flows, p \in Profiles : OIDCCallback(b, f, p)
        \/ \E e \in Emails \cup {None} : PutProfile(b, e)
    \/ \E n \in Names \X {0}, e \in Emails \cup {None} : Create(n, e)
    \/ \E u \in Live :
        \/ \E n \in Names \X {0}, e \in Emails \cup {None} : Edit(users[u].tenant, n, e)
        \/ Reset(users[u].tenant) \/ Delete(users[u].tenant)
    \/ \E c \in Callers : Find(c) \/ Candidates(c) \/ Allocate(c) \/ Check(c) \/ Write(c)

Spec == Init /\ [][Next]_vars

----------------------------------------------------------------------------
(* Properties.                                                              *)

\* Every variable has the values it can have, and every cookie and every visit is
\* of those there have been.
TypeOK ==
    /\ users \in [Ids -> User \cup {NoUser}]
    /\ session \in [Browsers -> AllNames \cup {None}]
    /\ cookie \in [Browsers -> [state : 0..(visits - 1), mode : {"login", "link"}] \cup {None}]
    /\ flows \subseteq [by : Browsers, state : 0..(visits - 1), mode : {"login", "link"}]
    /\ call \in [Callers -> Call]
    /\ requests \in 0..MaxRequests /\ visits \in 0..MaxFlows /\ raced \in BOOLEAN

\* No two accounts have one e-mail address, or verified addresses would sign
\* nobody in to their account any more: emailIsUnique looks before each of the
\* statements that set an address, and no index backs it, so that this holds
\* until one of them relied on what had changed since it looked.
EmailsUnique ==
    ~raced => \A u, v \in Live : u # v /\ users[u].email # None => users[u].email # users[v].email

\* The session that a sign-in gives browser b is that of the one account with the
\* identity.
SignedInToOwn(b) ==
    /\ call[b].pc = "read" /\ session'[b] \notin {session[b], None}
    /\ call[b].op \in {"join", "link"} => ~call[b].stale
    =>
        \A u \in Live : (users[u].identity = call[b].profile.subject) <=> (users[u].tenant = session'[b])

\* A person has one account, however many of their first sign-ins there are at
\* once, and a session that a sign-in begins is that of the account: for
\* UpsertOIDCUser and LinkOIDCIdentity.  Their last read is by the identity, or,
\* after linking, by a tenant read before: then the account must not have been
\* changed since.
SignsInToOwn == [][\A b \in Browsers : SignedInToOwn(b)]_vars

\* The identity that account u gets or loses comes by a request that may give it.
IdentityGiven(u) ==
    users'[u] # NoUser /\ users'[u].identity # users[u].identity /\ ~raced' =>
        \E b \in Browsers :
            LET r == call[b] IN
            /\ r.id = u /\ r.profile # None /\ users'[u].identity = r.profile.subject
            /\ \/ r.op = "link" /\ r.asked = "link" /\ r.tenant = users[u].tenant
               \/ /\ r.op = "join" /\ r.asked = "login" /\ users[u].identity = None
                  /\ r.profile.verified /\ WithEmail(r.profile.email) = {u}

\* An identity comes to an account that is there only by a visit to the provider
\* that was meant to link it, of a browser signed in to that account, or by the
\* account's own address, which the provider has verified and no other account
\* has; and no sign-in takes an identity off an account, or puts one in its
\* place.  linkOIDCByVerifiedEmail writes what it read a statement before.
IdentitiesStay == [][\A u \in Live : IdentityGiven(u)]_vars
=============================================================================
