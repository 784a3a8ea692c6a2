---------------------------- MODULE SignInsProofs ----------------------------
(* Proofs about SignIns, for any rows, browsers, names, addresses, profiles   *)
(* and bounds.                                                                *)
EXTENDS SignIns, FiniteSetTheorems, TLAPS

USE SignInsAssumption

----------------------------------------------------------------------------
(* The invariant.                                                           *)

\* The requests of a visit to the provider: what they were meant for is what the
\* cookie of the visit says.
Provided == {"signin", "join", "refresh", "register", "link"}

\* What request r of c is, by how far it has come.
Shaped(c, r) ==
    /\ r.op = "none" => r.pc = "find"
    /\ c = Admin => r.op \in {"none", "create", "edit", "reset", "delete"}
    /\ r.op \in {"none", "signin", "register", "create"} \/ r.pc = "find" => r.id = NoUser
    /\ r.op \in Provided =>
        r.profile \in Profiles /\ r.asked = IF r.op = "link" THEN "link" ELSE "login"
    /\ r.op \in {"signin", "reset", "delete"} \/ (r.op = "link" /\ r.pc = "find") => r.email = None
    /\ r.op = "signin" => r.pc \in {"find", "candidates", "allocate"}
    /\ r.pc \in {"candidates", "allocate"} => r.op = "signin"
    /\ r.op \in {"refresh", "register"} => r.pc \in {"check", "write", "read"}
    /\ r.op = "join" => r.pc \in {"write", "read"}
    /\ r.op = "join" \/ r.pc = "candidates" => Vouched(r.profile)
    /\ r.pc = "read" => r.op \in {"join", "refresh", "register", "link"}
    /\ r.op \in {"create", "edit", "register"} => r.name \in AllNames
    /\ r.op = "register" => r.tenant \in AllNames

\* The row that a request has found is as it was read, unless it is known to be
\* out of date.
AsRead(r) ==
    r.op \notin {"none", "signin", "register", "create"} /\ r.pc # "find" /\ ~r.stale =>
        /\ r.id \in Live /\ users[r.id].tenant = r.tenant
        /\ r.pc = "read" /\ r.op \in {"join", "link"} => users[r.id].identity = r.profile.subject
        /\ r.pc = "write" /\ r.op = "join" =>
            users[r.id].identity = None /\ WithEmail(r.profile.email) = {r.id}

\* An address about to be set is nobody else's, likewise.
Checked(r) ==
    r.op # "none" /\ r.pc = "write" /\ ~r.stale /\ r.email # None => WithEmail(r.email) \subseteq {r.id}

\* A cookie and the visit it is for agree on what the visit is meant for.
VisitsAgree ==
    \A b \in Browsers, f \in flows :
        cookie[b] # None /\ cookie[b].state = f.state => cookie[b].mode = f.mode

CallsInv == \A c \in Callers : Shaped(c, call[c]) /\ AsRead(call[c]) /\ Checked(call[c])

SignInsInv == TypeOK /\ Indexed(users) /\ VisitsAgree /\ CallsInv /\ EmailsUnique

----------------------------------------------------------------------------
(* What the proofs keep needing.                                            *)

LEMMA NamesAreNames ==
    /\ <<First, 0>> \in AllNames
    /\ \A n \in Names \X {0} : n \in AllNames
    /\ \A p \in Profiles : \A i \in 0..(Tries - 1) :
        <<p.subject, i>> \in AllNames /\ <<p.name, i>> \in AllNames
  BY DEF AllNames, Subjects

\* A request that answered, or has not begun, is in order.
LEMMA IdleFits ==
    ASSUME NEW c \in Callers
    PROVE  Idle \in Call /\ Shaped(c, Idle) /\ AsRead(Idle) /\ Checked(Idle)
  BY DEF Idle, Call, Ops, Pcs, Shaped, AsRead, Checked, Provided

\* A query by an index finds one row.
LEMMA OnlyFinds ==
    ASSUME NEW found, Exist(found)
    PROVE  Only(found) \in found
  BY DEF Exist, Only

LEMMA OneByTenant ==
    ASSUME Indexed(users), NEW u \in Live
    PROVE  WithTenant(users[u].tenant) = {u}
  BY DEF Indexed, WithTenant, Live

LEMMA OneByIdentity ==
    ASSUME Indexed(users), NEW u \in Live, users[u].identity # None
    PROVE  WithIdentity(users[u].identity) = {u}
  BY DEF Indexed, WithIdentity, Live

\* As long as the table does not change, the others' requests are what they were.
LEMMA CallsContinue ==
    ASSUME SignInsInv, UNCHANGED users, NEW c \in Callers, NEW r \in Call, Continue(c, r),
           Shaped(c, r), AsRead(r), Checked(r)
    PROVE  call' \in [Callers -> Call] /\ CallsInv'
  <1>1. call' \in [Callers -> Call]
    BY DEF SignInsInv, TypeOK, Continue
  <1>2. ASSUME NEW d \in Callers
        PROVE  (Shaped(d, call[d]) /\ AsRead(call[d]) /\ Checked(call[d]))'
    <2>1. Shaped(d, call'[d]) /\ AsRead(call'[d]) /\ Checked(call'[d])
      BY DEF SignInsInv, CallsInv, TypeOK, Continue
    <2>2. Live' = Live /\ \A e : WithEmail(e)' = WithEmail(e)
      BY DEF Live, WithEmail
    <2>3. (AsRead(call[d]) /\ Checked(call[d]))'
      BY <2>1, <2>2 DEF AsRead, Checked
    <2> QED BY <2>1, <2>3 DEF Shaped
  <1> QED BY <1>1, <1>2 DEF CallsInv

LEMMA CallsAnswered ==
    ASSUME SignInsInv, UNCHANGED users, NEW c \in Callers, Answered(c)
    PROVE  call' \in [Callers -> Call] /\ CallsInv'
  BY IdleFits, CallsContinue DEF Answered

\* Nothing but calls changes.
LEMMA OnlyCallsChange ==
    ASSUME SignInsInv, call' \in [Callers -> Call], CallsInv', UNCHANGED <<users, Cookies, visits, raced>>,
           requests' \in 0..MaxRequests
    PROVE  SignInsInv'
  BY DEF SignInsInv, TypeOK, Indexed, VisitsAgree, EmailsUnique, Live, Cookies

----------------------------------------------------------------------------
(* The requests and their reads.                                            *)

LEMMA InitSignInsInv == Init => SignInsInv
  <1> SUFFICES ASSUME Init PROVE SignInsInv
    OBVIOUS
  <1>1. TypeOK
    <2>1. users \in [Ids -> User \cup {NoUser}]
      BY NamesAreNames DEF Init, User
    <2>2. call \in [Callers -> Call]
      <3>1. Admin \in Callers
        BY DEF Callers
      <3> QED BY <3>1, IdleFits DEF Init
    <2>3. /\ session \in [Browsers -> AllNames \cup {None}]
          /\ cookie \in [Browsers -> {None}]
          /\ flows = {} /\ requests = 0 /\ visits = 0 /\ raced = FALSE
      BY DEF Init
    <2>4. 0 \in 0..MaxRequests /\ 0 \in 0..MaxFlows /\ FALSE \in BOOLEAN
      OBVIOUS
    <2> QED BY <2>1, <2>2, <2>3, <2>4 DEF TypeOK
  <1>2. Indexed(users) /\ EmailsUnique
    BY DEF Init, Indexed, EmailsUnique, Live
  <1>3. CallsInv
    BY IdleFits DEF Init, CallsInv
  <1> QED BY <1>1, <1>2, <1>3 DEF Init, SignInsInv, VisitsAgree

\* A request arrives: r, of which nothing has been read.
LEMMA Arrives ==
    ASSUME SignInsInv, UNCHANGED users, NEW c \in Callers, NEW r \in Call, Arrive(c, r),
           r.pc = "find", Shaped(c, r)
    PROVE  /\ call' \in [Callers -> Call] /\ CallsInv'
           /\ requests' \in 0..MaxRequests
  <1>1. AsRead(r) /\ Checked(r)
    BY DEF AsRead, Checked
  <1>2. requests' \in 0..MaxRequests
    BY DEF SignInsInv, TypeOK, Arrive
  <1> QED BY <1>1, <1>2, CallsContinue DEF Arrive

LEMMA PasswordLoginKeeps ==
    ASSUME SignInsInv, NEW b \in Browsers, PasswordLogin(b)
    PROVE  SignInsInv'
  <1> b \in Callers
    BY DEF Callers
  <1>1. PICK u \in Ids : Verified(u) /\ Arrive(b, Idle) /\ session' = [session EXCEPT ![b] = users[u].tenant]
    BY DEF PasswordLogin
  <1>2. users[u].tenant \in AllNames
    BY <1>1 DEF Verified, Live, SignInsInv, TypeOK, User
  <1>3. /\ call' \in [Callers -> Call] /\ CallsInv'
        /\ requests' \in 0..MaxRequests
    BY <1>1, IdleFits, Arrives DEF PasswordLogin, Idle
  <1> QED BY <1>1, <1>2, <1>3
          DEF PasswordLogin, SignInsInv, TypeOK, Indexed, VisitsAgree, EmailsUnique, Live

LEMMA OIDCCallbackKeeps ==
    ASSUME SignInsInv, NEW b \in Browsers, NEW f \in flows, NEW p \in Profiles, OIDCCallback(b, f, p)
    PROVE  SignInsInv'
  <1> b \in Callers
    BY DEF Callers
  <1> DEFINE op == IF cookie[b].mode = "link" THEN "link" ELSE "signin"
             r  == [Idle EXCEPT !.op = op, !.tenant = session[b], !.profile = p, !.asked = f.mode]
  <1>1. CASE Expected(b, f) /\ Arrive(b, r)
    <2>1. f.mode = cookie[b].mode /\ f.mode \in {"login", "link"}
      BY <1>1 DEF Expected, SignInsInv, VisitsAgree, TypeOK
    <2>2. r \in Call /\ r.pc = "find"
      <3>1. op \in Ops /\ session[b] \in AllNames \cup {None}
        BY DEF SignInsInv, TypeOK, Ops
      <3> HIDE DEF op
      <3> QED BY <2>1, <3>1, IdleFits DEF Call, Idle
    <2>3. Shaped(b, r)
      BY <2>1 DEF Shaped, Idle, Provided
    <2>4. /\ call' \in [Callers -> Call] /\ CallsInv'
          /\ requests' \in 0..MaxRequests
      BY <1>1, <2>2, <2>3, Arrives DEF OIDCCallback
    <2> QED BY <2>4 DEF OIDCCallback, SignInsInv, TypeOK, Indexed, VisitsAgree, EmailsUnique, Live
  <1>2. CASE Arrive(b, Idle)
    <2>1. /\ call' \in [Callers -> Call] /\ CallsInv'
          /\ requests' \in 0..MaxRequests
      BY <1>2, IdleFits, Arrives DEF OIDCCallback, Idle
    <2> QED BY <2>1 DEF OIDCCallback, SignInsInv, TypeOK, Indexed, VisitsAgree, EmailsUnique, Live
  <1> QED BY <1>1, <1>2 DEF OIDCCallback

LEMMA PutProfileKeeps ==
    ASSUME SignInsInv, NEW b \in Browsers, NEW e \in Emails \cup {None}, PutProfile(b, e)
    PROVE  SignInsInv'
  <1> b \in Callers
    BY DEF Callers
  <1> DEFINE r == [Idle EXCEPT !.op = "profile", !.tenant = session[b], !.email = e]
  <1>1. r \in Call /\ r.pc = "find" /\ Shaped(b, r)
    <2>1. session[b] \in AllNames \cup {None} /\ "profile" \in Ops
      BY DEF SignInsInv, TypeOK, Ops
    <2>2. r \in Call
      BY <2>1, IdleFits DEF Call, Idle
    <2>3. r.op = "profile" /\ r.pc = "find" /\ r.id = NoUser /\ b # Admin
      BY DEF Idle
    <2> QED BY <2>2, <2>3 DEF Shaped, Provided
  <1> QED BY <1>1, Arrives, OnlyCallsChange DEF PutProfile

\* The requests of an administrator.
LEMMA AdminKeeps ==
    ASSUME SignInsInv, NEW r \in Call, Arrive(Admin, r),
           r.op \in {"create", "edit", "reset", "delete"}, r.pc = "find", r.id = NoUser,
           r.op \in {"reset", "delete"} => r.email = None,
           r.op \in {"create", "edit"} => r.name \in AllNames,
           UNCHANGED <<users, Cookies, visits, raced>>
    PROVE  SignInsInv'
  <1> Admin \in Callers
    BY DEF Callers
  <1>1. Shaped(Admin, r)
    BY DEF Shaped, Provided
  <1> QED BY <1>1, Arrives, OnlyCallsChange

LEMMA CreateKeeps ==
    ASSUME SignInsInv, NEW n \in Names \X {0}, NEW e \in Emails \cup {None}, Create(n, e)
    PROVE  SignInsInv'
  <1> USE DEF Idle
  <1> DEFINE r == [Idle EXCEPT !.op = "create", !.name = n, !.email = e]
  <1>1. n \in AllNames /\ "create" \in Ops /\ Idle \in Call
    BY NamesAreNames, IdleFits DEF Ops, Callers
  <1>2. r \in Call
    BY <1>1 DEF Call
  <1>3. r.op = "create" /\ r.pc = "find" /\ r.id = NoUser /\ r.name \in AllNames
    BY <1>1
  <1> QED BY <1>2, <1>3, AdminKeeps DEF Create

LEMMA EditKeeps ==
    ASSUME SignInsInv, NEW u \in Live, NEW n \in Names \X {0}, NEW e \in Emails \cup {None},
           Edit(users[u].tenant, n, e)
    PROVE  SignInsInv'
  <1> USE DEF Idle
  <1> DEFINE r == [Idle EXCEPT !.op = "edit", !.tenant = users[u].tenant, !.name = n, !.email = e]
  <1>1. users[u].tenant \in AllNames /\ n \in AllNames
    BY NamesAreNames DEF Live, SignInsInv, TypeOK, User
  <1>2. "edit" \in Ops /\ Idle \in Call
    BY IdleFits DEF Ops, Callers
  <1>3. r \in Call
    BY <1>1, <1>2 DEF Call
  <1>4. r.op = "edit" /\ r.pc = "find" /\ r.id = NoUser /\ r.name \in AllNames
    BY <1>1
  <1> QED BY <1>3, <1>4, AdminKeeps DEF Edit

LEMMA ResetDeleteKeep ==
    ASSUME SignInsInv, NEW u \in Live, Reset(users[u].tenant) \/ Delete(users[u].tenant)
    PROVE  SignInsInv'
  <1> USE DEF Idle
  <1>1. users[u].tenant \in AllNames
    BY DEF Live, SignInsInv, TypeOK, User
  <1>2. {"reset", "delete"} \subseteq Ops /\ Idle \in Call
    BY IdleFits DEF Ops, Callers
  <1>3. CASE Reset(users[u].tenant)
    <2> DEFINE r == [Idle EXCEPT !.op = "reset", !.tenant = users[u].tenant]
    <2>1. r \in Call
      BY <1>1, <1>2 DEF Call
    <2>2. r.op = "reset" /\ r.pc = "find" /\ r.id = NoUser /\ r.email = None
      OBVIOUS
    <2> QED BY <1>3, <2>1, <2>2, AdminKeeps DEF Reset
  <1>4. CASE Delete(users[u].tenant)
    <2> DEFINE r == [Idle EXCEPT !.op = "delete", !.tenant = users[u].tenant]
    <2>1. r \in Call
      BY <1>1, <1>2 DEF Call
    <2>2. r.op = "delete" /\ r.pc = "find" /\ r.id = NoUser /\ r.email = None
      OBVIOUS
    <2> QED BY <1>4, <2>1, <2>2, AdminKeeps DEF Delete
  <1> QED BY <1>3, <1>4

\* Cookies come and go.
LEMMA CookiesKeep ==
    ASSUME SignInsInv, NEW b \in Browsers,
           \/ Logout(b) \/ Expire(b)
           \/ \E mode \in {"login", "link"} : StartOIDC(b, mode)
    PROVE  SignInsInv'
  <1> USE DEF SignInsInv, Indexed, EmailsUnique, CallsInv, Live, Shaped, AsRead, Checked, WithEmail
  <1>1. CASE Logout(b)
    BY <1>1 DEF Logout, TypeOK, VisitsAgree, Bounds
  <1>2. CASE Expire(b)
    BY <1>2 DEF Expire, TypeOK, VisitsAgree, Bounds
  <1>3. ASSUME NEW mode \in {"login", "link"}, StartOIDC(b, mode)
        PROVE  SignInsInv'
    <2>1. visits \in Nat /\ visits' \in 0..MaxFlows /\ visits \in 0..(visits' - 1)
      BY <1>3 DEF StartOIDC, TypeOK
    <2>2. \A i : i \in 0..(visits - 1) => i \in 0..(visits' - 1) /\ i # visits
      BY <1>3, <2>1 DEF StartOIDC
    <2>3. TypeOK'
      BY <1>3, <2>1, <2>2 DEF StartOIDC, TypeOK
    <2>4. VisitsAgree'
      BY <1>3, <2>1, <2>2 DEF StartOIDC, TypeOK, VisitsAgree
    <2> QED BY <1>3, <2>3, <2>4 DEF StartOIDC
  <1> QED BY <1>1, <1>2, <1>3

LEMMA SignInKeeps ==
    ASSUME SignInsInv, NEW b \in Browsers, SignIn(b)
    PROVE  SignInsInv'
  <1> b \in Callers
    BY DEF Callers
  <1>1. Answered(b) /\ UNCHANGED <<users, flows, Bounds, raced>>
    BY DEF SignIn
  <1>2. call' \in [Callers -> Call] /\ CallsInv'
    BY <1>1, CallsAnswered
  <1>3. session' \in [Browsers -> AllNames \cup {None}]
    <2>1. \A u \in ToSignIn(call[b]) : users[u].tenant \in AllNames
      BY DEF ToSignIn, WithTenant, WithIdentity, Live, SignInsInv, TypeOK, User
    <2> QED BY <2>1, OnlyFinds DEF SignIn, SignInsInv, TypeOK
  <1>4. UNCHANGED cookie \/ cookie' = [cookie EXCEPT ![b] = None]
    BY DEF SignIn
  <1>5. TypeOK'
    BY <1>1, <1>2, <1>3, <1>4 DEF SignInsInv, TypeOK, Bounds
  <1>6. VisitsAgree'
    BY <1>1, <1>4 DEF SignInsInv, TypeOK, VisitsAgree
  <1> QED BY <1>1, <1>2, <1>5, <1>6 DEF SignInsInv, Indexed, EmailsUnique, Live

\* A read changes nothing but the request.
LEMMA ReadKeeps ==
    ASSUME SignInsInv, UNCHANGED <<users, Cookies, Bounds, raced>>, NEW c \in Callers, NEW r \in Call,
           Continue(c, r), Shaped(c, r), AsRead(r), Checked(r)
    PROVE  SignInsInv'
  <1>1. requests' \in 0..MaxRequests
    BY DEF Bounds, SignInsInv, TypeOK
  <1> QED BY <1>1, CallsContinue, OnlyCallsChange DEF Bounds

LEMMA AnswerKeeps ==
    ASSUME SignInsInv, UNCHANGED <<users, Cookies, Bounds, raced>>, NEW c \in Callers, Answered(c)
    PROVE  SignInsInv'
  BY IdleFits, ReadKeeps DEF Answered

\* A row that is found gets its tenant into the request.
LEMMA FoundIn ==
    ASSUME SignInsInv, NEW found \in SUBSET Live, Exist(found)
    PROVE  /\ Only(found) \in Live /\ Only(found) \in Ids /\ Only(found) # NoUser
           /\ users[Only(found)].tenant \in AllNames
  <1>1. Only(found) \in Live
    BY OnlyFinds
  <1> QED BY <1>1 DEF Live, SignInsInv, TypeOK, User

LEMMA FindKeeps ==
    ASSUME SignInsInv, NEW c \in Callers, Find(c)
    PROVE  SignInsInv'
  <1> DEFINE r     == call[c]
             found == CASE r.op = "signin" -> WithIdentity(r.profile.subject)
                        [] r.op = "create" -> {}
                        [] OTHER           -> WithTenant(r.tenant)
             u     == Only(found)
             at    == [r EXCEPT !.id = u, !.tenant = users[u].tenant]
  <1>1. /\ r \in Call /\ r.op # "none" /\ r.pc = "find" /\ Shaped(c, r)
        /\ UNCHANGED <<users, Cookies, Bounds, raced>>
    BY DEF Find, At, SignInsInv, TypeOK, CallsInv
  <1>2. {"find", "check", "write", "candidates", "allocate"} \subseteq Pcs /\ "refresh" \in Ops
    BY DEF Pcs, Ops
  <1>3. found \subseteq Live
    BY DEF WithIdentity, WithTenant
  <1>4. Exist(found) => u \in Live /\ u \in Ids /\ u # NoUser /\ users[u].tenant \in AllNames
    BY <1>3, FoundIn
  <1>5. CASE r.op = "signin" /\ Exist(found)
    <2> DEFINE n == [at EXCEPT !.op = "refresh", !.pc = "check"]
    <2>1. Continue(c, n)
      BY <1>5 DEF Find
    <2>2. n \in Call
      BY <1>1, <1>2, <1>4, <1>5 DEF Call
    <2>3. n.op = "refresh" /\ n.pc = "check" /\ n.id = u /\ n.tenant = users[u].tenant
          /\ n.profile = r.profile /\ n.asked = r.asked /\ n.email = r.email
      BY <1>1 DEF Call
    <2>4. Shaped(c, n)
      BY <1>1, <1>5, <2>3 DEF Shaped, Provided
    <2>5. AsRead(n) /\ Checked(n)
      BY <1>4, <1>5, <2>3 DEF AsRead, Checked
    <2> QED BY <1>1, <2>1, <2>2, <2>4, <2>5, ReadKeeps
  <1>6. CASE r.op = "signin" /\ ~Exist(found)
    <2> DEFINE n == [r EXCEPT !.pc = IF Vouched(r.profile) THEN "candidates" ELSE "allocate"]
    <2>1. Continue(c, n)
      BY <1>6 DEF Find
    <2>2. n \in Call /\ n.op = "signin" /\ n.pc \in {"candidates", "allocate"}
      BY <1>1, <1>2, <1>6 DEF Call
    <2>3. Shaped(c, n)
      BY <1>1, <1>6 DEF Shaped, Provided, Call
    <2>4. AsRead(n) /\ Checked(n)
      BY <2>2 DEF AsRead, Checked
    <2> QED BY <1>1, <2>1, <2>2, <2>3, <2>4, ReadKeeps
  <1>7. CASE r.op = "create"
    <2> DEFINE n == [r EXCEPT !.pc = "check"]
    <2>1. Continue(c, n)
      BY <1>7 DEF Find
    <2>2. n \in Call /\ n.op = "create" /\ n.pc = "check"
      BY <1>1, <1>2, <1>7 DEF Call
    <2>3. Shaped(c, n)
      BY <1>1, <1>7 DEF Shaped, Provided, Call
    <2>4. AsRead(n) /\ Checked(n)
      BY <2>2 DEF AsRead, Checked
    <2> QED BY <1>1, <2>1, <2>2, <2>3, <2>4, ReadKeeps
  <1>8. CASE r.op = "link"
    <2> DEFINE vouched == [at EXCEPT !.pc = "check", !.email = r.profile.email]
               bare    == [at EXCEPT !.pc = "write"]
    <2>1. Answered(c) \/ (Exist(found) /\ (Continue(c, vouched) \/ Continue(c, bare)))
      BY <1>8 DEF Find
    <2>2. r.profile \in Profiles /\ r.profile.email \in Emails \cup {None} /\ r.email = None
      BY <1>1, <1>8 DEF Shaped, Provided
    <2>3. ASSUME Exist(found), NEW n \in Call, n.op = "link", n.id = u, n.tenant = users[u].tenant,
                 n.profile = r.profile, n.asked = r.asked,
                 n.pc = "check" \/ (n.pc = "write" /\ n.email = None)
          PROVE  Shaped(c, n) /\ AsRead(n) /\ Checked(n)
      <3>1. Shaped(c, n)
        BY <1>1, <1>8, <2>3 DEF Shaped, Provided
      <3> QED BY <1>4, <2>3, <3>1 DEF AsRead, Checked
    <2>4. Exist(found) /\ Continue(c, vouched) => SignInsInv'
      <3> SUFFICES ASSUME Exist(found), Continue(c, vouched) PROVE SignInsInv'
        OBVIOUS
      <3>1. vouched \in Call
        BY <1>1, <1>2, <1>4, <2>2 DEF Call
      <3>2. /\ vouched.op = "link" /\ vouched.pc = "check" /\ vouched.id = u
            /\ vouched.tenant = users[u].tenant /\ vouched.profile = r.profile /\ vouched.asked = r.asked
        BY <1>1, <1>8 DEF Call
      <3> QED BY <1>1, <2>3, <3>1, <3>2, ReadKeeps
    <2>5. Exist(found) /\ Continue(c, bare) => SignInsInv'
      <3> SUFFICES ASSUME Exist(found), Continue(c, bare) PROVE SignInsInv'
        OBVIOUS
      <3>1. bare \in Call
        BY <1>1, <1>2, <1>4 DEF Call
      <3>2. /\ bare.op = "link" /\ bare.pc = "write" /\ bare.id = u /\ bare.email = None
            /\ bare.tenant = users[u].tenant /\ bare.profile = r.profile /\ bare.asked = r.asked
        BY <1>1, <1>8, <2>2 DEF Call
      <3> QED BY <1>1, <2>3, <3>1, <3>2, ReadKeeps
    <2> QED BY <1>1, <2>1, <2>4, <2>5, AnswerKeeps
  <1>9. CASE r.op \notin {"signin", "create", "link"}
    <2> DEFINE n == [at EXCEPT !.pc = IF r.op \in {"reset", "delete"} THEN "write" ELSE "check"]
    <2>1. Answered(c) \/ (Exist(found) /\ Continue(c, n))
      BY <1>9 DEF Find
    <2>2. r.op \in {"profile", "edit", "reset", "delete"}
      BY <1>1, <1>9 DEF Shaped, Call, Ops
    <2>3. ASSUME Exist(found)
          PROVE  n \in Call /\ Shaped(c, n) /\ AsRead(n) /\ Checked(n)
      <3>1. n \in Call
        BY <1>1, <1>2, <1>4, <2>3 DEF Call
      <3>2. /\ n.op = r.op /\ n.id = u /\ n.tenant = users[u].tenant
            /\ n.pc = (IF r.op \in {"reset", "delete"} THEN "write" ELSE "check")
            /\ n.name = r.name /\ n.email = r.email
        BY <1>1 DEF Call
      <3>3. Shaped(c, n)
        BY <1>1, <2>2, <3>2 DEF Shaped, Provided
      <3> QED BY <1>1, <1>4, <2>2, <2>3, <3>1, <3>2, <3>3 DEF AsRead, Checked, Shaped
    <2> QED BY <1>1, <2>1, <2>3, ReadKeeps, AnswerKeeps
  <1> QED BY <1>5, <1>6, <1>7, <1>8, <1>9

LEMMA CandidatesKeeps ==
    ASSUME SignInsInv, NEW c \in Callers, Candidates(c)
    PROVE  SignInsInv'
  <1> DEFINE r     == call[c]
             found == WithEmail(r.profile.email)
             u     == Only(found)
             join  == [r EXCEPT !.op = "join", !.pc = "write", !.id = u, !.tenant = users[u].tenant,
                                !.email = r.profile.email]
             fresh == [r EXCEPT !.pc = "allocate"]
  <1>1. /\ r \in Call /\ r.op = "signin" /\ r.pc = "candidates" /\ Shaped(c, r)
        /\ UNCHANGED <<users, Cookies, Bounds, raced>>
    BY DEF Candidates, At, SignInsInv, TypeOK, CallsInv, Shaped
  <1>2. r.profile \in Profiles /\ r.profile.email \in Emails /\ r.profile.email # None /\ Vouched(r.profile)
    BY <1>1 DEF Shaped, Provided, Vouched
  <1>3. {"write", "allocate"} \subseteq Pcs /\ "join" \in Ops
    BY DEF Pcs, Ops
  <1>4. CASE Cardinality(found) = 1 /\ users[u].identity = None /\ Continue(c, join)
    <2>1. found = {u} /\ found \subseteq Live
      <3>1. found \in SUBSET Live /\ IsFiniteSet(found)
        BY FS_Subset DEF WithEmail, Live
      <3>2. PICK v : found = {v}
        BY <1>4, <3>1, FS_Singleton
      <3>3. u = v
        BY <3>2, OnlyFinds DEF Exist
      <3> QED BY <3>1, <3>2, <3>3
    <2>2. u \in Live /\ u \in Ids /\ u # NoUser /\ users[u].tenant \in AllNames
      BY <2>1, FoundIn DEF Exist
    <2>3. join \in Call
      BY <1>1, <1>2, <1>3, <2>2 DEF Call
    <2>4. /\ join.op = "join" /\ join.pc = "write" /\ join.id = u /\ join.tenant = users[u].tenant
          /\ join.profile = r.profile /\ join.asked = r.asked /\ join.email = r.profile.email
      BY <1>1 DEF Call
    <2>5. Shaped(c, join)
      BY <1>1, <1>2, <2>4 DEF Shaped, Provided
    <2>6. AsRead(join) /\ Checked(join)
      BY <1>2, <1>4, <2>1, <2>2, <2>4 DEF AsRead, Checked
    <2> QED BY <1>1, <1>4, <2>3, <2>5, <2>6, ReadKeeps
  <1>5. CASE Continue(c, fresh)
    <2>1. fresh \in Call /\ fresh.op = "signin" /\ fresh.pc = "allocate"
      BY <1>1, <1>3 DEF Call
    <2>2. Shaped(c, fresh)
      BY <1>1 DEF Shaped, Provided, Call
    <2>3. AsRead(fresh) /\ Checked(fresh)
      BY <2>1 DEF AsRead, Checked
    <2> QED BY <1>1, <1>5, <2>1, <2>2, <2>3, ReadKeeps
  <1> QED BY <1>4, <1>5 DEF Candidates

LEMMA AllocateKeeps ==
    ASSUME SignInsInv, NEW c \in Callers, Allocate(c)
    PROVE  SignInsInv'
  <1> DEFINE r     == call[c]
             t     == <<r.profile.subject, r.try>>
             n     == <<r.profile.name, r.try>>
             again == [r EXCEPT !.try = @ + 1]
             made  == [r EXCEPT !.op = "register", !.pc = "check", !.tenant = t, !.name = n]
  <1>1. /\ r \in Call /\ r.op = "signin" /\ r.pc = "allocate" /\ Shaped(c, r)
        /\ UNCHANGED <<users, Cookies, Bounds, raced>>
    BY DEF Allocate, At, SignInsInv, TypeOK, CallsInv, Shaped
  <1>2. r.profile \in Profiles /\ r.try \in 0..Tries
    BY <1>1 DEF Shaped, Provided, Call
  <1>3. \/ Answered(c)
        \/ r.try # Tries /\ Continue(c, again)
        \/ r.try # Tries /\ Continue(c, made)
    BY <1>2 DEF Allocate
  <1>4. CASE r.try # Tries /\ Continue(c, again)
    <2>1. r.try + 1 \in 0..Tries
      BY <1>2, <1>4
    <2>2. again \in Call /\ again.op = "signin" /\ again.pc = "allocate"
      BY <1>1, <2>1 DEF Call
    <2>3. Shaped(c, again)
      BY <1>1 DEF Shaped, Provided, Call
    <2>4. AsRead(again) /\ Checked(again)
      BY <2>2 DEF AsRead, Checked
    <2> QED BY <1>1, <1>4, <2>2, <2>3, <2>4, ReadKeeps
  <1>5. CASE r.try # Tries /\ Continue(c, made)
    <2>1. t \in AllNames /\ n \in AllNames
      <3>1. r.try \in 0..(Tries - 1)
        BY <1>2, <1>5
      <3> QED BY <1>2, <3>1, NamesAreNames
    <2>2. "register" \in Ops /\ "check" \in Pcs
      BY DEF Ops, Pcs
    <2>3. made \in Call
      BY <1>1, <2>1, <2>2 DEF Call
    <2>4. /\ made.op = "register" /\ made.pc = "check" /\ made.id = r.id /\ made.tenant = t /\ made.name = n
          /\ made.profile = r.profile /\ made.asked = r.asked
      BY <1>1 DEF Call
    <2>5. Shaped(c, made)
      BY <1>1, <2>1, <2>4 DEF Shaped, Provided
    <2>6. AsRead(made) /\ Checked(made)
      BY <2>4 DEF AsRead, Checked
    <2> QED BY <1>1, <1>5, <2>3, <2>5, <2>6, ReadKeeps
  <1> QED BY <1>1, <1>3, <1>4, <1>5, AnswerKeeps

\* emailIsUnique is right about an address, unless the row is out of date.
LEMMA UniqueIsUnique ==
    ASSUME SignInsInv, NEW c \in Callers, call[c].pc = "check", ~call[c].stale, NEW e, e # None,
           call[c].op \notin {"none", "signin"}, EmailIsUnique(c, e)
    PROVE  WithEmail(e) \subseteq {call[c].id}
  <1>1. CASE call[c].op \in {"register", "create"}
    BY <1>1 DEF EmailIsUnique, Exist
  <1>2. CASE call[c].op \notin {"register", "create"}
    <2>1. call[c].id \in Live /\ users[call[c].id].tenant = call[c].tenant
      BY <1>2 DEF SignInsInv, CallsInv, AsRead
    <2>2. WithTenant(call[c].tenant) = {call[c].id}
      BY <2>1, OneByTenant DEF SignInsInv
    <2> QED BY <1>2, <2>2 DEF EmailIsUnique, Exist
  <1> QED BY <1>1, <1>2

LEMMA CheckKeeps ==
    ASSUME SignInsInv, NEW c \in Callers, Check(c)
    PROVE  SignInsInv'
  <1> DEFINE r    == call[c]
             mail == IF Vouched(r.profile) /\ EmailIsUnique(c, r.profile.email) THEN r.profile.email ELSE None
             signing == [r EXCEPT !.pc = "write", !.email = mail]
             other   == [r EXCEPT !.pc = "write"]
  <1>1. /\ r \in Call /\ r.op \notin {"none", "signin"} /\ r.pc = "check"
        /\ Shaped(c, r) /\ AsRead(r)
        /\ UNCHANGED <<users, Cookies, Bounds, raced>>
    BY DEF Check, At, SignInsInv, TypeOK, CallsInv, Shaped
  <1>2. "write" \in Pcs
    BY DEF Pcs
  <1>3. CASE r.op \in {"refresh", "register"}
    <2>1. Continue(c, signing)
      BY <1>3 DEF Check
    <2>2. r.profile \in Profiles /\ mail \in Emails \cup {None}
      BY <1>1, <1>3 DEF Shaped, Provided
    <2>3. ~r.stale /\ mail # None => WithEmail(mail) \subseteq {r.id}
      BY <1>1, UniqueIsUnique
    <2> HIDE DEF mail
    <2>4. signing \in Call
      BY <1>1, <1>2, <2>2 DEF Call
    <2>5. /\ signing.op = r.op /\ signing.pc = "write" /\ signing.email = mail /\ signing.id = r.id
          /\ signing.profile = r.profile /\ signing.asked = r.asked /\ signing.stale = r.stale
          /\ signing.name = r.name /\ signing.tenant = r.tenant
      BY <1>1 DEF Call
    <2>6. Shaped(c, signing)
      BY <1>1, <1>3, <2>5 DEF Shaped, Provided
    <2>7. AsRead(signing) /\ Checked(signing)
      BY <1>1, <1>3, <2>3, <2>5 DEF AsRead, Checked
    <2> QED BY <1>1, <2>1, <2>4, <2>6, <2>7, ReadKeeps
  <1>4. CASE r.op \notin {"refresh", "register"}
    <2>1. Answered(c) \/ (EmailIsUnique(c, r.email) /\ Continue(c, other))
      BY <1>4 DEF Check
    <2>2. EmailIsUnique(c, r.email) /\ ~r.stale /\ r.email # None => WithEmail(r.email) \subseteq {r.id}
      BY <1>1, UniqueIsUnique
    <2>3. other \in Call
      BY <1>1, <1>2 DEF Call
    <2>4. /\ other.op = r.op /\ other.pc = "write" /\ other.email = r.email /\ other.id = r.id
          /\ other.profile = r.profile /\ other.asked = r.asked /\ other.stale = r.stale
          /\ other.name = r.name /\ other.tenant = r.tenant
      BY <1>1 DEF Call
    <2>5. Shaped(c, other)
      BY <1>1, <1>4, <2>4 DEF Shaped, Provided
    <2>6. r.op # "join"
      BY <1>1 DEF Shaped
    <2>7. EmailIsUnique(c, r.email) => AsRead(other) /\ Checked(other)
      BY <1>1, <2>2, <2>4, <2>6 DEF AsRead, Checked
    <2> QED BY <1>1, <2>1, <2>3, <2>5, <2>7, ReadKeeps, AnswerKeeps
  <1> QED BY <1>3, <1>4

----------------------------------------------------------------------------
(* The write.                                                               *)

\* What a statement makes of a row.
LEMMA ChangedRow ==
    ASSUME SignInsInv, NEW c \in Callers, NEW r \in Call, Shaped(c, r), r.pc = "write",
           r.op \notin {"none", "register", "create", "delete"}, NEW row \in User
    PROVE  /\ Changed(r, row) \in User
           /\ r.op # "edit" => Changed(r, row).tenant = row.tenant
           /\ Changed(r, row).email \in {r.email, row.email}
           /\ Changed(r, row).identity = IF r.op \in {"join", "link"} THEN r.profile.subject ELSE row.identity
  <1> DEFINE n == Changed(r, row)
  <1>1. r.op \in {"refresh", "join", "link", "profile", "edit", "reset"}
    BY DEF Shaped, Call, Ops
  <1>2. r.op \in {"join", "link"} => r.profile.subject \in Subjects
    BY DEF Shaped, Provided, Subjects
  <1>3. r.email \in Emails \cup {None} /\ (r.op = "edit" => r.name \in AllNames)
    BY DEF Shaped, Call
  <1>4. CASE r.op = "refresh"
    BY <1>3, <1>4 DEF Changed, Refreshed, SetEmail, User
  <1>5. CASE r.op = "join"
    BY <1>2, <1>3, <1>5 DEF Changed, Joined, SetEmail, Subject, User
  <1>6. CASE r.op = "link"
    BY <1>2, <1>3, <1>6 DEF Changed, Linked, SetEmail, Subject, User
  <1>7. CASE r.op = "profile"
    BY <1>3, <1>7 DEF Changed, WithProfile, ClearEmail, User
  <1>8. CASE r.op = "edit"
    BY <1>3, <1>8 DEF Changed, Edited, ClearEmail, User
  <1>9. CASE r.op = "reset"
    BY <1>3, <1>9 DEF Changed, WithPassword, User
  <1> QED BY <1>1, <1>4, <1>5, <1>6, <1>7, <1>8, <1>9

\* What a statement of an insertion makes.
LEMMA NewRow ==
    ASSUME SignInsInv, NEW c \in Callers, NEW r \in Call, Shaped(c, r),
           r.op \in {"register", "create"}
    PROVE  r.id = NoUser /\ Written(r) \in User /\ Written(r).email = r.email
  <1>1. r.email \in Emails \cup {None} /\ r.name \in AllNames /\ r.id = NoUser
    BY DEF Shaped, Call
  <1>2. CASE r.op = "register"
    <2>1. r.profile.subject \in Subjects /\ r.tenant \in AllNames
      BY <1>2 DEF Shaped, Provided, Subjects
    <2> QED BY <1>1, <1>2, <2>1 DEF Written, Registered, NewUser, Subject, User
  <1>3. CASE r.op = "create"
    BY <1>1, <1>3 DEF Written, Created, NewUser, User
  <1> QED BY <1>2, <1>3

\* What a successful write does to the table, in one place.
LEMMA WriteFacts ==
    ASSUME SignInsInv, NEW c \in Callers, At(c, "write"), Succeeds(call[c].id, Written(call[c]))
    PROVE  LET r == call[c]
               w == Row(r.id)
           IN  /\ w \in Ids
               /\ Written(r) \in User \cup {NoUser}
               /\ r.id \in Live => w = r.id
               /\ r.id \notin Live => w \notin Live /\ r.id = NoUser
               /\ r.id \in Live /\ Written(r) # NoUser => Written(r) = Changed(r, users[w]) /\ r.op # "delete"
               /\ r.id \notin Live /\ Written(r) # NoUser => r.op \in {"register", "create"}
  <1> DEFINE r == call[c]
             w == Row(r.id)
  <1>1. r \in Call /\ r.pc = "write" /\ r.op # "none" /\ Shaped(c, r)
    BY DEF At, SignInsInv, TypeOK, CallsInv
  <1>2. \A u \in Live : u \in Ids /\ u # NoUser /\ users[u] \in User /\ users[u] # NoUser
    BY DEF Live, SignInsInv, TypeOK
  <1>3. CASE r.id \in Live
    <2>1. w = r.id /\ r.op \notin {"register", "create"}
      BY <1>1, <1>2, <1>3 DEF Row, Shaped
    <2>2. Written(r) = IF r.op = "delete" THEN NoUser ELSE Changed(r, users[w])
      BY <1>3, <2>1 DEF Written
    <2>3. r.op # "delete" => Written(r) \in User
      BY <1>1, <1>2, <1>3, <2>1, <2>2, ChangedRow
    <2> QED BY <1>2, <1>3, <2>1, <2>2, <2>3
  <1>4. CASE r.id \notin Live
    <2>1. r.id = NoUser /\ Ids \ Live # {}
      BY <1>4 DEF Succeeds, Insert, UpdateOneID
    <2>2. w \in Ids \ Live
      BY <2>1 DEF Row
    <2>3. CASE r.op \in {"register", "create"}
      BY <1>1, <1>4, <2>1, <2>2, <2>3, NewRow
    <2>4. CASE r.op \notin {"register", "create"}
      <3>1. Written(r) = NoUser
        BY <1>4, <2>4 DEF Written
      <3> QED BY <1>4, <2>1, <2>2, <3>1
    <2> QED BY <2>3, <2>4
  <1> QED BY <1>3, <1>4

\* The address that a write gives a row is the one asked for, or the row's own.
LEMMA WrittenEmail ==
    ASSUME SignInsInv, NEW c \in Callers, At(c, "write"), Succeeds(call[c].id, Written(call[c])),
           Written(call[c]) # NoUser
    PROVE  \/ Written(call[c]).email = call[c].email
           \/ call[c].id \in Live /\ Written(call[c]).email = users[call[c].id].email
  <1> DEFINE r == call[c]
  <1>1. r \in Call /\ r.pc = "write" /\ r.op # "none" /\ Shaped(c, r)
    BY DEF At, SignInsInv, TypeOK, CallsInv
  <1>2. CASE r.id \in Live
    <2>1. users[r.id] \in User
      BY <1>2 DEF Live, SignInsInv, TypeOK
    <2>2. r.op \notin {"register", "create"}
      BY <1>1, <1>2 DEF Shaped, Live
    <2>3. Written(r) = Changed(r, users[r.id]) /\ r.op # "delete"
      BY <1>2, WriteFacts
    <2> QED BY <1>1, <1>2, <2>1, <2>2, <2>3, ChangedRow
  <1>3. CASE r.id \notin Live
    <2>1. r.op \in {"register", "create"}
      BY <1>3, WriteFacts
    <2> QED BY <1>1, <2>1, NewRow
  <1> QED BY <1>2, <1>3

\* A request that another's write of row w does not make outdated is not touched
\* by it.
LEMMA Undisturbed ==
    ASSUME SignInsInv, NEW w \in Ids, NEW row \in User \cup {NoUser},
           users' = [users EXCEPT ![w] = row],
           NEW d \in Callers, NEW stale \in BOOLEAN,
           call'[d] = [call[d] EXCEPT !.stale = stale],
           ~stale => ~call[d].stale /\ (row # users[w] => ~Disturbs(w, users[w], row, call[d]))
    PROVE  (Shaped(d, call[d]) /\ AsRead(call[d]) /\ Checked(call[d]))'
  <1> DEFINE r == call[d]
             n == call'[d]
  <1>1. r \in Call /\ Shaped(d, r) /\ AsRead(r) /\ Checked(r)
    BY DEF SignInsInv, TypeOK, CallsInv
  <1>2. /\ n.op = r.op /\ n.pc = r.pc /\ n.id = r.id /\ n.tenant = r.tenant /\ n.name = r.name
        /\ n.email = r.email /\ n.profile = r.profile /\ n.asked = r.asked /\ n.stale = stale
    BY <1>1 DEF Call
  <1>3. Shaped(d, call[d])'
    BY <1>1, <1>2 DEF Shaped
  <1> SUFFICES ASSUME ~stale, r.op # "none", r.pc # "find"
               PROVE  (AsRead(call[d]) /\ Checked(call[d]))'
    BY <1>2, <1>3 DEF AsRead, Checked
  <1>4. CASE row = users[w]
    <2>1. users' = users
      BY <1>4 DEF SignInsInv, TypeOK
    <2>2. Live' = Live /\ \A e : WithEmail(e)' = WithEmail(e)
      BY <2>1 DEF Live, WithEmail
    <2> QED BY <1>1, <1>2, <2>1, <2>2 DEF AsRead, Checked
  <1>5. CASE row # users[w]
    <2>1. w # r.id
      BY <1>5 DEF Disturbs
    <2>2. \A u \in Ids : u # w => users'[u] = users[u]
      BY DEF SignInsInv, TypeOK
    <2>3. r.id \in Live => r.id \in Live' /\ users'[r.id] = users[r.id]
      BY <2>1, <2>2 DEF Live
    <2>4. ASSUME NEW e, e # None, e = r.email \/ (r.profile # None /\ e = r.profile.email)
          PROVE  WithEmail(e)' \subseteq WithEmail(e) /\ (WithEmail(e) = {r.id} => WithEmail(e)' = {r.id})
      <3>1. users'[w] # NoUser => users'[w].email # e
        BY <1>5, <2>4 DEF Disturbs, SignInsInv, TypeOK
      <3>2. WithEmail(e)' \subseteq WithEmail(e)
        BY <2>2, <3>1 DEF WithEmail, Live
      <3>3. WithEmail(e) = {r.id} => r.id \in WithEmail(e)'
        BY <2>3 DEF WithEmail
      <3> QED BY <3>2, <3>3
    <2>5. AsRead(call[d])'
      <3>1. r.op = "join" => r.profile # None /\ r.profile.email # None
        BY <1>1 DEF Shaped, Provided, Vouched
      <3> QED BY <1>1, <1>2, <2>3, <2>4, <3>1 DEF AsRead
    <2>6. Checked(call[d])'
      BY <1>1, <1>2, <2>4 DEF Checked
    <2> QED BY <2>5, <2>6
  <1> QED BY <1>4, <1>5

LEMMA WriteCallsInv ==
    ASSUME SignInsInv, NEW c \in Callers, Write(c), Succeeds(call[c].id, Written(call[c]))
    PROVE  call' \in [Callers -> Call] /\ CallsInv'
  <1> DEFINE r    == call[c]
             w    == Row(r.id)
             row  == Written(r)
             t    == [users EXCEPT ![w] = row]
             mine == IF r.op \in {"join", "refresh", "register", "link"} THEN [r EXCEPT !.pc = "read"] ELSE Idle
  <1>1. /\ r \in Call /\ r.pc = "write" /\ r.op # "none" /\ Shaped(c, r) /\ AsRead(r)
        /\ At(c, "write") /\ users' = t
        /\ call' = [Aware(t) EXCEPT ![c] = mine]
    BY DEF Write, At, SignInsInv, TypeOK, CallsInv
  <1>2. w \in Ids /\ row \in User \cup {NoUser} /\ t[w] = row /\ \A u \in Ids : u # w => t[u] = users[u]
    BY <1>1, WriteFacts DEF SignInsInv, TypeOK
  <1> DEFINE Outdated(d) == call[d].stale \/ \E u \in Ids : t[u] # users[u] /\ Disturbs(u, users[u], t[u], call[d])
  <1>3. ASSUME NEW d \in Callers, d # c
        PROVE  call'[d] = [call[d] EXCEPT !.stale = Outdated(d)] /\ call'[d] \in Call
    <2>1. call'[d] = [call[d] EXCEPT !.stale = Outdated(d)]
      BY <1>1, <1>3 DEF Aware
    <2>2. Outdated(d) \in BOOLEAN /\ call[d] \in Call
      BY DEF SignInsInv, TypeOK, Call
    <2> HIDE DEF Outdated
    <2> QED BY <2>1, <2>2 DEF Call
  <1>4. call'[c] = mine /\ mine \in Call
    <2>1. "read" \in Pcs
      BY DEF Pcs
    <2> QED BY <1>1, <2>1, IdleFits DEF Call, Aware
  <1>5. call' \in [Callers -> Call]
    BY <1>1, <1>3, <1>4 DEF Aware
  <1>6. ASSUME NEW d \in Callers, d # c
        PROVE  (Shaped(d, call[d]) /\ AsRead(call[d]) /\ Checked(call[d]))'
    <2> DEFINE stale == Outdated(d)
    <2>1. stale \in BOOLEAN
      BY DEF SignInsInv, TypeOK, Call
    <2>2. call'[d] = [call[d] EXCEPT !.stale = stale]
      BY <1>3, <1>6
    <2>3. ~stale => ~call[d].stale /\ (row # users[w] => ~Disturbs(w, users[w], row, call[d]))
      BY <1>2
    <2> HIDE DEF stale, row, w
    <2> QED BY <1>1, <1>2, <2>1, <2>2, <2>3, Undisturbed
  <1>7. (Shaped(c, call[c]) /\ AsRead(call[c]) /\ Checked(call[c]))'
    <2>1. CASE mine = Idle
      BY <1>4, <2>1 DEF Idle, Shaped, AsRead, Checked, Provided
    <2>2. CASE r.op \in {"join", "refresh", "register", "link"}
      <3>1. /\ mine.op = r.op /\ mine.pc = "read" /\ mine.id = r.id /\ mine.tenant = r.tenant
            /\ mine.name = r.name /\ mine.email = r.email /\ mine.profile = r.profile
            /\ mine.asked = r.asked /\ mine.stale = r.stale
        BY <1>1, <2>2 DEF Call
      <3>2. Shaped(c, call[c])'
        BY <1>1, <1>4, <2>2, <3>1 DEF Shaped
      <3>3. ~r.stale /\ r.op # "register" =>
                /\ r.id \in Live' /\ users'[r.id].tenant = r.tenant
                /\ r.op \in {"join", "link"} => users'[r.id].identity = r.profile.subject
        <4> SUFFICES ASSUME ~r.stale, r.op # "register"
                     PROVE  /\ r.id \in Live' /\ users'[r.id].tenant = r.tenant
                            /\ r.op \in {"join", "link"} => users'[r.id].identity = r.profile.subject
          OBVIOUS
        <4>1. r.id \in Live /\ users[r.id].tenant = r.tenant
          BY <1>1, <2>2 DEF AsRead
        <4>2. w = r.id /\ row \in User /\ row # NoUser /\ row.tenant = r.tenant
              /\ (r.op \in {"join", "link"} => row.identity = r.profile.subject)
          <5>1. users[r.id] \in User
            BY <4>1 DEF Live, SignInsInv, TypeOK
          <5>2. row = Changed(r, users[r.id])
            BY <2>2, <4>1 DEF Written
          <5> QED BY <1>1, <2>2, <4>1, <5>1, <5>2, ChangedRow, WriteFacts
        <4> QED BY <1>1, <1>2, <4>1, <4>2 DEF Live
      <3>4. AsRead(call[c])'
        BY <1>4, <2>2, <3>1, <3>3 DEF AsRead
      <3> QED BY <1>4, <3>1, <3>2, <3>4 DEF Checked
    <2> QED BY <2>1, <2>2
  <1>8. CallsInv'
    BY <1>6, <1>7 DEF CallsInv
  <1> QED BY <1>5, <1>8

LEMMA WriteEmailsUnique ==
    ASSUME SignInsInv, NEW c \in Callers, Write(c), Succeeds(call[c].id, Written(call[c]))
    PROVE  EmailsUnique'
  <1> DEFINE r    == call[c]
             w    == Row(r.id)
             row  == Written(r)
  <1>1. /\ At(c, "write") /\ r.pc = "write" /\ r.op # "none" /\ Checked(r)
        /\ users' = [users EXCEPT ![w] = row] /\ raced' = (raced \/ r.stale)
    BY DEF Write, At, SignInsInv, CallsInv
  <1> SUFFICES ASSUME ~raced', NEW u \in Live', NEW v \in Live', u # v, users'[u].email # None
               PROVE  users'[u].email # users'[v].email
    BY DEF EmailsUnique
  <1>2. ~raced /\ ~r.stale
    BY <1>1 DEF SignInsInv, TypeOK
  <1>3. \A x, y \in Live : x # y /\ users[x].email # None => users[x].email # users[y].email
    BY <1>2 DEF SignInsInv, EmailsUnique
  <1>4. /\ w \in Ids /\ users'[w] = row
        /\ \A x \in Ids : x # w => users'[x] = users[x] /\ (x \in Live' => x \in Live)
    BY <1>1, WriteFacts DEF SignInsInv, TypeOK, Live
  <1>5. ASSUME NEW x \in Live', x # w, w \in Live', row.email # None
        PROVE  users'[x].email # row.email
    <2>1. row # NoUser /\ x \in Ids /\ x \in Live
      BY <1>4, <1>5 DEF Live
    <2>2. r.id \in Live => w = r.id
      BY <1>1, WriteFacts
    <2>3. CASE row.email = r.email
      <3>1. x \in WithEmail(r.email) => x = r.id
        BY <1>1, <1>2, <1>5, <2>3 DEF Checked
      <3>2. x # r.id
        BY <1>5, <2>1, <2>2
      <3> QED BY <1>4, <1>5, <2>1, <2>3, <3>1, <3>2 DEF WithEmail
    <2>4. CASE r.id \in Live /\ row.email = users[r.id].email
      BY <1>3, <1>4, <1>5, <2>1, <2>2, <2>4
    <2> QED BY <1>1, <2>1, <2>3, <2>4, WrittenEmail
  <1>6. CASE u = w
    BY <1>4, <1>5, <1>6
  <1>7. CASE v = w
    BY <1>4, <1>5, <1>7
  <1>8. CASE u # w /\ v # w
    BY <1>3, <1>4, <1>8 DEF Live
  <1> QED BY <1>6, <1>7, <1>8

LEMMA WriteKeeps ==
    ASSUME SignInsInv, NEW c \in Callers, Write(c)
    PROVE  SignInsInv'
  <1>1. CASE Succeeds(call[c].id, Written(call[c]))
    <2>1. /\ At(c, "write") /\ UNCHANGED <<Cookies, Bounds>>
          /\ users' = [users EXCEPT ![Row(call[c].id)] = Written(call[c])]
          /\ raced' = (raced \/ call[c].stale)
      BY <1>1 DEF Write
    <2>2. Indexed(users)'
      BY <1>1, <2>1 DEF Succeeds, Indexed
    <2>3. users' \in [Ids -> User \cup {NoUser}]
      BY <1>1, <2>1, WriteFacts DEF SignInsInv, TypeOK
    <2>4. call' \in [Callers -> Call] /\ CallsInv'
      BY <1>1, WriteCallsInv
    <2>5. EmailsUnique'
      BY <1>1, WriteEmailsUnique
    <2>6. raced' \in BOOLEAN
      BY <2>1 DEF SignInsInv, TypeOK, Call
    <2>7. TypeOK'
      BY <2>1, <2>3, <2>4, <2>6 DEF SignInsInv, TypeOK, Cookies, Bounds
    <2>8. VisitsAgree'
      BY <2>1 DEF SignInsInv, VisitsAgree, Cookies
    <2> QED BY <2>2, <2>4, <2>5, <2>7, <2>8 DEF SignInsInv
  <1>2. CASE ~Succeeds(call[c].id, Written(call[c]))
    BY <1>2, AnswerKeeps DEF Write
  <1> QED BY <1>1, <1>2

----------------------------------------------------------------------------
(* The theorems.                                                            *)

LEMMA NextSignInsInv == SignInsInv /\ [Next]_vars => SignInsInv'
  <1> SUFFICES ASSUME SignInsInv, [Next]_vars PROVE SignInsInv'
    OBVIOUS
  <1>1. ASSUME NEW b \in Browsers,
               \/ PasswordLogin(b) \/ Logout(b) \/ Expire(b) \/ SignIn(b)
               \/ \E mode \in {"login", "link"} : StartOIDC(b, mode)
        PROVE  SignInsInv'
    BY <1>1, PasswordLoginKeeps, CookiesKeep, SignInKeeps
  <1>2. ASSUME NEW b \in Browsers, NEW f \in flows, NEW p \in Profiles, OIDCCallback(b, f, p)
        PROVE  SignInsInv'
    BY <1>2, OIDCCallbackKeeps
  <1>3. ASSUME NEW b \in Browsers, NEW e \in Emails \cup {None}, PutProfile(b, e)
        PROVE  SignInsInv'
    BY <1>3, PutProfileKeeps
  <1>4. ASSUME NEW n \in Names \X {0}, NEW e \in Emails \cup {None}, Create(n, e)
        PROVE  SignInsInv'
    BY <1>4, CreateKeeps
  <1>5. ASSUME NEW u \in Live, NEW n \in Names \X {0}, NEW e \in Emails \cup {None}, Edit(users[u].tenant, n, e)
        PROVE  SignInsInv'
    BY <1>5, EditKeeps
  <1>6. ASSUME NEW u \in Live, Reset(users[u].tenant) \/ Delete(users[u].tenant)
        PROVE  SignInsInv'
    BY <1>6, ResetDeleteKeep
  <1>7. ASSUME NEW c \in Callers, Find(c) \/ Candidates(c) \/ Allocate(c) \/ Check(c) \/ Write(c)
        PROVE  SignInsInv'
    BY <1>7, FindKeeps, CandidatesKeeps, AllocateKeeps, CheckKeeps, WriteKeeps
  <1>8. CASE UNCHANGED vars
    BY <1>8 DEF vars, SignInsInv, TypeOK, Indexed, VisitsAgree, EmailsUnique, CallsInv, Live,
                Shaped, AsRead, Checked, WithEmail
  <1> QED BY <1>1, <1>2, <1>3, <1>4, <1>5, <1>6, <1>7, <1>8 DEF Next

\* The parts of the invariant hold together: what the indexes enforce, what each
\* request has read and may rely on, and what a visit to the provider is for.
THEOREM SignInsInvariant == Spec => []SignInsInv
  BY InitSignInsInv, NextSignInsInv, PTL DEF Spec

\* The variables stay in their ranges, for any rows, browsers and bounds.
THEOREM TypeCorrect == Spec => []TypeOK
  <1>1. SignInsInv => TypeOK
    BY DEF SignInsInv
  <1> QED BY <1>1, SignInsInvariant, PTL

\* No two accounts get one e-mail address but by a statement that relied on an
\* outdated read: emailIsUnique is enough for every statement that sets one.
THEOREM EmailsUniqueHolds == Spec => []EmailsUnique
  <1>1. SignInsInv => EmailsUnique
    BY DEF SignInsInv
  <1> QED BY <1>1, SignInsInvariant, PTL

\* The last read of a sign-in finds one account, or none: that of the identity.
LEMMA SignsInToTheIdentity ==
    ASSUME SignInsInv, NEW b \in Browsers, SignIn(b),
           session'[b] \notin {session[b], None},
           call[b].op \in {"join", "link"} => ~call[b].stale,
           NEW u \in Live
    PROVE  (users[u].identity = call[b].profile.subject) <=> (users[u].tenant = session'[b])
  <1> DEFINE r == call[b]
  <1>1. r \in Call /\ Shaped(b, r) /\ AsRead(r) /\ r.pc = "read" /\ r.op # "none"
    BY DEF SignIn, At, SignInsInv, TypeOK, CallsInv, Callers
  <1>2. r.profile.subject \in Subjects /\ r.profile.subject # None
    BY <1>1 DEF Shaped, Provided, Subjects
  <1>3. PICK v \in ToSignIn(r) : session'[b] = users[v].tenant
    BY OnlyFinds DEF SignIn, SignInsInv, TypeOK
  <1>4. v \in Live /\ users[v].identity = r.profile.subject
    <2>1. CASE r.op \in {"join", "link"}
      <3>1. r.id \in Live /\ users[r.id].tenant = r.tenant /\ users[r.id].identity = r.profile.subject
        BY <1>1, <2>1 DEF AsRead
      <3>2. v = r.id
        BY <1>3, <2>1, <3>1, OneByTenant DEF ToSignIn, SignInsInv
      <3> QED BY <3>1, <3>2
    <2>2. CASE r.op \notin {"join", "link"}
      BY <1>3, <2>2 DEF ToSignIn, WithIdentity
    <2> QED BY <2>1, <2>2
  <1>5. \A x \in Live : users[x].identity = r.profile.subject => x = v
    BY <1>2, <1>4 DEF SignInsInv, Indexed, Live
  <1>6. \A x \in Live : users[x].tenant = users[v].tenant => x = v
    BY <1>4 DEF SignInsInv, Indexed, Live
  <1> QED BY <1>3, <1>4, <1>5, <1>6

\* Nothing but the last read of a sign-in begins a session for a request at work.
LEMMA SessionBegins ==
    ASSUME SignInsInv, [Next]_vars, NEW b \in Browsers, call[b].pc = "read", session'[b] \notin {session[b], None}
    PROVE  SignIn(b)
  <1>1. session' # session /\ b \in Callers
    BY DEF Callers
  <1>2. call[b].op # "none"
    BY <1>1 DEF SignInsInv, CallsInv, Shaped
  <1>3. PICK d \in Browsers : PasswordLogin(d) \/ Logout(d) \/ SignIn(d)
    BY <1>1 DEF Next, vars, Expire, StartOIDC, OIDCCallback, PutProfile, Create, Edit, Reset, Delete,
                Find, Candidates, Allocate, Check, Write, Cookies
  <1>4. d = b
    BY <1>3 DEF PasswordLogin, Logout, SignIn, SignInsInv, TypeOK
  <1>5. ~PasswordLogin(b)
    BY <1>2 DEF PasswordLogin, Arrive
  <1>6. ~Logout(b)
    BY DEF Logout, SignInsInv, TypeOK
  <1> QED BY <1>3, <1>4, <1>5, <1>6

\* A sign-in begins the session of the account of the identity and of no other,
\* for any number of them at once: what UpsertOIDCUser and LinkOIDCIdentity
\* return.
THEOREM SignsInToOwnHolds == Spec => SignsInToOwn
  <1>1. SignInsInv /\ [Next]_vars => [\A b \in Browsers : SignedInToOwn(b)]_vars
    BY SessionBegins, SignsInToTheIdentity DEF SignedInToOwn
  <1> QED BY <1>1, SignInsInvariant, PTL DEF Spec, SignsInToOwn

\* The statement that changes the identity of an account is that of a request
\* that may.
LEMMA IdentityIsGiven ==
    ASSUME SignInsInv, NEW c \in Callers, Write(c), NEW u \in Live
    PROVE  IdentityGiven(u)
  <1> DEFINE r   == call[c]
             row == Written(r)
  <1> SUFFICES ASSUME users'[u] # NoUser, users'[u].identity # users[u].identity, ~raced'
               PROVE  \E b \in Browsers :
                        /\ call[b].id = u /\ call[b].profile # None
                        /\ users'[u].identity = call[b].profile.subject
                        /\ \/ /\ call[b].op = "link" /\ call[b].asked = "link"
                              /\ call[b].tenant = users[u].tenant
                           \/ /\ call[b].op = "join" /\ call[b].asked = "login" /\ users[u].identity = None
                              /\ call[b].profile.verified /\ WithEmail(call[b].profile.email) = {u}
    BY DEF IdentityGiven
  <1>1. /\ At(c, "write") /\ r.pc = "write" /\ r.op # "none" /\ Succeeds(r.id, row)
        /\ users' = [users EXCEPT ![Row(r.id)] = row] /\ ~r.stale
        /\ r \in Call /\ Shaped(c, r) /\ AsRead(r)
    BY DEF Write, At, SignInsInv, TypeOK, CallsInv
  <1>2. u \in Ids /\ users[u] \in User /\ users'[u] = (IF u = Row(r.id) THEN row ELSE users[u])
    BY <1>1 DEF Live, SignInsInv, TypeOK
  <1>3. u = Row(r.id) /\ row # NoUser /\ row.identity # users[u].identity
    BY <1>2
  <1>4. r.id = u /\ row = Changed(r, users[u]) /\ r.op # "delete"
    BY <1>1, <1>3, WriteFacts
  <1>5. r.op \notin {"register", "create"} /\ u # NoUser
    BY <1>1, <1>2, <1>4 DEF Shaped
  <1>6. r.op \in {"join", "link"} /\ row.identity = r.profile.subject
    BY <1>1, <1>2, <1>3, <1>4, <1>5, ChangedRow
  <1>7. c \in Browsers /\ r.profile \in Profiles /\ r.profile # None
    BY <1>1, <1>6 DEF Shaped, Callers, Provided
  <1>8. users[u].tenant = r.tenant
        /\ (r.op = "join" => users[u].identity = None /\ WithEmail(r.profile.email) = {u})
    BY <1>1, <1>4, <1>6 DEF AsRead
  <1>9. /\ r.asked = IF r.op = "link" THEN "link" ELSE "login"
        /\ r.op = "join" => r.profile.verified
    BY <1>1, <1>6 DEF Shaped, Provided, Vouched
  <1> QED BY <1>2, <1>3, <1>4, <1>6, <1>7, <1>8, <1>9

\* An account gets an identity by a request to link it or by its own address,
\* verified and of no other account, and never loses it or gets another: what
\* linkOIDCByVerifiedEmail and LinkOIDCIdentity check, statement by statement.
THEOREM IdentitiesStayHolds == Spec => IdentitiesStay
  <1>1. ASSUME SignInsInv, [Next]_vars, users' # users
        PROVE  \E c \in Callers : Write(c)
    BY <1>1 DEF Next, vars, PasswordLogin, Logout, SignIn, Expire, StartOIDC, OIDCCallback, PutProfile,
                Create, Edit, Reset, Delete, Find, Candidates, Allocate, Check
  <1>2. SignInsInv /\ [Next]_vars => [\A u \in Live : IdentityGiven(u)]_vars
    BY <1>1, IdentityIsGiven DEF IdentityGiven
  <1> QED BY <1>2, SignInsInvariant, PTL DEF Spec, IdentitiesStay

==============================================================================
