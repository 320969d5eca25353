---- MODULE UserService ----
(***************************************************************************)
(* internal/user/service: the five RPCs of the user service, each run by a *)
(* goroutine of the gRPC server and split where it calls Postgres, Redis,  *)
(* the singleflight group or the audit service.  Between two calls of one  *)
(* handler any other handler may run, the clock may tick, a cache entry    *)
(* may expire and the process may crash.                                   *)
(*                                                                         *)
(*   Register        lookup .. resume, create, invalidate, emit            *)
(*   Login           lookup .. resume, generate, insert, emit              *)
(*   GetProfile      cacheget, lookup .. resume                            *)
(*   RefreshSession  session, revoke, generate, insert, emit               *)
(*   Logout          session, revoke, emit                                 *)
(*                                                                         *)
(* "lookup .. resume" is the singleflight part of getUserByEmail and       *)
(* getUserByID: the leader of a key queries, fills the cache and lands the *)
(* flight, the others wait for it.  Login's rate limiter is abstracted to  *)
(* a choice (RateLimited at any time).                                     *)
(***************************************************************************)
EXTENDS Repository, FiniteSets

CONSTANTS Procs,      \* goroutines serving a request
          Ops,        \* the RPCs the clients of this instance call
          CacheOn,    \* Cache # nil
          Seed,       \* the users table before the first request
          MaxFaults   \* bound: failed calls and crashes

VARIABLES now,        \* the wall clock, in seconds
          cache,      \* Redis: the view stored under a key, or None
          flight,     \* singleflight group: the leader running a key's call
          pc, call,   \* where each goroutine is, and in which request
          got,        \* local user: the row getUserBy* returned
          owner,      \* local session.UserID / user.ID
          newTok,     \* local refresh, newRefresh
          reply,      \* the status a finished handler returns
          faults,     \* how many calls failed so far
          delivered,  \* history: refresh tokens clients received
          acked       \* history: accounts whose registration was confirmed

db == <<users, sessions>>
locals == <<got, owner, newTok>>
history == <<delivered, acked>>
vars == <<now, users, sessions, cache, flight, pc, call, got, owner, newTok,
          reply, faults, delivered, acked>>

Keys == Emails \union Ids     \* "user:email:..." and "user:id:..." apart
View == [id : Ids, email : Emails, username : Usernames]

AllOps == {"Register", "Login", "GetProfile", "RefreshSession", "Logout"}
Labels == {"idle", "cacheget", "lookup", "wait", "query", "fill", "land",
           "resume", "create", "invalidate", "session", "revoke", "generate",
           "insert", "emit", "done"}
Replies == {"OK", "Validation", "Internal", "EmailInUse", "RateLimited",
            "InvalidCredentials", "NotFound"}

\* spent (history): when the request arrived, the session of its refresh token
\* was already revoked.
Request == [op : AllOps, key : Keys \union {None},
            username : Usernames \union {None}, pw : Passwords \union {None},
            tok : Token \union {None}, spent : BOOLEAN]
AboutUser(op, k, n, w) ==
  [op |-> op, key |-> k, username |-> n, pw |-> w, tok |-> None,
   spent |-> FALSE]
AboutToken(op, tok, spent) ==
  [op |-> op, key |-> None, username |-> None, pw |-> None, tok |-> tok,
   spent |-> spent]
NoRequest == AboutToken("Logout", None, FALSE)

ASSUME ServiceAssumption ==
  /\ Ops \subseteq AllOps
  /\ CacheOn \in BOOLEAN
  /\ MaxFaults \in Nat
  /\ None \notin Procs /\ None \notin Replies
  /\ None \notin View
  /\ Emails \intersect Ids = {}

\* The seeded rows satisfy the table's constraints.
ASSUME SeedAssumption ==
  /\ Seed \in [Ids -> User \union {None}]
  /\ \A i \in Ids : Seed[i] # None => Seed[i].id = i
  /\ \A i, j \in Ids :
       /\ Seed[i] # None /\ Seed[j] # None /\ i # j
       => /\ ~SameText(Seed[i].email, Seed[j].email)
          /\ ~SameText(Seed[i].username, Seed[j].username)

Init ==
  /\ now = 0
  /\ users = Seed
  /\ sessions = [t \in Token |-> None]
  /\ cache = [k \in Keys |-> None]
  /\ flight = [k \in Keys |-> None]
  /\ pc = [p \in Procs |-> "idle"]
  /\ call = [p \in Procs |-> NoRequest]
  /\ got = [p \in Procs |-> None]
  /\ owner = [p \in Procs |-> None]
  /\ newTok = [p \in Procs |-> None]
  /\ reply = [p \in Procs |-> None]
  /\ faults = 0
  /\ delivered = {}
  /\ acked = {}

(*************************** Control flow **********************************)

At(p, l) == pc[p] = l
Go(p, l) == pc' = [pc EXCEPT ![p] = l] /\ UNCHANGED reply
Finish(p, r) ==
  /\ pc' = [pc EXCEPT ![p] = "done"]
  /\ reply' = [reply EXCEPT ![p] = r]

\* How a call to Postgres ends: it commits and answers, it fails, or it
\* commits and the answer is lost (connection broken, context cancelled).
Outcomes == {"ok", "lost", "unacked"}
Charge(o) ==
  IF o = "ok" THEN UNCHANGED faults
              ELSE faults < MaxFaults /\ faults' = faults + 1

\* Whether the handler takes an INSERT for done: the constraints let it in and
\* no error came back.
CommittedUnchecked(fits, o) == TRUE
Committed(fits, o) == fits /\ o = "ok"

(*************************** Requests **************************************)

Accept(p, c) ==
  /\ c.op \in Ops
  /\ At(p, "idle")
  /\ call' = [call EXCEPT ![p] = c]
  /\ UNCHANGED <<now, db, cache, flight, locals, faults, history>>

\* Bound: every registration in progress can still draw a fresh id.
FreeIds == {i \in Ids : users[i] = None}
Registering == {p \in Procs : ~At(p, "idle") /\ call[p].op = "Register"}
IdsLeft == Cardinality(Registering) < Cardinality(FreeIds)

\* e = None: a request ValidateRegister refuses.
Register(p, e, n, w) ==
  /\ IdsLeft
  /\ Accept(p, AboutUser("Register", e, n, w))
  /\ \/ e = None /\ Finish(p, "Validation")
     \/ e # None /\ w \in Unhashable /\ Finish(p, "Internal")
     \/ e # None /\ w \notin Unhashable /\ Go(p, "lookup")

Login(p, e, w) ==
  /\ Accept(p, AboutUser("Login", e, None, w))
  /\ Finish(p, "RateLimited") \/ Go(p, "lookup")

\* id = None: a string uuid.Parse refuses.
GetProfile(p, id) ==
  /\ Accept(p, AboutUser("GetProfile", id, None, None))
  /\ \/ id = None /\ Finish(p, "Validation")
     \/ id # None /\ Go(p, IF CacheOn THEN "cacheget" ELSE "lookup")

\* What clients can present: the tokens they were given (the access token of
\* a pair too) and, as None, strings that were never signed.
PairedAccess(t) == AccessToken(t.sub, t.exp - RefreshTTL)
Presentable == delivered \union {PairedAccess(t) : t \in delivered} \union {None}

Revoked(tok) == tok # None /\ sessions[tok] # None /\ sessions[tok].revoked

RefreshSession(p, tok) ==
  /\ Accept(p, AboutToken("RefreshSession", tok, Revoked(tok)))
  /\ \/ ~Verify(tok, now) /\ Finish(p, "InvalidCredentials")
     \/ Verify(tok, now) /\ Go(p, "session")

\* Logout verifies the token too, and ignores the result.
LogoutIfVerified(p, tok) ==
  IF Verify(tok, now) THEN Go(p, "session") ELSE Finish(p, "OK")
LogoutAnyway(p, tok) == Go(p, "session")

Logout(p, tok) ==
  /\ Accept(p, AboutToken("Logout", tok, Revoked(tok)))
  /\ LogoutAnyway(p, tok)

(*************************** getUserByEmail, getUserByID *******************)

toView(u) == [id |-> u.id, email |-> u.email, username |-> u.username]
toUserRowSwapped(v) == [id |-> v.id, email |-> v.username,
                        username |-> v.email, hash |-> NoHash]
toUserRow(v) == [id |-> v.id, email |-> v.email, username |-> v.username,
                 hash |-> NoHash]

\* Only getUserByID uses what the cache returns; a miss is also what an
\* expired entry or a failing Redis looks like.
CacheGet(p) ==
  /\ At(p, "cacheget")
  /\ \/ /\ cache[call[p].key] # None
        /\ got' = [got EXCEPT ![p] = toUserRow(cache[call[p].key])]
        /\ Finish(p, "OK")
     \/ Go(p, "lookup") /\ UNCHANGED got
  /\ UNCHANGED <<now, db, cache, flight, call, owner, newTok, faults,
                 history>>

\* singleflight.Do: lead the call for this key, or wait for its leader.
Lookup(p) ==
  /\ At(p, "lookup")
  /\ \/ /\ flight[call[p].key] = None
        /\ flight' = [flight EXCEPT ![call[p].key] = p]
        /\ Go(p, "query")
     \/ /\ flight[call[p].key] # None
        /\ Go(p, "wait") /\ UNCHANGED flight
  /\ UNCHANGED <<now, db, cache, call, locals, faults, history>>

\* The row the leader's query finds; the callers do not tell "no rows" from
\* a failed query.
Row(p) == IF call[p].op = "GetProfile" THEN GetUserByID(call[p].key)
                                       ELSE GetUserByEmail(call[p].key)

Query(p) ==
  /\ At(p, "query")
  /\ \E o \in {"ok", "lost"} :
       LET u == IF o = "ok" THEN Row(p) ELSE None IN
       /\ Charge(o)
       /\ got' = [got EXCEPT ![p] = u]
       /\ Go(p, IF u # None /\ CacheOn THEN "fill" ELSE "land")
  /\ UNCHANGED <<now, db, cache, flight, call, owner, newTok, history>>

\* The keys a getter stores the view under: the one it was asked for and the
\* row's other one.
FillKeys(p) ==
  {call[p].key,
   IF call[p].op = "GetProfile" THEN got[p].email ELSE got[p].id}

\* The two Sets; each may fail unnoticed.
Fill(p) ==
  /\ At(p, "fill")
  /\ \E ks \in SUBSET FillKeys(p) :
       cache' = [k \in Keys |-> IF k \in ks THEN toView(got[p]) ELSE cache[k]]
  /\ Go(p, "land")
  /\ UNCHANGED <<now, db, flight, call, locals, faults, history>>

\* The flight of p's key ends: p and everyone who waited for it go on with
\* the same row (or the same error).
LandsLeader(p, q) == q = p
Lands(p, q) == q = p \/ (At(q, "wait") /\ call[q].key = call[p].key)

Land(p) ==
  /\ At(p, "land")
  /\ flight' = [flight EXCEPT ![call[p].key] = None]
  /\ got' = [q \in Procs |-> IF Lands(p, q) THEN got[p] ELSE got[q]]
  /\ pc' = [q \in Procs |-> IF Lands(p, q) THEN "resume" ELSE pc[q]]
  /\ UNCHANGED <<now, db, cache, call, owner, newTok, reply, faults,
                 history>>

\* The caller looks at what the getter returned.
LoginFound(p) == got[p] # None
LoginOK(p) == got[p] # None /\ ComparePassword(got[p].hash, call[p].pw)

Resume(p) ==
  /\ At(p, "resume")
  /\ \/ /\ call[p].op = "Register"
        /\ IF got[p] # None THEN Finish(p, "EmailInUse") ELSE Go(p, "create")
        /\ UNCHANGED owner
     \/ /\ call[p].op = "Login"
        /\ IF LoginOK(p)
           THEN Go(p, "generate") /\ owner' = [owner EXCEPT ![p] = got[p].id]
           ELSE Finish(p, "InvalidCredentials") /\ UNCHANGED owner
     \/ /\ call[p].op = "GetProfile"
        /\ Finish(p, IF got[p] # None THEN "OK" ELSE "NotFound")
        /\ UNCHANGED owner
  /\ UNCHANGED <<now, db, cache, flight, call, got, newTok, faults,
                 history>>

(*************************** Register **************************************)

\* The INSERT of a row with a fresh id.
Create(p) ==
  /\ At(p, "create")
  /\ \E id \in FreeIds, o \in Outcomes :
       LET u == [id |-> id, email |-> call[p].key,
                 username |-> call[p].username,
                 hash |-> HashPassword(call[p].pw)]
       IN /\ Charge(o)
          /\ IF UserUnique(u) /\ o # "lost" THEN CreateUser(u)
                                            ELSE UNCHANGED users
          /\ IF Committed(UserUnique(u), o)
             THEN /\ got' = [got EXCEPT ![p] = u]
                  /\ Go(p, IF CacheOn THEN "invalidate" ELSE "emit")
             ELSE Finish(p, "Internal") /\ UNCHANGED got
  /\ UNCHANGED <<now, sessions, cache, flight, call, owner, newTok,
                 history>>

\* Del of both keys, best effort.
Invalidate(p) ==
  /\ At(p, "invalidate")
  /\ \E ks \in {{}, {call[p].key, got[p].id}} :
       cache' = [k \in Keys |-> IF k \in ks THEN None ELSE cache[k]]
  /\ Go(p, "emit")
  /\ UNCHANGED <<now, db, flight, call, locals, faults, history>>

(*************************** Sessions **************************************)

\* session.RevokedAt.Valid || session.ExpiresAt.Time.Before(time.Now()), of
\* times finer than a second: within the same second it may go either way.
UsableIfUnexpired(s) == s.exp >= now
Usable(s) == ~s.revoked /\ s.exp >= now
Refusable(s) == s.revoked \/ s.exp <= now

FindSession(p) ==
  /\ At(p, "session")
  /\ \E o \in {"ok", "lost"} :
       LET s == IF o = "ok" THEN GetSessionByTokenHash(call[p].tok) ELSE None
           logout == call[p].op = "Logout"
       IN /\ Charge(o)
          /\ \/ /\ s = None
                /\ Finish(p, IF logout THEN "OK" ELSE "InvalidCredentials")
                /\ UNCHANGED owner
             \/ /\ s # None /\ (logout \/ Usable(s))
                /\ Go(p, "revoke")
                /\ owner' = [owner EXCEPT ![p] = s.user]
             \/ /\ s # None /\ ~logout /\ Refusable(s)
                /\ Finish(p, "InvalidCredentials")
                /\ UNCHANGED owner
  /\ UNCHANGED <<now, db, cache, flight, call, got, newTok, history>>

\* RefreshSession gives up when RevokeSession reports an error, Logout never
\* looks.
RevokeIgnored(p, o) == TRUE
RevokeAccepted(p, o) == call[p].op = "Logout" \/ o = "ok"

Revoke(p) ==
  /\ At(p, "revoke")
  /\ \E o \in Outcomes :
       /\ Charge(o)
       /\ IF o = "lost" THEN UNCHANGED sessions ELSE RevokeSession(call[p].tok)
       /\ IF RevokeAccepted(p, o)
          THEN Go(p, IF call[p].op = "Logout" THEN "emit" ELSE "generate")
          ELSE Finish(p, "Internal")
  /\ UNCHANGED <<now, users, cache, flight, call, locals, history>>

\* The subject: Login passes the row's id, RefreshSession what Verify read.
Subject(p) == IF call[p].op = "Login" THEN owner[p] ELSE call[p].tok.sub

Generate(p) ==
  /\ At(p, "generate")
  /\ \E o \in {"ok", "lost"} :
       /\ Charge(o)
       /\ IF o = "ok"
          THEN /\ newTok' = [newTok EXCEPT ![p] = RefreshToken(Subject(p), now)]
               /\ Go(p, "insert")
          ELSE Finish(p, "Internal") /\ UNCHANGED newTok
  /\ UNCHANGED <<now, db, cache, flight, call, got, owner, history>>

\* The row's expiry: time.Now(), read between Generate and the INSERT, plus
\* seven days.
ShortExpiries(p) == (newTok[p].exp - 1) .. (now + RefreshTTL)
RowExpiries(p) == newTok[p].exp .. (now + RefreshTTL)

Insert(p) ==
  /\ At(p, "insert")
  /\ \E o \in Outcomes, x \in RowExpiries(p) :
       LET s == [user |-> owner[p], exp |-> x, revoked |-> FALSE,
                 from |-> call[p].tok]
           fits == SessionInsertable(newTok[p], s)
       IN /\ Charge(o)
          /\ IF fits /\ o # "lost" THEN CreateSession(newTok[p], s)
                                   ELSE UNCHANGED sessions
          /\ IF Committed(fits, o) THEN Go(p, "emit") ELSE Finish(p, "Internal")
  /\ UNCHANGED <<now, users, cache, flight, call, locals, history>>

(*************************** Audit and reply *******************************)

EventOf(p) ==
  CASE call[p].op = "Register" ->
         [type |-> "user.registered", user |-> got[p].id, tok |-> None]
    [] call[p].op = "Login" ->
         [type |-> "user.login.succeeded", user |-> owner[p], tok |-> newTok[p]]
    [] call[p].op = "RefreshSession" ->
         [type |-> "user.session.refreshed", user |-> owner[p],
          tok |-> newTok[p]]
    [] OTHER ->
         [type |-> "user.logout", user |-> owner[p], tok |-> call[p].tok]

\* Audit.Emit(EventOf(p)) writes to stores of its own, and every handler
\* drops its error.
Emit(p) ==
  /\ At(p, "emit")
  /\ Finish(p, "OK")
  /\ UNCHANGED <<now, db, cache, flight, call, locals, faults, history>>

\* What a client learns from p's reply.
TokensDespiteError(p) ==
  IF call[p].op \in {"Login", "RefreshSession"} THEN {newTok[p]} \ {None} ELSE {}
TokensIn(p) ==
  IF reply[p] = "OK" /\ call[p].op \in {"Login", "RefreshSession"}
  THEN {newTok[p]} ELSE {}
AccountsIn(p) ==
  IF reply[p] = "OK" /\ call[p].op = "Register" THEN {got[p]} ELSE {}

\* The reply reaches the client and the goroutine ends.
Deliver(p) ==
  /\ At(p, "done")
  /\ delivered' = delivered \union TokensIn(p)
  /\ acked' = acked \union AccountsIn(p)
  /\ pc' = [pc EXCEPT ![p] = "idle"]
  /\ call' = [call EXCEPT ![p] = NoRequest]
  /\ got' = [got EXCEPT ![p] = None]
  /\ owner' = [owner EXCEPT ![p] = None]
  /\ newTok' = [newTok EXCEPT ![p] = None]
  /\ reply' = [reply EXCEPT ![p] = None]
  /\ UNCHANGED <<now, db, cache, flight, faults>>

(*************************** Environment ***********************************)

Tick ==
  /\ now < MaxTime
  /\ now' = now + 1
  /\ UNCHANGED <<db, cache, flight, pc, call, locals, reply, faults,
                 history>>

\* A cached view reaches its TTL, or Redis evicts it.
Expire(k) ==
  /\ cache[k] # None
  /\ cache' = [cache EXCEPT ![k] = None]
  /\ UNCHANGED <<now, db, flight, pc, call, locals, reply, faults,
                 history>>

\* The process dies with every handler and the singleflight group; the
\* tables and Redis live on.
Crash ==
  /\ faults < MaxFaults
  /\ faults' = faults + 1
  /\ pc' = [p \in Procs |-> "idle"]
  /\ call' = [p \in Procs |-> NoRequest]
  /\ got' = [p \in Procs |-> None]
  /\ owner' = [p \in Procs |-> None]
  /\ newTok' = [p \in Procs |-> None]
  /\ reply' = [p \in Procs |-> None]
  /\ flight' = [k \in Keys |-> None]
  /\ UNCHANGED <<now, db, cache, history>>

Arrive(p) ==
  \/ \E e \in Emails \union {None}, n \in Usernames, w \in Passwords :
       Register(p, e, n, w)
  \/ \E e \in Emails, w \in Passwords : Login(p, e, w)
  \/ \E id \in Ids \union {None} : GetProfile(p, id)
  \/ \E tok \in Presentable : RefreshSession(p, tok)
  \/ \E tok \in Presentable : Logout(p, tok)

Step(p) ==
  \/ CacheGet(p) \/ Lookup(p) \/ Query(p) \/ Fill(p) \/ Land(p) \/ Resume(p)
  \/ Create(p) \/ Invalidate(p)
  \/ FindSession(p) \/ Revoke(p) \/ Generate(p) \/ Insert(p)
  \/ Emit(p) \/ Deliver(p)

Next ==
  \/ \E p \in Procs : Arrive(p)
  \/ \E p \in Procs : Step(p)
  \/ Tick
  \/ \E k \in Keys : Expire(k)
  \/ Crash

Spec == Init /\ [][Next]_vars

\* A goroutine that can take its next step is eventually scheduled, and the
\* calls it makes return.
Fairness == \A p \in Procs : WF_vars(Step(p))
FairSpec == Spec /\ Fairness

(***************************************************************************)
(*                             Properties                                  *)
(***************************************************************************)

\* Every variable has its type.
TypeOK ==
  /\ RepositoryTypeOK
  /\ now \in Time
  /\ cache \in [Keys -> View \union {None}]
  /\ flight \in [Keys -> Procs \union {None}]
  /\ pc \in [Procs -> Labels]
  /\ call \in [Procs -> Request]
  /\ got \in [Procs -> User \union {None}]
  /\ owner \in [Procs -> Ids \union {None}]
  /\ newTok \in [Procs -> Token \union {None}]
  /\ reply \in [Procs -> Replies \union {None}]
  /\ faults \in 0 .. MaxFaults
  /\ delivered \subseteq Token
  /\ acked \subseteq User

\* Rotation: a session that RefreshSession opened exists only when the
\* session of the token it was exchanged for is revoked, whatever failed,
\* crashed or ran in between.
RotationRevokesParent ==
  \A t \in Token :
    sessions[t] # None /\ sessions[t].from # None => Revoked(sessions[t].from)

\* A session row belongs to the subject its token names, an existing user,
\* and does not end before its token does: Verify and the table never
\* disagree about whose token it is or for how long it lasts.
SessionMatchesToken ==
  \A t \in Token : sessions[t] # None =>
    /\ sessions[t].user = t.sub
    /\ users[t.sub] # None
    /\ sessions[t].exp >= t.exp

\* A refresh token whose session was revoked before RefreshSession was called
\* is not exchanged: the call never gets as far as issuing a token.
NoReuseAfterRevoke ==
  \A p \in Procs : call[p].op = "RefreshSession" /\ call[p].spent =>
    /\ pc[p] \in {"session", "done"}
    /\ reply[p] \in {None, "InvalidCredentials"}

\* Logout answers OK whatever it finds; when no call has failed, the answer means
\* that the session of a token a client was given is revoked, expired or not.
LogoutRevokes ==
  [][\A p \in Procs :
       /\ reply[p] = None /\ reply'[p] = "OK" /\ faults' = 0
       /\ call'[p].op = "Logout" /\ call'[p].tok \in delivered
       => Revoked(call[p].tok)']_vars

\* A client that received a refresh token can rely on its session row, and
\* one that was told of its registration on its account: no crash, lost
\* answer or race takes them back.
AcknowledgedIsStored ==
  /\ \A t \in delivered : sessions[t] # None
  /\ \A u \in acked : users[u.id] = u

\* However registrations race, no two accounts share an email or a username
\* up to case.
AccountsDistinct ==
  \A i, j \in Ids : users[i] # None /\ users[j] # None /\ i # j =>
    /\ ~SameText(users[i].email, users[j].email)
    /\ ~SameText(users[i].username, users[j].username)

\* Whatever Redis holds under a key is the current row of that key: a fill
\* that lands late, or after the Del of Register, stores nothing stale.
CacheCoherent ==
  \A k \in Keys : cache[k] # None =>
    /\ users[cache[k].id] # None
    /\ cache[k] = toView(users[cache[k].id])
    /\ k \in Ids => cache[k].id = k
    /\ k \in Emails => SameText(cache[k].email, k)

\* GetProfile answers with the account asked for, from the cache or from a
\* flight shared with others alike.
ProfileFaithful ==
  \A p \in Procs : call[p].op = "GetProfile" /\ reply[p] = "OK" =>
    /\ got[p] # None /\ users[call[p].key] # None
    /\ toView(got[p]) = toView(users[call[p].key])

\* Login succeeds only for the account of the given email and only with its
\* password, though the row came out of a flight led by another caller with
\* another password; the new session is that account's.
LoginAuthentic ==
  \A p \in Procs : call[p].op = "Login" /\ reply[p] = "OK" =>
    /\ newTok[p] # None
    /\ sessions[newTok[p]] # None
    /\ users[newTok[p].sub] # None
    /\ SameText(users[newTok[p].sub].email, call[p].key)
    /\ ComparePassword(users[newTok[p].sub].hash, call[p].pw)

\* The audit trail never runs ahead of the tables: a registration, a login and a
\* refresh are recorded only once the account, the session and the rotation are
\* committed.  A logout names a stored session, and unless a call failed that
\* session is revoked: Logout drops the error of its UPDATE and records
\* user.logout all the same.
EventTrue(ev) ==
  CASE ev.type = "user.registered" -> users[ev.user] # None
    [] ev.type = "user.login.succeeded" ->
         /\ ev.tok # None /\ sessions[ev.tok] # None
         /\ sessions[ev.tok].user = ev.user /\ sessions[ev.tok].from = None
    [] ev.type = "user.session.refreshed" ->
         /\ ev.tok # None /\ sessions[ev.tok] # None
         /\ sessions[ev.tok].user = ev.user /\ Revoked(sessions[ev.tok].from)
    [] OTHER ->
         /\ ev.tok # None /\ sessions[ev.tok] # None
         /\ faults = 0 => Revoked(ev.tok)
AuditTruthful ==
  \A p \in Procs : At(p, "emit") => EventTrue(EventOf(p))

\* A goroutine waits for a flight only while a live goroutine leads it: the
\* leader of a key is inside the call for that key.
FlightSound ==
  /\ \A p \in Procs : At(p, "wait") => flight[call[p].key] # None
  /\ \A k \in Keys : flight[k] # None =>
       /\ pc[flight[k]] \in {"query", "fill", "land"}
       /\ call[flight[k]].key = k

\* A session, once stored, stays stored for the same user, and a revoked one
\* is never usable again.
SessionsOnlyAge ==
  [][\A t \in Token : sessions[t] # None =>
       /\ sessions'[t] # None
       /\ sessions'[t].user = sessions[t].user
       /\ sessions[t].revoked => sessions'[t].revoked]_vars

\* Seen from the sessions table alone, the service does what SessionLifecycle
\* allows: it implements that specification.
Lifecycle == INSTANCE SessionLifecycle WITH
  status <- [t \in Token |-> IF sessions[t] = None THEN "absent"
                             ELSE IF sessions[t].revoked THEN "revoked"
                             ELSE "live"],
  origin <- [t \in Token |-> IF sessions[t] = None THEN None
                             ELSE sessions[t].from]
ImplementsLifecycle == Lifecycle!Spec

\* Every request is answered, those that wait for another's flight included.
Answered == \A p \in Procs : ~At(p, "idle") ~> At(p, "idle")

(*************************** What the documents say ************************)

\* api/openapi/user.yaml on /v1/refresh: "The provided refresh token is revoked
\* and cannot be reused."  At most one token is ever exchanged for another.
SingleUse ==
  \A t, u \in Token :
    /\ sessions[t] # None /\ sessions[u] # None
    /\ sessions[t].from # None /\ sessions[t].from = sessions[u].from
    => t = u

\* The same document: RefreshSession "Exchanges a valid refresh token for a new
\* pair of access and refresh tokens."  When no call fails, the exchange of a
\* token that was found usable does not end in an internal error.
RefreshYieldsPair ==
  \A p \in Procs : call[p].op = "RefreshSession" /\ reply[p] = "Internal" =>
    faults > 0
====
