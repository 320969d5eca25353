---- MODULE UserAccountsProofs ----
(***************************************************************************)
(* Proofs about what the user service answers: the accounts, the cache,    *)
(* the singleflight group, and the replies and audit events of each RPC.   *)
(*                                                                         *)
(* They rest on the invariant of UserServiceProofs and on a second one,    *)
(* AInv, in three parts: the cache agrees with the users table; the leader *)
(* of a flight and the goroutines inside its call are the same; and each   *)
(* goroutine has, at its label, the row it asked for and the proof of what *)
(* it is about to report.                                                  *)
(***************************************************************************)
EXTENDS UserServiceProofs

\* The labels of a goroutine that leads the flight of its key.
Leading == {"query", "fill", "land"}

FlightInv ==
  /\ FlightSound
  /\ \A p \in Procs : pc[p] \in Leading => flight[call[p].key] = p

\* u is a row that the getter of request c may return.
Wanted(c, u) == IF c.op = "GetProfile" THEN u.id = c.key
                                       ELSE SameText(u.email, c.key)
WantedInv(p) ==
  pc[p] \in {"fill", "land", "resume"} /\ got[p] # None =>
    Wanted(call[p], got[p])

\* A login that got past the password acts for the account of its email.
LoginInv(p) ==
  call[p].op = "Login" =>
    /\ pc[p] \in {"generate", "insert", "emit"} \/ reply[p] = "OK" =>
         /\ owner[p] # None /\ users[owner[p]] # None
         /\ SameText(users[owner[p]].email, call[p].key)
         /\ ComparePassword(users[owner[p]].hash, call[p].pw)
    /\ pc[p] = "emit" \/ reply[p] = "OK" => newTok[p].sub = owner[p]

\* What is committed when a handler reaches its audit call.
EmitInv(p) ==
  pc[p] = "emit" =>
    /\ call[p].op # "GetProfile"
    /\ call[p].op \in {"Login", "RefreshSession"} =>
         /\ sessions[newTok[p]].user = owner[p]
         /\ sessions[newTok[p]].from = call[p].tok
    /\ call[p].op = "Logout" =>
         /\ call[p].tok # None /\ sessions[call[p].tok] # None
         /\ faults = 0 => Revoked(call[p].tok)

ProfileInv(p) ==
  call[p].op = "GetProfile" /\ reply[p] = "OK" =>
    /\ call[p].key \in Ids /\ got[p] # None /\ users[call[p].key] # None
    /\ toView(got[p]) = toView(users[call[p].key])

AnswerInv(p) == WantedInv(p) /\ LoginInv(p) /\ EmitInv(p) /\ ProfileInv(p)

AInv ==
  /\ AccountsDistinct /\ CacheCoherent /\ FlightInv
  /\ \A p \in Procs : AnswerInv(p)

(***************************************************************************)
(* Operators                                                               *)
(***************************************************************************)

\* The row GetUserByEmail returns has the email asked for, up to case.
LEMMA GetUserByEmailMatches ==
  ASSUME NEW e
  PROVE  GetUserByEmail(e) # None => SameText(GetUserByEmail(e).email, e)
<1>1. CASE WithEmail(e) = {}
  BY <1>1 DEF GetUserByEmail
<1>2. CASE WithEmail(e) # {}
  <2> DEFINE i == CHOOSE id \in WithEmail(e) : TRUE
  <2>1. i \in WithEmail(e)
    BY <1>2
  <2>2. GetUserByEmail(e) = users[i]
    BY <1>2 DEF GetUserByEmail
  <2> HIDE DEF i
  <2> QED
    BY <2>1, <2>2 DEF WithEmail
<1> QED
  BY <1>1, <1>2

\* The row rebuilt from a cached view has that view.
LEMMA ViewOfCachedRow ==
  ASSUME NEW v \in View
  PROVE  toUserRow(v) \in User /\ toView(toUserRow(v)) = v
BY DEF toUserRow, toView, View, User, NoHash, Hash

\* Two requests that share a key want the same rows: ids and emails are
\* different keys.
LEMMA SameKeySameRow ==
  ASSUME NEW p \in Procs, NEW q \in Procs, RequestInv(p), RequestInv(q),
         pc[p] \in Getting, pc[q] \in Getting, call[p].key = call[q].key,
         NEW u, Wanted(call[p], u)
  PROVE  Wanted(call[q], u)
BY ServiceAssumption DEF RequestInv, Wanted

\* Failures are only ever added.
LEMMA FaultsGrow ==
  ASSUME TypeOK, [Next]_vars, faults' = 0
  PROVE  faults = 0
<1> USE DEF TypeOK, Charge, locals, db, history
<1>1. ASSUME NEW p \in Procs, Arrive(p) PROVE faults = 0
  BY <1>1 DEF Arrive, Register, Login, GetProfile, RefreshSession, Logout,
              LogoutAnyway, Accept
<1>2. ASSUME NEW p \in Procs, Step(p) PROVE faults = 0
  <2>1. ASSUME NEW o, Charge(o) PROVE faults = 0
    BY <2>1
  <2>2. faults' = faults \/ \E o : Charge(o)
    BY <1>2 DEF Step, CacheGet, Lookup, Query, Fill, Land, Resume, Create,
                Invalidate, FindSession, Revoke, Generate, Insert, Emit, Deliver
  <2> QED
    BY <2>1, <2>2
<1>3. CASE Tick \/ (\E k \in Keys : Expire(k)) \/ Crash \/ UNCHANGED vars
  BY <1>3 DEF Tick, Expire, Crash, vars
<1> QED
  BY <1>1, <1>2, <1>3 DEF Next

(***************************************************************************)
(* Accounts                                                                *)
(***************************************************************************)

\* Only Create writes the users table, and the UNIQUE constraints decide.
LEMMA UsersSteps ==
  ASSUME IInv, [Next]_vars
  PROVE  \/ users' = users
         \/ \E u \in User : UserUnique(u) /\ users[u.id] = None /\ CreateUser(u)
<1> USE DEF db, At
<1>1. CASE \E p \in Procs : Arrive(p)
  BY <1>1 DEF Arrive, Register, Login, GetProfile, RefreshSession, Logout,
              LogoutAnyway, Accept
<1>2. CASE Tick \/ (\E k \in Keys : Expire(k)) \/ Crash \/ UNCHANGED vars
  BY <1>2 DEF Tick, Expire, Crash, vars
<1>3. ASSUME NEW p \in Procs, Create(p)
      PROVE  \/ users' = users
             \/ \E u \in User : UserUnique(u) /\ users[u.id] = None /\ CreateUser(u)
  <2>1. PICK id \in FreeIds, o \in Outcomes : Create(p)!2!(id, o)
    BY <1>3 DEF Create
  <2> DEFINE u == [id |-> id, email |-> call[p].key,
                   username |-> call[p].username,
                   hash |-> HashPassword(call[p].pw)]
  <2>2. u \in User /\ users[u.id] = None
    BY <1>3 DEF Create, IInv, ProcInv, RequestInv, FreeIds, User, HashPassword, Hash
  <2>3. users' = users \/ (UserUnique(u) /\ CreateUser(u))
    BY <2>1
  <2> QED
    BY <2>2, <2>3
<1>4. ASSUME NEW p \in Procs, Step(p), ~Create(p) PROVE users' = users
  BY <1>4 DEF Step, CacheGet, Lookup, Query, Fill, Land, Resume, Invalidate,
              FindSession, Revoke, Generate, Insert, Emit, Deliver
<1> QED
  BY <1>1, <1>2, <1>3, <1>4 DEF Next

\* No step adds an account whose names another one has.
LEMMA NextAccountsDistinct ==
  ASSUME IInv, AccountsDistinct, [Next]_vars
  PROVE  AccountsDistinct'
<1>1. CASE users' = users
  BY <1>1 DEF AccountsDistinct
<1>2. ASSUME NEW u \in User, UserUnique(u), users[u.id] = None, CreateUser(u)
      PROVE  AccountsDistinct'
  <2>1. users' = [users EXCEPT ![u.id] = u] /\ u.id \in Ids
    BY <1>2 DEF CreateUser, User
  <2> QED
    BY <1>2, <2>1 DEF UserUnique, SameText, AccountsDistinct, IInv, TypeOK,
                      RepositoryTypeOK
<1> QED
  BY <1>1, <1>2, UsersSteps

(***************************************************************************)
(* The cache                                                               *)
(***************************************************************************)

\* A view that is current stays current: rows never change.
LEMMA CacheFrame ==
  ASSUME TypeOK, CacheCoherent, TablesGrow,
         \A k \in Keys : cache'[k] \in {None, cache[k]}
  PROVE  CacheCoherent'
<1> SUFFICES ASSUME NEW k \in Keys, cache'[k] # None
             PROVE  /\ users'[cache'[k].id] # None
                    /\ cache'[k] = toView(users'[cache'[k].id])
                    /\ k \in Ids => cache'[k].id = k
                    /\ k \in Emails => SameText(cache'[k].email, k)
  BY DEF CacheCoherent, toView, SameText
<1>1. cache'[k] = cache[k] /\ cache[k].id \in Ids
  BY DEF TypeOK, View
<1> QED
  BY <1>1 DEF CacheCoherent, TablesGrow

\* Fill stores the row its flight found, under that row's keys.
LEMMA FillCoherent ==
  ASSUME IInv, AInv, NEW p \in Procs, Fill(p)
  PROVE  CacheCoherent'
<1> TypeOK /\ RequestInv(p) /\ LocalInv(p) /\ WantedInv(p) /\ CacheCoherent
  BY DEF IInv, AInv, ProcInv, AnswerInv
<1> DEFINE u == got[p]
<1>1. pc[p] = "fill" /\ users' = users
  BY DEF Fill, At, db
<1>2. u \in User /\ users[u.id] = u /\ Wanted(call[p], u) /\ u # None
  BY <1>1 DEF LocalInv, WantedInv, TypeOK
<1>3. toView(u).id = u.id /\ toView(u).email = u.email
  BY DEF toView
<1>4. ASSUME NEW k \in Keys, k \in FillKeys(p)
      PROVE  /\ k \in Ids => u.id = k
             /\ k \in Emails => SameText(u.email, k)
  <2>1. CASE call[p].op = "GetProfile"
    BY <1>1, <1>2, <1>4, <2>1, ServiceAssumption
       DEF FillKeys, Wanted, RequestInv, Getting, SameText, User
  <2>2. CASE call[p].op # "GetProfile"
    BY <1>1, <1>2, <1>4, <2>2, ServiceAssumption
       DEF FillKeys, Wanted, RequestInv, Getting, SameText, User
  <2> QED
    BY <2>1, <2>2
<1>5. \A k \in Keys : \/ cache'[k] = cache[k]
                      \/ k \in FillKeys(p) /\ cache'[k] = toView(u)
  BY DEF Fill
<1> HIDE DEF u
<1> SUFFICES ASSUME NEW k \in Keys, cache'[k] # None
             PROVE  /\ users'[cache'[k].id] # None
                    /\ cache'[k] = toView(users'[cache'[k].id])
                    /\ k \in Ids => cache'[k].id = k
                    /\ k \in Emails => SameText(cache'[k].email, k)
  BY DEF CacheCoherent, toView, SameText
<1>6. CASE cache'[k] = cache[k]
  BY <1>1, <1>6 DEF CacheCoherent
<1>7. CASE k \in FillKeys(p) /\ cache'[k] = toView(u)
  BY <1>1, <1>2, <1>3, <1>4, <1>7
<1> QED
  BY <1>5, <1>6, <1>7

\* No step leaves a stale view behind, a late fill included.
LEMMA NextCacheCoherent ==
  ASSUME IInv, AInv, [Next]_vars
  PROVE  CacheCoherent'
<1> TypeOK /\ CacheCoherent /\ TablesGrow
  BY NextTablesGrow DEF IInv, AInv
<1>1. ASSUME NEW p \in Procs, Fill(p) PROVE CacheCoherent'
  BY <1>1, FillCoherent
<1>2. ASSUME NEW p \in Procs, Invalidate(p) PROVE CacheCoherent'
  BY <1>2, CacheFrame DEF Invalidate
<1>3. ASSUME NEW k \in Keys, Expire(k) PROVE CacheCoherent'
  BY <1>3, CacheFrame DEF Expire, TypeOK
<1>4. CASE cache' = cache
  BY <1>4, CacheFrame
<1>5. ASSUME NEW p \in Procs, Step(p), ~Fill(p), ~Invalidate(p)
      PROVE  cache' = cache
  BY <1>5 DEF Step, CacheGet, Lookup, Query, Land, Resume, Create, FindSession,
              Revoke, Generate, Insert, Emit, Deliver
<1>6. ASSUME NEW p \in Procs, Arrive(p) PROVE cache' = cache
  BY <1>6 DEF Arrive, Register, Login, GetProfile, RefreshSession, Logout,
              LogoutAnyway, Accept
<1>7. CASE Tick \/ Crash \/ UNCHANGED vars
  BY <1>4, <1>7 DEF Tick, Crash, vars
<1> QED
  BY <1>1, <1>2, <1>3, <1>4, <1>5, <1>6, <1>7 DEF Next

(***************************************************************************)
(* The singleflight group                                                  *)
(***************************************************************************)

\* Steps by which nobody enters or leaves a flight.
LEMMA FlightFrame ==
  ASSUME TypeOK, FlightInv, flight' = flight,
         \A q \in Procs :
           /\ pc'[q] = "wait" <=> pc[q] = "wait"
           /\ pc'[q] \in Leading <=> pc[q] \in Leading
           /\ pc[q] \in Leading \union {"wait"} => call'[q] = call[q]
  PROVE  FlightInv'
BY ServiceAssumption DEF FlightInv, FlightSound, At, Leading, TypeOK

\* singleflight.Do with nobody in flight makes p the leader, else p waits.
LEMMA LookupFlight ==
  ASSUME IInv, FlightInv, NEW p \in Procs, Lookup(p)
  PROVE  FlightInv'
<1> TypeOK /\ RequestInv(p) /\ pc[p] = "lookup" /\ call' = call
  BY DEF IInv, ProcInv, Lookup, At
<1> call[p].key \in Keys
  BY DEF RequestInv, Getting, Keys
<1> USE ServiceAssumption DEF FlightInv, FlightSound, At, Leading, TypeOK
<1>1. CASE /\ flight[call[p].key] = None
           /\ flight' = [flight EXCEPT ![call[p].key] = p]
           /\ pc' = [pc EXCEPT ![p] = "query"]
  BY <1>1
<1>2. CASE /\ flight[call[p].key] # None /\ flight' = flight
           /\ pc' = [pc EXCEPT ![p] = "wait"]
  BY <1>2
<1> QED
  BY <1>1, <1>2 DEF Lookup, Go

\* The end of a flight leaves nobody waiting for it, and touches no other.
LEMMA LandFlight ==
  ASSUME IInv, FlightInv, NEW p \in Procs, Land(p)
  PROVE  FlightInv'
<1> TypeOK /\ RequestInv(p) /\ pc[p] = "land" /\ call' = call
  BY DEF IInv, ProcInv, Land, At
<1> call[p].key \in Keys
  BY DEF RequestInv, Getting, Keys
<1> /\ flight' = [flight EXCEPT ![call[p].key] = None]
    /\ pc' = [q \in Procs |-> IF Lands(p, q) THEN "resume" ELSE pc[q]]
  BY DEF Land
<1> QED
  BY ServiceAssumption DEF FlightInv, FlightSound, At, Leading, TypeOK, Lands

\* Whoever waits for a flight has a live leader, whatever step is taken.
LEMMA NextFlightInv ==
  ASSUME IInv, FlightInv, [Next]_vars
  PROVE  FlightInv'
<1> TypeOK
  BY DEF IInv
<1> USE DEF db, locals, history, At, Go, Finish
<1>1. ASSUME NEW p \in Procs, Arrive(p) PROVE FlightInv'
  <2>1. /\ pc[p] = "idle" /\ flight' = flight
        /\ \E c : call' = [call EXCEPT ![p] = c]
        /\ \E l \in {"done", "lookup", "cacheget", "session"} :
             pc' = [pc EXCEPT ![p] = l]
    BY <1>1 DEF Arrive, Register, Login, GetProfile, RefreshSession, Logout,
                LogoutAnyway, Accept
  <2> QED
    BY <2>1, FlightFrame DEF Leading, TypeOK
<1>2. ASSUME NEW p \in Procs, Step(p) PROVE FlightInv'
  <2>1. CASE Lookup(p)
    BY <2>1, LookupFlight
  <2>2. CASE Land(p)
    BY <2>2, LandFlight
  <2>3. CASE Query(p) \/ Fill(p)
    <3>1. /\ pc[p] \in Leading /\ flight' = flight /\ call' = call
          /\ \E l \in {"fill", "land"} : pc' = [pc EXCEPT ![p] = l]
      BY <2>3 DEF Query, Fill, Leading
    <3> QED
      BY <3>1, FlightFrame DEF Leading, TypeOK
  <2>4. CASE ~(Lookup(p) \/ Land(p) \/ Query(p) \/ Fill(p))
    <3>1. /\ pc[p] \notin Leading \union {"wait"} /\ flight' = flight
          /\ \E c : call' = [call EXCEPT ![p] = c]
          /\ \E l \in Labels \ (Leading \union {"wait"}) :
               pc' = [pc EXCEPT ![p] = l]
      <4> call' = call => \E c : call' = [call EXCEPT ![p] = c]
        BY DEF TypeOK
      <4> USE DEF Leading, Labels
      <4>1. CASE CacheGet(p)
        BY <4>1 DEF CacheGet
      <4>2. CASE Resume(p)
        BY <4>2 DEF Resume
      <4>3. CASE Create(p)
        BY <4>3 DEF Create
      <4>4. CASE Invalidate(p)
        BY <4>4 DEF Invalidate
      <4>5. CASE FindSession(p)
        BY <4>5 DEF FindSession
      <4>6. CASE Revoke(p)
        BY <4>6 DEF Revoke
      <4>7. CASE Generate(p)
        BY <4>7 DEF Generate
      <4>8. CASE Insert(p)
        BY <4>8 DEF Insert
      <4>9. CASE Emit(p)
        BY <4>9 DEF Emit
      <4>10. CASE Deliver(p)
        BY <4>10 DEF Deliver
      <4> QED
        BY <1>2, <2>4, <4>1, <4>2, <4>3, <4>4, <4>5, <4>6, <4>7, <4>8, <4>9,
           <4>10 DEF Step
    <3> QED
      BY <3>1, FlightFrame DEF Leading, TypeOK
  <2> QED
    BY <2>1, <2>2, <2>3, <2>4
<1>3. CASE Tick \/ (\E k \in Keys : Expire(k)) \/ UNCHANGED vars
  BY <1>3, FlightFrame DEF Tick, Expire, vars
<1>4. CASE Crash
  BY <1>4 DEF Crash, FlightInv, FlightSound, Leading
<1> QED
  BY <1>1, <1>2, <1>3, <1>4 DEF Next

(***************************************************************************)
(* Replies and audit events                                                *)
(***************************************************************************)

\* Nothing a goroutine is about to report is undone while others run.
LEMMA AnswerFrame ==
  ASSUME TypeOK, TablesGrow, faults' = 0 => faults = 0,
         NEW q \in Procs, ProcInv(q), AnswerInv(q), SameLocals(q)
  PROVE  AnswerInv(q)'
<1> USE DEF SameLocals
<1> /\ call[q].tok \in Token \union {None} /\ owner[q] \in Ids \union {None}
    /\ newTok[q] \in Token \union {None}
  BY DEF TypeOK, Request
<1>1. WantedInv(q)'
  BY DEF AnswerInv, WantedInv, Wanted, SameText
<1>2. LoginInv(q)'
  BY DEF AnswerInv, LoginInv, SameText, ComparePassword, HashPassword, TablesGrow
<1>3. EmitInv(q)'
  BY DEF AnswerInv, EmitInv, ProcInv, LocalInv, TablesGrow, Revoked
<1>4. ProfileInv(q)'
  BY DEF AnswerInv, ProfileInv, toView, TablesGrow
<1> QED
  BY <1>1, <1>2, <1>3, <1>4 DEF AnswerInv

\* A goroutine that has neither a row, nor passed a check, nor answered OK.
LEMMA AnswerTrivial ==
  ASSUME NEW q \in Procs,
         pc'[q] \notin {"fill", "land", "resume", "generate", "insert", "emit"},
         reply'[q] # "OK"
  PROVE  AnswerInv(q)'
BY DEF AnswerInv, WantedInv, LoginInv, EmitInv, ProfileInv

\* A handler's step gives its own goroutine what it will report.
LEMMA StepAnswerInv ==
  ASSUME IInv, AInv, TypeOK', TablesGrow, NEW p \in Procs, Step(p)
  PROVE  AnswerInv(p)'
<1> USE DEF db, locals, history, At, Go, Finish
<1> /\ TypeOK /\ TableInv /\ RequestInv(p) /\ LocalInv(p) /\ CacheCoherent
    /\ WantedInv(p) /\ LoginInv(p) /\ EmitInv(p) /\ ProfileInv(p)
  BY DEF IInv, ProcInv, AInv, AnswerInv
<1> /\ call[p].tok \in Token \union {None} /\ got[p] \in User \union {None}
    /\ owner[p] \in Ids \union {None} /\ newTok[p] \in Token \union {None}
  BY DEF TypeOK, Request
<1> /\ None # "OK"
  BY ServiceAssumption DEF Replies
<1> USE DEF TypeOK, AnswerInv
<1>1. CASE CacheGet(p)
  <2>1. /\ call[p].op = "GetProfile" /\ call[p].key \in Ids /\ call' = call
        /\ users' = users /\ reply[p] = None
    BY <1>1 DEF CacheGet, RequestInv, Getting
  <2>2. CASE cache[call[p].key] # None /\ pc'[p] = "done"
             /\ got'[p] = toUserRow(cache[call[p].key])
    <3> DEFINE v == cache[call[p].key]
    <3>1. v \in View /\ users[v.id] # None /\ v = toView(users[v.id])
          /\ v.id = call[p].key
      BY <2>1, <2>2 DEF CacheCoherent, Keys
    <3>2. toView(toUserRow(v)) = v /\ toUserRow(v) # None
      BY <3>1, ViewOfCachedRow, NoneIsNoUser
    <3>3. ProfileInv(p)'
      BY <2>1, <2>2, <3>1, <3>2 DEF ProfileInv, toView
    <3> QED
      BY <2>1, <2>2, <3>3 DEF WantedInv, LoginInv, EmitInv
  <2>3. CASE pc'[p] = "lookup" /\ reply' = reply
    BY <2>1, <2>3, AnswerTrivial
  <2> QED
    BY <1>1, <2>2, <2>3 DEF CacheGet
<1>2. CASE Lookup(p)
  BY <1>2, AnswerTrivial DEF Lookup, RequestInv
<1>3. CASE Query(p)
  <2>1. Row(p) # None => Wanted(call[p], Row(p))
    BY <1>3, GetUserByEmailMatches
       DEF Query, Row, GetUserByID, Wanted, RequestInv, Getting, TableInv, UsersKeyed
  <2>2. call' = call /\ reply' = reply /\ reply[p] = None
        /\ got'[p] \in {None, Row(p)} /\ pc'[p] \in {"fill", "land"}
    BY <1>3 DEF Query, RequestInv
  <2> QED
    BY <2>1, <2>2 DEF WantedInv, Wanted, SameText, LoginInv, EmitInv, ProfileInv
<1>4. CASE Fill(p)
  BY <1>4 DEF Fill, RequestInv, WantedInv, Wanted, SameText, LoginInv, EmitInv,
              ProfileInv
<1>5. CASE Land(p)
  <2>1. call' = call /\ reply' = reply /\ reply[p] = None /\ got'[p] = got[p]
        /\ pc'[p] = "resume"
    BY <1>5 DEF Land, Lands, RequestInv
  <2> QED
    BY <1>5, <2>1 DEF Land, WantedInv, Wanted, SameText, LoginInv, EmitInv,
                      ProfileInv
<1>6. CASE Resume(p)
  <2>1. /\ UNCHANGED <<users, sessions, call, got, newTok>> /\ reply[p] = None
        /\ pc[p] = "resume"
    BY <1>6 DEF Resume, RequestInv
  <2>2. got[p] # None => /\ users[got[p].id] = got[p] /\ Wanted(call[p], got[p])
                         /\ got[p].id \in Ids
    BY <2>1 DEF LocalInv, WantedInv, User
  <2>3. CASE call[p].op = "Register"
    BY <1>6, <2>1, <2>3, AnswerTrivial DEF Resume
  <2>4. CASE call[p].op = "Login"
    <3>1. CASE LoginOK(p)
      <4>1. pc'[p] = "generate" /\ reply'[p] = None /\ owner'[p] = got[p].id
            /\ got[p] # None
        BY <1>6, <2>1, <2>4, <3>1 DEF Resume, LoginOK
      <4>2. LoginInv(p)'
        BY <2>1, <2>2, <2>4, <3>1, <4>1, RepositoryAssumption
           DEF LoginInv, LoginOK, Wanted, SameText, ComparePassword, HashPassword
      <4> QED
        BY <2>1, <2>4, <4>1, <4>2 DEF WantedInv, EmitInv, ProfileInv
    <3>2. CASE ~LoginOK(p)
      BY <1>6, <2>4, <3>2, AnswerTrivial DEF Resume
    <3> QED
      BY <3>1, <3>2
  <2>5. CASE call[p].op = "GetProfile"
    <3>1. pc'[p] = "done" /\ call[p].key \in Ids
          /\ (reply'[p] = "OK" => got[p] # None)
      BY <1>6, <2>1, <2>5 DEF Resume, RequestInv, Getting
    <3>2. ProfileInv(p)'
      BY <2>1, <2>2, <2>5, <3>1 DEF ProfileInv, Wanted, toView
    <3> QED
      BY <2>1, <2>5, <3>1, <3>2 DEF WantedInv, LoginInv, EmitInv
  <2> QED
    BY <1>6, <2>3, <2>4, <2>5 DEF Resume
<1>7. CASE Create(p)
  <2>1. call' = call /\ call[p].op = "Register" /\ reply[p] = None
        /\ pc'[p] \in {"invalidate", "emit", "done"}
    BY <1>7 DEF Create, RequestInv
  <2> QED
    BY <2>1 DEF WantedInv, LoginInv, EmitInv, ProfileInv
<1>8. CASE Invalidate(p)
  <2>1. call' = call /\ call[p].op = "Register" /\ pc'[p] = "emit"
    BY <1>8 DEF Invalidate, RequestInv
  <2> QED
    BY <2>1 DEF WantedInv, LoginInv, EmitInv, ProfileInv
<1>9. CASE FindSession(p)
  <2>1. call' = call /\ call[p].op \in {"RefreshSession", "Logout"}
        /\ pc'[p] \in {"revoke", "done"}
    BY <1>9 DEF FindSession, RequestInv
  <2> QED
    BY <2>1 DEF WantedInv, LoginInv, EmitInv, ProfileInv
<1>10. CASE Revoke(p)
  <2>1. call[p].tok \in Token /\ sessions[call[p].tok] # None
    BY <1>10 DEF Revoke, LocalInv
  <2>2. call' = call /\ call[p].op \in {"RefreshSession", "Logout"}
        /\ pc'[p] \in {"emit", "generate", "done"}
        /\ (pc'[p] = "emit" => call[p].op = "Logout")
    BY <1>10 DEF Revoke, RequestInv
  <2>3. faults' = 0 => RevokeSession(call[p].tok)
    BY <1>10 DEF Revoke, Charge, Outcomes
  <2>4. sessions'[call[p].tok] # None
    BY <2>1 DEF TablesGrow
  <2>5. faults' = 0 => Revoked(call[p].tok)'
    BY <2>1, <2>2, <2>3, RevokeSessionRow, RepositoryAssumption DEF Revoked
  <2> QED
    BY <2>1, <2>2, <2>4, <2>5, RepositoryAssumption
       DEF WantedInv, LoginInv, EmitInv, ProfileInv
<1>11. CASE Generate(p)
  <2>1. UNCHANGED <<users, sessions, call, owner>> /\ reply[p] = None
        /\ pc[p] = "generate" /\ call[p].op \in {"Login", "RefreshSession"}
        /\ \/ pc'[p] = "insert" /\ reply'[p] = None
           \/ pc'[p] = "done" /\ reply'[p] = "Internal"
    BY <1>11 DEF Generate, RequestInv
  <2> QED
    BY <2>1 DEF WantedInv, LoginInv, EmitInv, ProfileInv, SameText, ComparePassword,
                HashPassword
<1>12. CASE Insert(p)
  <2>1. UNCHANGED <<users, call, owner, newTok>> /\ reply[p] = None
        /\ pc[p] = "insert" /\ call[p].op \in {"Login", "RefreshSession"}
        /\ newTok[p] \in Token /\ newTok[p].sub = owner[p]
    BY <1>12 DEF Insert, RequestInv, LocalInv
  <2>2. \/ /\ pc'[p] = "emit" /\ reply'[p] = None
           /\ sessions'[newTok[p]].user = owner[p]
           /\ sessions'[newTok[p]].from = call[p].tok
        \/ pc'[p] = "done" /\ reply'[p] = "Internal"
    BY <1>12, <2>1 DEF Insert, Committed, CreateSession, RepositoryTypeOK
  <2> QED
    BY <2>1, <2>2 DEF WantedInv, LoginInv, EmitInv, ProfileInv, SameText,
                      ComparePassword, HashPassword
<1>13. CASE Emit(p)
  <2>1. UNCHANGED <<users, call, owner, newTok, got>> /\ pc[p] = "emit"
        /\ pc'[p] = "done"
    BY <1>13 DEF Emit
  <2> QED
    BY <2>1 DEF WantedInv, LoginInv, EmitInv, ProfileInv, SameText,
                ComparePassword, HashPassword
<1>14. CASE Deliver(p)
  BY <1>14, AnswerTrivial DEF Deliver
<1> QED
  BY <1>1, <1>2, <1>3, <1>4, <1>5, <1>6, <1>7, <1>8, <1>9, <1>10, <1>11,
     <1>12, <1>13, <1>14 DEF Step

\* The goroutines p's step does not belong to: Land hands its row to those
\* that wait, and they asked for the same key.
LEMMA OthersAnswerInv ==
  ASSUME IInv, AInv, TablesGrow, faults' = 0 => faults = 0,
         NEW p \in Procs, Step(p), NEW q \in Procs, q # p
  PROVE  AnswerInv(q)'
<1> USE DEF db, locals, history, At, Go, Finish
<1> TypeOK /\ ProcInv(p) /\ ProcInv(q) /\ AnswerInv(p) /\ AnswerInv(q)
  BY DEF IInv, AInv
<1>1. CASE SameLocals(q)
  BY <1>1, AnswerFrame
<1>2. CASE Land(p) /\ pc[q] = "wait" /\ call[q].key = call[p].key
  <2>1. /\ pc[p] = "land" /\ pc'[q] = "resume" /\ got'[q] = got[p]
        /\ call' = call /\ reply' = reply /\ reply[q] = None
    BY <1>2 DEF Land, Lands, TypeOK, ProcInv, RequestInv
  <2>2. got[p] # None => Wanted(call[q], got[p])
    BY <1>2, <2>1, SameKeySameRow DEF ProcInv, AnswerInv, WantedInv, Getting
  <2> None # "OK"
    BY ServiceAssumption DEF Replies
  <2> QED
    BY <2>1, <2>2 DEF AnswerInv, WantedInv, Wanted, SameText, LoginInv, EmitInv,
                      ProfileInv
<1>3. CASE Land(p) /\ ~(pc[q] = "wait" /\ call[q].key = call[p].key)
  BY <1>1, <1>3 DEF Land, Lands, TypeOK, SameLocals
<1>4. CASE ~Land(p)
  BY <1>1, <1>4 DEF Step, CacheGet, Lookup, Query, Fill, Resume, Create,
                    Invalidate, FindSession, Revoke, Generate, Insert, Emit,
                    Deliver, TypeOK, SameLocals
<1> QED
  BY <1>2, <1>3, <1>4

\* A request that arrives has nothing to report yet.
LEMMA ArriveAnswerInv ==
  ASSUME IInv, AInv, TablesGrow, faults' = 0 => faults = 0,
         NEW p \in Procs, Arrive(p), NEW q \in Procs
  PROVE  AnswerInv(q)'
<1> USE DEF db, locals, history, At, Go, Finish
<1> TypeOK /\ ProcInv(p) /\ ProcInv(q) /\ AnswerInv(q)
  BY DEF IInv, AInv
<1>1. /\ pc[p] = "idle" /\ UNCHANGED <<got, owner, newTok>>
      /\ \E c : call' = [call EXCEPT ![p] = c]
      /\ \E l \in {"done", "lookup", "cacheget", "session"} :
           pc' = [pc EXCEPT ![p] = l]
      /\ \/ reply' = reply
         \/ \E r \in Replies \ {"OK"} : reply' = [reply EXCEPT ![p] = r]
  BY DEF Arrive, Register, Login, GetProfile, RefreshSession, Logout,
         LogoutAnyway, Accept, Replies
<1>2. CASE q # p
  BY <1>1, <1>2, AnswerFrame DEF TypeOK, SameLocals
<1>3. CASE q = p
  <2> None # "OK" /\ reply[p] = None
    BY <1>1, ServiceAssumption DEF Replies, ProcInv, RequestInv
  <2> QED
    BY <1>1, <1>3, AnswerTrivial DEF TypeOK
<1> QED
  BY <1>2, <1>3

\* Every step keeps the second invariant, given the first.
LEMMA NextAInv == IInv /\ AInv /\ [Next]_vars => AInv'
<1> SUFFICES ASSUME IInv, AInv, [Next]_vars PROVE AInv'
  OBVIOUS
<1>1. TypeOK' /\ TablesGrow /\ (faults' = 0 => faults = 0)
  BY NextIInv, NextTablesGrow, FaultsGrow DEF IInv
<1>2. AccountsDistinct' /\ CacheCoherent' /\ FlightInv'
  BY NextAccountsDistinct, NextCacheCoherent, NextFlightInv DEF AInv
<1>3. ASSUME NEW q \in Procs PROVE AnswerInv(q)'
  <2>1. ASSUME NEW p \in Procs, Arrive(p) PROVE AnswerInv(q)'
    BY <1>1, <2>1, ArriveAnswerInv
  <2>2. ASSUME NEW p \in Procs, Step(p) PROVE AnswerInv(q)'
    BY <1>1, <2>2, StepAnswerInv, OthersAnswerInv
  <2>3. CASE Tick \/ (\E k \in Keys : Expire(k)) \/ UNCHANGED vars
    BY <1>1, <2>3, AnswerFrame
       DEF Tick, Expire, vars, locals, SameLocals, IInv, AInv
  <2>4. CASE Crash
    BY <2>4, AnswerTrivial, ServiceAssumption DEF Crash, Replies
  <2> QED
    BY <2>1, <2>2, <2>3, <2>4 DEF Next
<1> QED
  BY <1>2, <1>3 DEF AInv

\* The second invariant holds of the seeded table and the empty cache.
LEMMA InitAInv == Init => AInv
<1> SUFFICES ASSUME Init PROVE AInv
  OBVIOUS
<1>1. AccountsDistinct
  BY SeedAssumption DEF Init, AccountsDistinct
<1>2. CacheCoherent /\ FlightInv
  BY DEF Init, CacheCoherent, FlightInv, FlightSound, At, Leading
<1>3. \A p \in Procs : AnswerInv(p)
  BY ServiceAssumption
     DEF Init, AnswerInv, WantedInv, LoginInv, EmitInv, ProfileInv, Replies
<1> QED
  BY <1>1, <1>2, <1>3 DEF AInv

(***************************************************************************)
(* Theorems                                                                *)
(***************************************************************************)

\* Both invariants hold in every reachable state.
LEMMA AnswersInductive == Spec => [](IInv /\ AInv)
BY InitIInv, InitAInv, NextIInv, NextAInv, PTL DEF Spec

\* However many registrations race, and whatever they lose, no two accounts
\* have the same email or the same username up to case.
THEOREM AccountsStayDistinct == Spec => []AccountsDistinct
<1>1. AInv => AccountsDistinct
  BY DEF AInv
<1> QED
  BY <1>1, AnswersInductive, PTL

\* Redis never holds anything but the current row of a key, though fills are
\* late, deletes fail and the process crashes between the two.
THEOREM CacheStaysCoherent == Spec => []CacheCoherent
<1>1. AInv => CacheCoherent
  BY DEF AInv
<1> QED
  BY <1>1, AnswersInductive, PTL

\* Nobody waits for a flight that no live goroutine leads.
THEOREM FlightsHaveLeaders == Spec => []FlightSound
<1>1. AInv => FlightSound
  BY DEF AInv, FlightInv
<1> QED
  BY <1>1, AnswersInductive, PTL

\* GetProfile answers with the account it was asked for, from the cache, from
\* its own query or from a flight another caller led.
THEOREM ProfilesFaithful == Spec => []ProfileFaithful
<1>1. AInv => ProfileFaithful
  BY DEF AInv, AnswerInv, ProfileInv, ProfileFaithful
<1> QED
  BY <1>1, AnswersInductive, PTL

\* A login that answers OK was for the account of its email, with the password
\* of that account, and issued a session of that account.
THEOREM LoginsAuthentic == Spec => []LoginAuthentic
<1>1. IInv /\ AInv => LoginAuthentic
  BY DEF IInv, ProcInv, LocalInv, AInv, AnswerInv, LoginInv, LoginAuthentic
<1> QED
  BY <1>1, AnswersInductive, PTL

\* What handlers hand to the audit service is already in the tables: the account
\* registered, the session opened, the rotation done; and, as long as no call
\* failed, the revocation that a logout reports.
THEOREM AuditNeverAhead == Spec => []AuditTruthful
<1>1. IInv /\ AInv => AuditTruthful
  <2> SUFFICES ASSUME IInv, AInv, NEW p \in Procs, At(p, "emit")
               PROVE  EventTrue(EventOf(p))
    BY DEF AuditTruthful
  <2> /\ TypeOK /\ TableInv /\ RequestInv(p) /\ LocalInv(p) /\ EmitInv(p)
      /\ pc[p] = "emit"
    BY DEF IInv, ProcInv, AInv, AnswerInv, At
  <2>1. CASE call[p].op = "Register"
    <3>1. got[p] \in User /\ users[got[p].id] # None
      BY <2>1, NoneIsNoUser DEF LocalInv, TypeOK
    <3> QED
      BY <2>1, <3>1 DEF EventOf, EventTrue
  <2>2. CASE call[p].op = "Login"
    BY <2>2 DEF EventOf, EventTrue, LocalInv, EmitInv, RequestInv
  <2>3. CASE call[p].op = "RefreshSession"
    <3>1. newTok[p] # None /\ newTok[p] \in Token /\ sessions[newTok[p]] # None
          /\ sessions[newTok[p]].from # None
      BY <2>3 DEF LocalInv, EmitInv, RequestInv, TypeOK
    <3>2. Revoked(sessions[newTok[p]].from)
      BY <3>1 DEF TableInv, RotationRevokesParent
    <3> QED
      BY <2>3, <3>1, <3>2 DEF EventOf, EventTrue, EmitInv
  <2>4. CASE call[p].op = "Logout"
    BY <2>4 DEF EventOf, EventTrue, EmitInv
  <2>5. call[p].op \in AllOps
    BY DEF TypeOK, Request
  <2> QED
    BY <2>1, <2>2, <2>3, <2>4, <2>5 DEF EmitInv, AllOps
<1> QED
  BY <1>1, AnswersInductive, PTL

\* While nothing has failed, Logout's OK means that the session of the token a
\* client presented is revoked.
THEOREM LogoutEndsSession == Spec => LogoutRevokes
<1> DEFINE A == \A p \in Procs :
       /\ reply[p] = None /\ reply'[p] = "OK" /\ faults' = 0
       /\ call'[p].op = "Logout" /\ call'[p].tok \in delivered
       => Revoked(call[p].tok)'
<1>1. IInv /\ AInv /\ [Next]_vars => A
  <2> SUFFICES ASSUME IInv, AInv, [Next]_vars, NEW p \in Procs, reply[p] = None,
                      reply'[p] = "OK", faults' = 0, call'[p].op = "Logout",
                      call'[p].tok \in delivered
               PROVE  Revoked(call[p].tok)'
    OBVIOUS
  <2> USE DEF At, Go, Finish, db, locals, history
  <2> TypeOK /\ TableInv /\ RequestInv(p) /\ EmitInv(p) /\ None # "OK"
    BY ServiceAssumption DEF IInv, ProcInv, AInv, AnswerInv, Replies
  <2>1. Emit(p) \/ FindSession(p)
    <3>1. ASSUME NEW q \in Procs, Arrive(q) PROVE FALSE
      BY <3>1 DEF Arrive, Register, Login, GetProfile, RefreshSession, Logout,
                  LogoutAnyway, Accept, TypeOK
    <3>2. CASE Tick \/ (\E k \in Keys : Expire(k)) \/ Crash \/ UNCHANGED vars
      BY <3>2 DEF Tick, Expire, Crash, vars
    <3>3. ASSUME NEW q \in Procs, Step(q) PROVE Emit(p) \/ FindSession(p)
      <4>1. CASE q # p
        BY <3>3, <4>1 DEF Step, CacheGet, Lookup, Query, Fill, Land, Resume,
                          Create, Invalidate, FindSession, Revoke, Generate,
                          Insert, Emit, Deliver, TypeOK
      <4>2. CASE q = p
        BY <3>3, <4>2 DEF Step, CacheGet, Lookup, Query, Fill, Land, Resume,
                          Create, Invalidate, Revoke, Generate, Insert, Deliver,
                          TypeOK, RequestInv
      <4> QED
        BY <4>1, <4>2
    <3> QED
      BY <3>1, <3>2, <3>3 DEF Next
  <2>2. CASE Emit(p)
    BY <2>2, FaultsGrow DEF Emit, EmitInv, Revoked
  <2>3. CASE FindSession(p)
    <3>1. call[p].tok \in delivered /\ call[p].tok # None
          /\ sessions[call[p].tok] # None
      BY <2>3, RepositoryAssumption
         DEF FindSession, TypeOK, TableInv, AcknowledgedIsStored
    <3>2. GetSessionByTokenHash(call[p].tok) # None
      BY <3>1 DEF GetSessionByTokenHash
    <3> QED
      BY <2>3, <3>2 DEF FindSession, Charge, TypeOK
  <2> QED
    BY <2>1, <2>2, <2>3
<1>2. IInv /\ AInv /\ [Next]_vars => [A]_vars
  BY <1>1
<1> QED
  BY <1>2, AnswersInductive, PTL DEF Spec, LogoutRevokes
====
