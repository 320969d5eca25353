---- MODULE UserServiceProofs ----
(***************************************************************************)
(* Proofs about UserService, for every set of users, goroutines, names and *)
(* passwords, every clock bound and every number of faults.                *)
(*                                                                         *)
(* The invariant the theorems follow from has a part about the two tables  *)
(* and a part about each goroutine: what it already established when it is *)
(* at a given label.  Both survive the steps of OTHER goroutines because   *)
(* the tables only grow: rows are added, never changed or removed, except  *)
(* that a session turns revoked.                                           *)
(***************************************************************************)
EXTENDS UserService, TLAPS

UsersKeyed == \A i \in Ids : users[i] # None => users[i].id = i

\* Tokens were signed at a second the clock can show.
DeliveredDated == \A t \in delivered : t.exp >= RefreshTTL

TableInv ==
  /\ UsersKeyed /\ SessionMatchesToken /\ RotationRevokesParent
  /\ AcknowledgedIsStored /\ DeliveredDated

\* The request a goroutine at a given label can be serving.
Getting == {"cacheget", "lookup", "wait", "query", "fill", "land", "resume"}
RequestInv(p) ==
  /\ pc[p] \in Getting =>
       \/ call[p].op = "GetProfile" /\ call[p].key \in Ids
       \/ call[p].op = "Login" /\ call[p].key \in Emails
       \/ /\ call[p].op = "Register" /\ call[p].key \in Emails
          /\ call[p].username \in Usernames /\ call[p].pw \in Passwords
  /\ pc[p] = "cacheget" => call[p].op = "GetProfile"
  /\ pc[p] \in {"create", "invalidate"} =>
       /\ call[p].op = "Register" /\ call[p].key \in Emails
       /\ call[p].username \in Usernames /\ call[p].pw \in Passwords
  /\ pc[p] \in {"session", "revoke"} => call[p].op \in {"RefreshSession", "Logout"}
  /\ pc[p] \in {"generate", "insert"} => call[p].op \in {"Login", "RefreshSession"}
  /\ call[p].op = "Login" => call[p].tok = None
  /\ call[p].op = "RefreshSession" /\ pc[p] # "done" => call[p].tok # None
  /\ pc[p] # "done" => reply[p] = None

\* What a goroutine holds in its locals agrees with the tables.
LocalInv(p) ==
  /\ pc[p] \in {"fill", "land", "resume"} /\ got[p] # None =>
       users[got[p].id] = got[p]
  /\ pc[p] = "fill" => got[p] # None
  /\ pc[p] = "invalidate" => got[p] # None /\ users[got[p].id] = got[p]
  /\ pc[p] = "revoke" =>
       /\ call[p].tok # None /\ sessions[call[p].tok] # None
       /\ owner[p] = sessions[call[p].tok].user
  /\ pc[p] \in {"generate", "insert"} =>
       /\ owner[p] # None /\ users[owner[p]] # None
       /\ call[p].op = "RefreshSession" =>
            Revoked(call[p].tok) /\ owner[p] = call[p].tok.sub
  /\ pc[p] = "insert" => newTok[p] # None /\ newTok[p].sub = owner[p]
  /\ newTok[p] # None => newTok[p].exp >= RefreshTTL
  /\ pc[p] = "emit" \/ reply[p] = "OK" =>
       /\ call[p].op \in {"Login", "RefreshSession"} =>
            newTok[p] # None /\ sessions[newTok[p]] # None
       /\ call[p].op = "Register" => got[p] # None /\ users[got[p].id] = got[p]

\* A refresh request that arrived with a revoked token.
SpentInv(p) ==
  call[p].op = "RefreshSession" /\ call[p].spent =>
    /\ Revoked(call[p].tok)
    /\ pc[p] \in {"session", "done"}
    /\ reply[p] \in {None, "InvalidCredentials"}

ProcInv(p) == RequestInv(p) /\ LocalInv(p) /\ SpentInv(p)

IInv == TypeOK /\ TableInv /\ \A p \in Procs : ProcInv(p)

\* What no step undoes in the tables.
TablesGrow ==
  /\ \A i \in Ids : users[i] # None => users'[i] = users[i]
  /\ \A t \in Token : sessions[t] # None =>
       /\ sessions'[t] # None
       /\ sessions'[t].user = sessions[t].user
       /\ sessions'[t].from = sessions[t].from
       /\ sessions[t].revoked => sessions'[t].revoked

\* The part of the state that belongs to goroutine q stays as it is.
SameLocals(q) ==
  /\ pc'[q] = pc[q] /\ call'[q] = call[q] /\ got'[q] = got[q]
  /\ owner'[q] = owner[q] /\ newTok'[q] = newTok[q] /\ reply'[q] = reply[q]

(***************************************************************************)
(* Operators                                                               *)
(***************************************************************************)

\* The tokens Generate signs within the clock's bound are tokens.
LEMMA TokenTypes ==
  ASSUME NEW u \in Ids, NEW t \in Time
  PROVE  RefreshToken(u, t) \in Token /\ AccessToken(u, t) \in Token
BY TokenAssumption DEF RefreshToken, AccessToken, Token, Horizon, Time

\* What a client can present is a token, or no token at all.
LEMMA PresentableTypes ==
  ASSUME delivered \subseteq Token, DeliveredDated
  PROVE  Presentable \subseteq Token \union {None}
<1> SUFFICES ASSUME NEW t \in delivered PROVE PairedAccess(t) \in Token
  BY DEF Presentable
<1> QED
  BY TokenAssumption DEF DeliveredDated, PairedAccess, AccessToken, Token, Horizon

\* GetUserByEmail returns a row of the table, under its own key, or nothing.
LEMMA GetUserByEmailRow ==
  ASSUME TypeOK, UsersKeyed, NEW e
  PROVE  /\ GetUserByEmail(e) \in User \union {None}
         /\ GetUserByEmail(e) # None => users[GetUserByEmail(e).id] = GetUserByEmail(e)
<1>1. CASE WithEmail(e) = {}
  BY <1>1 DEF GetUserByEmail
<1>2. CASE WithEmail(e) # {}
  <2> DEFINE i == CHOOSE id \in WithEmail(e) : TRUE
  <2>1. i \in WithEmail(e)
    BY <1>2
  <2>2. i \in Ids /\ users[i] # None
    BY <2>1 DEF WithEmail
  <2>3. GetUserByEmail(e) = users[i]
    BY <1>2 DEF GetUserByEmail
  <2> HIDE DEF i
  <2> QED
    BY <2>2, <2>3 DEF TypeOK, RepositoryTypeOK, UsersKeyed
<1> QED
  BY <1>1, <1>2

\* What RevokeSession does to the row it names and to the others.
LEMMA RevokeSessionRow ==
  ASSUME RepositoryTypeOK, NEW tok \in Token, sessions[tok] # None,
         RevokeSession(tok)
  PROVE  /\ sessions' \in [Token -> Session \union {None}]
         /\ sessions'[tok] # None
         /\ sessions'[tok].user = sessions[tok].user
         /\ sessions'[tok].exp = sessions[tok].exp
         /\ sessions'[tok].from = sessions[tok].from
         /\ sessions'[tok].revoked
         /\ \A t \in Token \ {tok} : sessions'[t] = sessions[t]
<1> DEFINE s == sessions[tok]
           r == [s EXCEPT !.revoked = TRUE]
<1>1. s \in Session
  BY DEF RepositoryTypeOK
<1>2. r \in Session
  BY <1>1 DEF Session
<1>3. r.user = s.user /\ r.exp = s.exp /\ r.from = s.from /\ r.revoked = TRUE
  BY <1>1 DEF Session
<1>4. sessions' = [sessions EXCEPT ![tok] = r]
  BY DEF RevokeSession
<1> HIDE DEF r, s
<1> QED
  BY <1>2, <1>3, <1>4, NoneIsNoSession DEF RepositoryTypeOK, s

(***************************************************************************)
(* Typing                                                                  *)
(***************************************************************************)

\* The empty service over the seeded table is well typed.
LEMMA InitTypeOK == Init => TypeOK
BY TokenAssumption, ServiceAssumption, SeedAssumption
   DEF Init, TypeOK, RepositoryTypeOK, Time, Labels, NoRequest, AboutToken, Request, AllOps

\* A request enters: only pc, call and reply change.
LEMMA AcceptTypeOK ==
  ASSUME TypeOK, NEW p \in Procs, NEW c \in Request, Accept(p, c),
         (\E r \in Replies : Finish(p, r)) \/ (\E l \in Labels : Go(p, l))
  PROVE  TypeOK'
BY DEF TypeOK, RepositoryTypeOK, Accept, Finish, Go, At, db, locals, history, Labels

\* A request of any RPC, valid or not, keeps the types.
LEMMA ArriveTypeOK ==
  ASSUME IInv, NEW p \in Procs, Arrive(p)
  PROVE  TypeOK'
<1> USE DEF Replies, Labels
<1> TypeOK /\ Presentable \subseteq Token \union {None}
  BY PresentableTypes DEF IInv, TableInv, TypeOK
<1>1. ASSUME NEW e \in Emails \union {None}, NEW n \in Usernames,
             NEW w \in Passwords, Register(p, e, n, w)
      PROVE  TypeOK'
  <2> DEFINE c == AboutUser("Register", e, n, w)
  <2>1. c \in Request
    BY DEF AboutUser, AboutToken, Request, AllOps, Keys
  <2> QED
    BY <1>1, <2>1, AcceptTypeOK DEF Register
<1>2. ASSUME NEW e \in Emails, NEW w \in Passwords, Login(p, e, w)
      PROVE  TypeOK'
  <2> DEFINE c == AboutUser("Login", e, None, w)
  <2>1. c \in Request
    BY DEF AboutUser, AboutToken, Request, AllOps, Keys
  <2> QED
    BY <1>2, <2>1, AcceptTypeOK DEF Login
<1>3. ASSUME NEW id \in Ids \union {None}, GetProfile(p, id)
      PROVE  TypeOK'
  <2> DEFINE c == AboutUser("GetProfile", id, None, None)
  <2>1. c \in Request
    BY DEF AboutUser, AboutToken, Request, AllOps, Keys
  <2> QED
    BY <1>3, <2>1, AcceptTypeOK DEF GetProfile
<1>4. ASSUME NEW tok \in Presentable, RefreshSession(p, tok)
      PROVE  TypeOK'
  <2> DEFINE c == AboutToken("RefreshSession", tok, Revoked(tok))
  <2>1. c \in Request
    BY DEF AboutUser, AboutToken, Request, AllOps, Keys, Revoked
  <2> QED
    BY <1>4, <2>1, AcceptTypeOK DEF RefreshSession
<1>5. ASSUME NEW tok \in Presentable, Logout(p, tok)
      PROVE  TypeOK'
  <2> DEFINE c == AboutToken("Logout", tok, Revoked(tok))
  <2>1. c \in Request
    BY DEF AboutUser, AboutToken, Request, AllOps, Keys, Revoked
  <2> QED
    BY <1>5, <2>1, AcceptTypeOK DEF Logout, LogoutAnyway
<1> QED
  BY <1>1, <1>2, <1>3, <1>4, <1>5 DEF Arrive

\* A bounded number of failures.
LEMMA ChargeType ==
  ASSUME faults \in 0 .. MaxFaults, NEW o, Charge(o)
  PROVE  faults' \in 0 .. MaxFaults
BY ServiceAssumption DEF Charge

\* The row Insert writes is a session.
LEMMA NewSessionType ==
  ASSUME TypeOK, NEW p \in Procs, LocalInv(p), pc[p] = "insert",
         NEW x \in RowExpiries(p)
  PROVE  [user |-> owner[p], exp |-> x, revoked |-> FALSE,
          from |-> call[p].tok] \in Session
BY TokenAssumption
   DEF RowExpiries, LocalInv, TypeOK, Session, Request, Token, Horizon, Time

\* Every step of a handler keeps the types.
LEMMA StepTypeOK ==
  ASSUME IInv, NEW p \in Procs, Step(p)
  PROVE  TypeOK'
<1> USE DEF Replies, Labels, At, Go, Finish, db, locals, history
<1> TypeOK /\ RequestInv(p) /\ LocalInv(p) /\ UsersKeyed
  BY DEF IInv, ProcInv, TableInv
<1>1. CASE CacheGet(p)
  <2> cache[call[p].key] # None => toUserRow(cache[call[p].key]) \in User
    BY <1>1 DEF CacheGet, TypeOK, toUserRow, View, User, NoHash, Hash,
                RequestInv, Getting, Keys
  <2> QED
    BY <1>1 DEF CacheGet, TypeOK, RepositoryTypeOK
<1>2. CASE Lookup(p)
  BY <1>2 DEF Lookup, TypeOK, RepositoryTypeOK
<1>3. CASE Query(p)
  <2>1. Row(p) \in User \union {None}
    BY <1>3, GetUserByEmailRow
       DEF Query, Row, RequestInv, Getting, GetUserByID, TypeOK, RepositoryTypeOK
  <2>2. faults' \in 0 .. MaxFaults
    BY <1>3, ChargeType DEF Query, TypeOK
  <2> QED
    BY <1>3, <2>1, <2>2 DEF Query, TypeOK, RepositoryTypeOK
<1>4. CASE Fill(p)
  <2>1. toView(got[p]) \in View
    BY <1>4 DEF Fill, toView, View, LocalInv, TypeOK, User
  <2> QED
    BY <1>4, <2>1 DEF Fill, TypeOK, RepositoryTypeOK
<1>5. CASE Land(p)
  BY <1>5 DEF Land, TypeOK, RepositoryTypeOK
<1>6. CASE Resume(p)
  BY <1>6 DEF Resume, LoginOK, TypeOK, RepositoryTypeOK, User
<1>7. CASE Create(p)
  <2>1. PICK id \in FreeIds, o \in Outcomes :
          LET u == [id |-> id, email |-> call[p].key,
                    username |-> call[p].username,
                    hash |-> HashPassword(call[p].pw)]
          IN /\ Charge(o)
             /\ users' = users \/ users' = [users EXCEPT ![u.id] = u]
             /\ got' = got \/ got' = [got EXCEPT ![p] = u]
             /\ (\E l \in Labels : Go(p, l)) \/ (\E r \in Replies : Finish(p, r))
    BY <1>7 DEF Create, CreateUser
  <2> DEFINE u == [id |-> id, email |-> call[p].key,
                   username |-> call[p].username,
                   hash |-> HashPassword(call[p].pw)]
  <2>2. u \in User
    BY <1>7 DEF Create, RequestInv, FreeIds, User, HashPassword, Hash
  <2>3. users' \in [Ids -> User \union {None}]
    BY <2>1, <2>2 DEF TypeOK, RepositoryTypeOK
  <2>4. got' \in [Procs -> User \union {None}]
    BY <2>1, <2>2 DEF TypeOK
  <2>5. pc' \in [Procs -> Labels] /\ reply' \in [Procs -> Replies \union {None}]
    BY <2>1 DEF TypeOK
  <2>6. faults' \in 0 .. MaxFaults
    BY <2>1, ChargeType DEF TypeOK
  <2> QED
    BY <1>7, <2>3, <2>4, <2>5, <2>6 DEF Create, TypeOK, RepositoryTypeOK
<1>8. CASE Invalidate(p)
  BY <1>8 DEF Invalidate, TypeOK, RepositoryTypeOK
<1>9. CASE FindSession(p)
  <2>1. GetSessionByTokenHash(call[p].tok) \in Session \union {None}
    BY DEF GetSessionByTokenHash, TypeOK, RepositoryTypeOK, Request
  <2>2. faults' \in 0 .. MaxFaults
    BY <1>9, ChargeType DEF FindSession, TypeOK
  <2>3. owner' \in [Procs -> Ids \union {None}]
    BY <1>9, <2>1 DEF FindSession, TypeOK, Session
  <2>4. pc' \in [Procs -> Labels] /\ reply' \in [Procs -> Replies \union {None}]
    BY <1>9 DEF FindSession, TypeOK
  <2> QED
    BY <1>9, <2>2, <2>3, <2>4 DEF FindSession, TypeOK, RepositoryTypeOK
<1>10. CASE Revoke(p)
  <2>1. faults' \in 0 .. MaxFaults
    BY <1>10, ChargeType DEF Revoke, TypeOK
  <2>2. sessions' \in [Token -> Session \union {None}]
    BY <1>10, RevokeSessionRow DEF Revoke, LocalInv, TypeOK, RepositoryTypeOK,
                                   Request
  <2> QED
    BY <1>10, <2>1, <2>2 DEF Revoke, TypeOK, RepositoryTypeOK
<1>11. CASE Generate(p)
  <2>1. Subject(p) \in Ids
    BY <1>11 DEF Generate, Subject, LocalInv, RequestInv, TypeOK, Request, Token
  <2>2. RefreshToken(Subject(p), now) \in Token
    BY <2>1, TokenTypes DEF TypeOK
  <2>3. faults' \in 0 .. MaxFaults
    BY <1>11, ChargeType DEF Generate, TypeOK
  <2> QED
    BY <1>11, <2>2, <2>3 DEF Generate, TypeOK, RepositoryTypeOK
<1>12. CASE Insert(p)
  <2>1. faults' \in 0 .. MaxFaults
    BY <1>12, ChargeType DEF Insert, TypeOK
  <2>2. ASSUME NEW x \in RowExpiries(p)
        PROVE  [user |-> owner[p], exp |-> x, revoked |-> FALSE,
                from |-> call[p].tok] \in Session
    BY <1>12, NewSessionType DEF Insert
  <2>3. sessions' \in [Token -> Session \union {None}]
    BY <1>12, <2>2 DEF Insert, CreateSession, LocalInv, TypeOK, RepositoryTypeOK
  <2> QED
    BY <1>12, <2>1, <2>3 DEF Insert, TypeOK, RepositoryTypeOK
<1>13. CASE Emit(p)
  BY <1>13 DEF Emit, TypeOK, RepositoryTypeOK
<1>14. CASE Deliver(p)
  <2>1. TokensIn(p) \subseteq Token /\ AccountsIn(p) \subseteq User
    BY <1>14 DEF TokensIn, AccountsIn, LocalInv, TypeOK
  <2>2. NoRequest \in Request
    BY DEF NoRequest, AboutToken, Request, AllOps
  <2> QED
    BY <1>14, <2>1, <2>2 DEF Deliver, TypeOK, RepositoryTypeOK
<1> QED
  BY <1>1, <1>2, <1>3, <1>4, <1>5, <1>6, <1>7, <1>8, <1>9, <1>10, <1>11,
     <1>12, <1>13, <1>14 DEF Step

\* The clock, cache expiry and a crash keep the types.
LEMMA EnvironmentTypeOK ==
  ASSUME TypeOK, Tick \/ (\E k \in Keys : Expire(k)) \/ Crash
  PROVE  TypeOK'
<1> USE DEF db, locals, history, TypeOK, RepositoryTypeOK
<1>1. CASE Tick
  BY <1>1, TokenAssumption DEF Tick, Time
<1>2. CASE \E k \in Keys : Expire(k)
  BY <1>2 DEF Expire
<1>3. CASE Crash
  BY <1>3, ServiceAssumption
     DEF Crash, Labels, NoRequest, AboutToken, Request, AllOps
<1> QED
  BY <1>1, <1>2, <1>3

(***************************************************************************)
(* The tables only grow                                                    *)
(***************************************************************************)

\* A handler's step takes no row away and un-revokes no session.
LEMMA StepTablesGrow ==
  ASSUME IInv, NEW p \in Procs, Step(p)
  PROVE  TablesGrow
<1> USE DEF db
<1> TypeOK /\ RequestInv(p) /\ LocalInv(p)
  BY DEF IInv, ProcInv
<1>1. CASE Create(p)
  BY <1>1 DEF Create, CreateUser, FreeIds, TablesGrow, TypeOK, RepositoryTypeOK
<1>2. CASE Revoke(p)
  <2>1. call[p].tok \in Token /\ sessions[call[p].tok] # None
    BY <1>2 DEF Revoke, At, LocalInv, TypeOK, Request
  <2>2. users' = users
    BY <1>2 DEF Revoke
  <2>3. sessions' = sessions \/ RevokeSession(call[p].tok)
    BY <1>2 DEF Revoke
  <2> QED
    BY <2>1, <2>2, <2>3, RevokeSessionRow DEF TablesGrow, TypeOK
<1>3. CASE Insert(p)
  BY <1>3 DEF Insert, At, CreateSession, SessionInsertable, LocalInv, TablesGrow,
              TypeOK, RepositoryTypeOK
<1>4. CASE UNCHANGED <<users, sessions>>
  BY <1>4 DEF TablesGrow
<1> QED
  BY <1>1, <1>2, <1>3, <1>4
     DEF Step, CacheGet, Lookup, Query, Fill, Land, Resume, Invalidate,
         FindSession, Generate, Emit, Deliver

\* The same of every step of the service.
LEMMA NextTablesGrow ==
  ASSUME IInv, [Next]_vars
  PROVE  TablesGrow
<1>1. ASSUME NEW p \in Procs, Arrive(p) PROVE TablesGrow
  BY <1>1 DEF Arrive, Register, Login, GetProfile, RefreshSession, Logout, LogoutAnyway,
              Accept, db, TablesGrow
<1>2. CASE Tick \/ (\E k \in Keys : Expire(k)) \/ Crash \/ UNCHANGED vars
  BY <1>2 DEF Tick, Expire, Crash, vars, db, TablesGrow
<1> QED
  BY <1>1, <1>2, StepTablesGrow DEF Next

\* Nothing a goroutine relies on is lost while others run.
LEMMA ProcInvFrame ==
  ASSUME TypeOK, TypeOK', TablesGrow, NEW q \in Procs, ProcInv(q), SameLocals(q)
  PROVE  ProcInv(q)'
<1> USE DEF SameLocals
<1>1. RequestInv(q)'
  BY DEF ProcInv, RequestInv
<1>2. \A t \in Token \union {None} : Revoked(t) => Revoked(t)'
  BY DEF TablesGrow, Revoked
<1>3. SpentInv(q)'
  BY <1>2 DEF ProcInv, SpentInv, TypeOK, Request
<1>4. LocalInv(q)'
  <2> call[q].tok \in Token \union {None} /\ got[q] \in User \union {None}
      /\ owner[q] \in Ids \union {None} /\ newTok[q] \in Token \union {None}
    BY DEF TypeOK, Request
  <2> QED
    BY <1>2, NoneIsNoUser DEF ProcInv, LocalInv, TablesGrow, User
<1> QED
  BY <1>1, <1>3, <1>4 DEF ProcInv

(***************************************************************************)
(* The inductive invariant                                                 *)
(***************************************************************************)

\* The inductive invariant holds of the seeded table.
LEMMA InitIInv == Init => IInv
<1> SUFFICES ASSUME Init PROVE IInv
  OBVIOUS
<1>1. TypeOK
  BY InitTypeOK
<1>2. TableInv
  BY SeedAssumption
     DEF Init, TableInv, UsersKeyed, SessionMatchesToken, RotationRevokesParent,
         AcknowledgedIsStored, DeliveredDated
<1>3. \A p \in Procs : ProcInv(p)
  BY ServiceAssumption
     DEF Init, ProcInv, RequestInv, LocalInv, SpentInv, NoRequest, AboutToken,
         Getting, Replies
<1> QED
  BY <1>1, <1>2, <1>3 DEF IInv

\* Steps that leave the tables and the history alone.
LEMMA TableInvFrame ==
  ASSUME TableInv, UNCHANGED <<users, sessions, delivered, acked>>
  PROVE  TableInv'
BY DEF TableInv, UsersKeyed, SessionMatchesToken, RotationRevokesParent,
       AcknowledgedIsStored, DeliveredDated, Revoked

\* A handler's step keeps what the tables owe to rotation, to the tokens and to
\* what clients were told.
LEMMA StepTableInv ==
  ASSUME IInv, TypeOK', TablesGrow, NEW p \in Procs, Step(p)
  PROVE  TableInv'
<1> USE DEF db, history, At
<1> TypeOK /\ TableInv /\ RequestInv(p) /\ LocalInv(p)
  BY DEF IInv, ProcInv
<1>1. CASE Create(p)
  <2>1. UsersKeyed'
    BY <1>1 DEF Create, CreateUser, FreeIds, TableInv, UsersKeyed, TypeOK,
                RepositoryTypeOK
  <2>2. SessionMatchesToken' /\ RotationRevokesParent'
    BY <1>1 DEF Create, TablesGrow, TableInv, SessionMatchesToken,
                RotationRevokesParent, Revoked, Token
  <2>3. AcknowledgedIsStored' /\ DeliveredDated'
    BY <1>1, NoneIsNoUser
       DEF Create, TablesGrow, TableInv, AcknowledgedIsStored, DeliveredDated,
           TypeOK, User
  <2> QED
    BY <2>1, <2>2, <2>3 DEF TableInv
<1>2. CASE Revoke(p)
  <2>1. call[p].tok \in Token /\ sessions[call[p].tok] # None
    BY <1>2 DEF Revoke, LocalInv, TypeOK, Request
  <2>2. UNCHANGED <<users, delivered, acked>>
    BY <1>2 DEF Revoke
  <2>3. sessions' = sessions \/ RevokeSession(call[p].tok)
    BY <1>2 DEF Revoke
  <2>4. CASE RevokeSession(call[p].tok)
    <3>1. /\ \A t \in Token : sessions'[t] # None =>
               /\ sessions[t] # None
               /\ sessions'[t].user = sessions[t].user
               /\ sessions'[t].exp = sessions[t].exp
               /\ sessions'[t].from = sessions[t].from
      BY <2>1, <2>4, RevokeSessionRow DEF TypeOK
    <3>2. UsersKeyed' /\ SessionMatchesToken' /\ DeliveredDated'
      BY <2>2, <3>1 DEF TableInv, UsersKeyed, SessionMatchesToken, DeliveredDated
    <3>3. RotationRevokesParent'
      BY <3>1 DEF TablesGrow, TableInv, RotationRevokesParent, Revoked, TypeOK,
                  RepositoryTypeOK, Session
    <3>4. AcknowledgedIsStored'
      BY <2>2 DEF TablesGrow, TableInv, AcknowledgedIsStored, TypeOK
    <3> QED
      BY <3>2, <3>3, <3>4 DEF TableInv
  <2> QED
    BY <2>2, <2>3, <2>4, TableInvFrame
<1>3. CASE Insert(p)
  <2>1. UNCHANGED <<users, delivered, acked>> /\ newTok[p] \in Token
    BY <1>3 DEF Insert, LocalInv, TypeOK
  <2>2. PICK x \in RowExpiries(p) :
          LET s == [user |-> owner[p], exp |-> x, revoked |-> FALSE,
                    from |-> call[p].tok]
          IN \/ sessions' = sessions
             \/ sessions[newTok[p]] = None /\ CreateSession(newTok[p], s)
    BY <1>3 DEF Insert, SessionInsertable
  <2> DEFINE s == [user |-> owner[p], exp |-> x, revoked |-> FALSE,
                   from |-> call[p].tok]
  <2>3. CASE sessions[newTok[p]] = None /\ CreateSession(newTok[p], s)
    <3>1. sessions' = [sessions EXCEPT ![newTok[p]] = s]
      BY <2>3 DEF CreateSession
    <3>2. s.user = newTok[p].sub /\ users[s.user] # None
      BY <1>3 DEF Insert, LocalInv
    <3>3. s.exp >= newTok[p].exp
      BY <2>1 DEF RowExpiries, Token
    <3>4. s.from # None => Revoked(s.from)
      BY <1>3 DEF Insert, LocalInv, RequestInv
    <3> HIDE DEF s
    <3>5. SessionMatchesToken'
      BY <2>1, <3>1, <3>2, <3>3
         DEF TableInv, SessionMatchesToken, TypeOK, RepositoryTypeOK
    <3>6. RotationRevokesParent'
      <4> SUFFICES ASSUME NEW t \in Token, sessions'[t] # None,
                          sessions'[t].from # None, NEW f,
                          f = sessions'[t].from
                   PROVE  f # None /\ sessions'[f] # None /\ sessions'[f].revoked
        BY DEF RotationRevokesParent, Revoked
      <4>1. f \in Token
        BY DEF TypeOK, RepositoryTypeOK, Session
      <4>2. Revoked(f)
        BY <2>1, <3>1, <3>4 DEF TableInv, RotationRevokesParent, TypeOK,
                                RepositoryTypeOK
      <4> QED
        BY <4>1, <4>2 DEF Revoked, TablesGrow
    <3>7. UsersKeyed' /\ DeliveredDated'
      BY <2>1 DEF TableInv, UsersKeyed, DeliveredDated
    <3>8. AcknowledgedIsStored'
      BY <2>1 DEF TablesGrow, TableInv, AcknowledgedIsStored, TypeOK
    <3> QED
      BY <3>5, <3>6, <3>7, <3>8 DEF TableInv
  <2> QED
    BY <2>1, <2>2, <2>3, TableInvFrame
<1>4. CASE Deliver(p)
  <2>1. UNCHANGED <<users, sessions>>
    BY <1>4 DEF Deliver
  <2>2. \A t \in TokensIn(p) : sessions[t] # None /\ t.exp >= RefreshTTL
    BY <1>4 DEF TokensIn, LocalInv
  <2>3. \A u \in AccountsIn(p) : users[u.id] = u
    BY <1>4 DEF AccountsIn, LocalInv
  <2>4. AcknowledgedIsStored' /\ DeliveredDated'
    BY <1>4, <2>1, <2>2, <2>3
       DEF Deliver, TableInv, AcknowledgedIsStored, DeliveredDated
  <2> QED
    BY <2>1, <2>4
       DEF TableInv, UsersKeyed, SessionMatchesToken, RotationRevokesParent,
           Revoked
<1>5. CASE UNCHANGED <<users, sessions, delivered, acked>>
  BY <1>5, TableInvFrame
<1> QED
  BY <1>1, <1>2, <1>3, <1>4, <1>5
     DEF Step, CacheGet, Lookup, Query, Fill, Land, Resume, Invalidate,
         FindSession, Generate, Emit

\* A handler's step leaves its own goroutine with the facts its next step needs.
LEMMA StepProcInv ==
  ASSUME IInv, TypeOK', TablesGrow, NEW p \in Procs, Step(p)
  PROVE  ProcInv(p)'
<1> USE DEF db, locals, history, At, Go, Finish
<1> TypeOK /\ TableInv /\ RequestInv(p) /\ LocalInv(p) /\ SpentInv(p)
  BY DEF IInv, ProcInv
<1> /\ call[p].tok \in Token \union {None} /\ got[p] \in User \union {None}
    /\ owner[p] \in Ids \union {None} /\ newTok[p] \in Token \union {None}
  BY DEF TypeOK, Request
<1> "OK" # None /\ "Internal" # None /\ "InvalidCredentials" # None
  BY ServiceAssumption DEF Replies
<1> USE DEF TypeOK
<1>1. CASE CacheGet(p)
  BY <1>1 DEF CacheGet, ProcInv, RequestInv, LocalInv, SpentInv, Revoked, Getting
<1>2. CASE Lookup(p)
  BY <1>2 DEF Lookup, ProcInv, RequestInv, LocalInv, SpentInv, Revoked, Getting
<1>3. CASE Query(p)
  <2>1. Row(p) # None => users[Row(p).id] = Row(p)
    BY <1>3, GetUserByEmailRow
       DEF Query, Row, GetUserByID, RequestInv, Getting, TableInv, UsersKeyed
  <2> QED
    BY <1>3, <2>1
       DEF Query, ProcInv, RequestInv, LocalInv, SpentInv, Revoked, Getting
<1>4. CASE Fill(p)
  BY <1>4 DEF Fill, ProcInv, RequestInv, LocalInv, SpentInv, Revoked, Getting
<1>5. CASE Land(p)
  BY <1>5 DEF Land, Lands, ProcInv, RequestInv, LocalInv, SpentInv, Revoked, Getting
<1>6. CASE Resume(p)
  <2>1. RequestInv(p)'
    BY <1>6 DEF Resume, RequestInv, Getting
  <2>2. LocalInv(p)'
    <3>1. UNCHANGED <<users, sessions, call, got, newTok>> /\ reply[p] = None
      BY <1>6 DEF Resume, RequestInv
    <3>2. \/ pc'[p] = "done" /\ reply'[p] \in {"EmailInUse", "InvalidCredentials"}
          \/ pc'[p] = "done" /\ call[p].op = "GetProfile"
          \/ pc'[p] = "create" /\ reply'[p] = None
          \/ /\ pc'[p] = "generate" /\ reply'[p] = None /\ call[p].op = "Login"
             /\ got[p] # None /\ owner'[p] = got[p].id
      BY <1>6, <3>1 DEF Resume, LoginOK
    <3>3. got[p] # None => users[got[p].id] = got[p] /\ got[p].id # None
      BY <1>6, RepositoryAssumption DEF Resume, LocalInv, User
    <3> QED
      BY <3>1, <3>2, <3>3 DEF LocalInv
  <2>3. SpentInv(p)'
    BY <1>6 DEF Resume, SpentInv
  <2> QED
    BY <2>1, <2>2, <2>3 DEF ProcInv
<1>7. CASE Create(p)
  <2>1. RequestInv(p)'
    BY <1>7 DEF Create, RequestInv, Getting
  <2>2. LocalInv(p)'
    <3>1. PICK id \in FreeIds, u \in User :
            /\ u.id = id
            /\ \/ pc'[p] \in {"invalidate", "emit"} /\ got'[p] = u
                  /\ users' = [users EXCEPT ![id] = u] /\ reply'[p] = reply[p]
               \/ pc'[p] = "done" /\ reply'[p] = "Internal"
      <4>1. PICK id \in FreeIds, o \in Outcomes : Create(p)!2!(id, o)
        BY <1>7 DEF Create
      <4> DEFINE u == [id |-> id, email |-> call[p].key,
                       username |-> call[p].username,
                       hash |-> HashPassword(call[p].pw)]
      <4>2. u \in User /\ u.id = id
        BY <1>7 DEF Create, RequestInv, FreeIds, User, HashPassword, Hash
      <4> QED
        BY <4>1, <4>2, NoneIsNoUser DEF CreateUser, Committed
    <3>2. id \in Ids
      BY <3>1 DEF FreeIds
    <3>3. newTok' = newTok /\ call' = call /\ call[p].op = "Register"
          /\ reply[p] = None
      BY <1>7 DEF Create, RequestInv
    <3> QED
      BY <3>1, <3>2, <3>3, NoneIsNoUser DEF LocalInv, RepositoryTypeOK
  <2>3. SpentInv(p)'
    BY <1>7 DEF Create, SpentInv
  <2> QED
    BY <2>1, <2>2, <2>3 DEF ProcInv
<1>8. CASE Invalidate(p)
  BY <1>8 DEF Invalidate, ProcInv, RequestInv, LocalInv, SpentInv, Revoked, Getting
<1>9. CASE FindSession(p)
  BY <1>9 DEF FindSession, GetSessionByTokenHash, Usable, ProcInv, RequestInv,
              LocalInv, SpentInv, Revoked, Getting
<1>10. CASE Revoke(p)
  <2>1. RequestInv(p)'
    BY <1>10 DEF Revoke, RequestInv, Getting
  <2>2. LocalInv(p)'
    <3>1. call[p].tok \in Token /\ sessions[call[p].tok] # None
          /\ owner[p] = sessions[call[p].tok].user
      BY <1>10 DEF Revoke, LocalInv
    <3>2. owner[p] = call[p].tok.sub /\ users[owner[p]] # None /\ owner[p] # None
      BY <3>1, RepositoryAssumption DEF TableInv, SessionMatchesToken, Token
    <3>3. UNCHANGED <<users, call, got, owner, newTok>>
      BY <1>10 DEF Revoke
    <3>4. /\ reply[p] = None
          /\ \/ pc'[p] = "emit" /\ reply'[p] = None /\ call[p].op = "Logout"
             \/ pc'[p] = "generate" /\ reply'[p] = None
                /\ RevokeSession(call[p].tok)
             \/ pc'[p] = "done" /\ reply'[p] = "Internal"
      BY <1>10 DEF Revoke, RevokeAccepted, RequestInv
    <3> QED
      <4>1. CASE pc'[p] = "generate" /\ reply'[p] = None
                 /\ RevokeSession(call[p].tok)
        <5>1. Revoked(call[p].tok)'
          BY <3>1, <3>3, <4>1, RevokeSessionRow, RepositoryAssumption DEF Revoked
        <5> QED
          BY <3>2, <3>3, <4>1, <5>1 DEF LocalInv
      <4>2. CASE pc'[p] = "emit" /\ reply'[p] = None /\ call[p].op = "Logout"
        BY <3>3, <4>2 DEF LocalInv
      <4>3. CASE pc'[p] = "done" /\ reply'[p] = "Internal"
        BY <3>3, <4>3 DEF LocalInv
      <4> QED
        BY <3>4, <4>1, <4>2, <4>3
  <2>3. SpentInv(p)'
    BY <1>10 DEF Revoke, SpentInv
  <2> QED
    BY <2>1, <2>2, <2>3 DEF ProcInv
<1>11. CASE Generate(p)
  <2>1. RequestInv(p)'
    BY <1>11 DEF Generate, RequestInv, Getting
  <2>2. LocalInv(p)'
    <3>1. UNCHANGED <<users, sessions, call, got, owner>>
      BY <1>11 DEF Generate
    <3>2. Subject(p) = owner[p]
      BY <1>11 DEF Generate, Subject, LocalInv, RequestInv
    <3>3. \/ /\ newTok'[p] = RefreshToken(owner[p], now)
             /\ pc'[p] = "insert" /\ reply'[p] = None
          \/ newTok' = newTok /\ pc'[p] = "done" /\ reply'[p] = "Internal"
      BY <1>11, <3>2 DEF Generate, RequestInv
    <3>4. /\ RefreshToken(owner[p], now) \in Token
          /\ RefreshToken(owner[p], now).sub = owner[p]
          /\ RefreshToken(owner[p], now).exp >= RefreshTTL
      BY <1>11, TokenAssumption, TokenTypes
         DEF Generate, LocalInv, RefreshToken, Time
    <3> QED
      BY <1>11, <3>1, <3>3, <3>4, RepositoryAssumption
         DEF Generate, LocalInv, Revoked
  <2>3. SpentInv(p)'
    BY <1>11 DEF Generate, SpentInv
  <2> QED
    BY <2>1, <2>2, <2>3 DEF ProcInv
<1>12. CASE Insert(p)
  <2>1. RequestInv(p)'
    BY <1>12 DEF Insert, RequestInv, Getting
  <2>2. LocalInv(p)'
    <3>1. UNCHANGED <<users, call, got, owner, newTok>>
      BY <1>12 DEF Insert
    <3>2. \/ pc'[p] = "emit" /\ reply'[p] = None /\ sessions'[newTok[p]] # None
          \/ pc'[p] = "done" /\ reply'[p] = "Internal"
      BY <1>12, NoneIsNoSession, NewSessionType
         DEF Insert, Committed, CreateSession, LocalInv, RequestInv,
             RepositoryTypeOK
    <3> QED
      BY <1>12, <3>1, <3>2 DEF Insert, LocalInv, RequestInv
  <2>3. SpentInv(p)'
    BY <1>12 DEF Insert, SpentInv
  <2> QED
    BY <2>1, <2>2, <2>3 DEF ProcInv
<1>13. CASE Emit(p)
  BY <1>13 DEF Emit, ProcInv, RequestInv, LocalInv, SpentInv, Revoked, Getting
<1>14. CASE Deliver(p)
  BY <1>14 DEF Deliver, NoRequest, AboutToken, ProcInv, RequestInv, LocalInv,
               SpentInv, Getting
<1> QED
  BY <1>1, <1>2, <1>3, <1>4, <1>5, <1>6, <1>7, <1>8, <1>9, <1>10, <1>11,
     <1>12, <1>13, <1>14 DEF Step

\* The goroutines that p's step does not belong to.  Only Land touches them:
\* it hands the row of a flight to those that wait for it.
LEMMA StepOthers ==
  ASSUME IInv, TypeOK', TablesGrow, NEW p \in Procs, Step(p),
         NEW q \in Procs, q # p
  PROVE  ProcInv(q)'
<1> USE DEF db, locals, history, At, Go, Finish
<1> TypeOK /\ ProcInv(q) /\ LocalInv(p)
  BY DEF IInv, ProcInv
<1>1. CASE Land(p)
  <2>1. CASE pc[q] = "wait" /\ call[q].key = call[p].key
    <3>1. /\ pc'[q] = "resume" /\ got'[q] = got[p] /\ users' = users
          /\ call'[q] = call[q] /\ newTok' = newTok /\ reply'[q] = reply[q]
          /\ got[p] # None => users[got[p].id] = got[p]
      BY <1>1, <2>1 DEF Land, Lands, TypeOK, LocalInv
    <3>2. RequestInv(q)'
      BY <2>1, <3>1 DEF ProcInv, RequestInv, Getting
    <3>3. LocalInv(q)' /\ SpentInv(q)'
      BY <2>1, <3>1, ServiceAssumption
         DEF ProcInv, RequestInv, LocalInv, SpentInv, Getting, Replies
    <3> QED
      BY <3>2, <3>3 DEF ProcInv
  <2>2. CASE ~(pc[q] = "wait" /\ call[q].key = call[p].key)
    <3>1. SameLocals(q)
      BY <1>1, <2>2 DEF Land, Lands, TypeOK, SameLocals
    <3> QED
      BY <3>1, ProcInvFrame
  <2> QED
    BY <2>1, <2>2
<1>2. CASE ~Land(p)
  <2> USE DEF TypeOK, SameLocals
  <2>1. CASE CacheGet(p) \/ Lookup(p) \/ Query(p) \/ Fill(p) \/ Resume(p)
    <3>1. SameLocals(q)
      BY <2>1 DEF CacheGet, Lookup, Query, Fill, Resume
    <3> QED
      BY <3>1, ProcInvFrame
  <2>2. CASE Create(p) \/ Invalidate(p) \/ FindSession(p) \/ Revoke(p)
    <3>1. SameLocals(q)
      BY <2>2 DEF Create, Invalidate, FindSession, Revoke
    <3> QED
      BY <3>1, ProcInvFrame
  <2>3. CASE Generate(p) \/ Insert(p) \/ Emit(p) \/ Deliver(p)
    <3>1. SameLocals(q)
      BY <2>3 DEF Generate, Insert, Emit, Deliver
    <3> QED
      BY <3>1, ProcInvFrame
  <2> QED
    BY <1>2, <2>1, <2>2, <2>3 DEF Step
<1> QED
  BY <1>1, <1>2

\* A request that arrives keeps the invariant.
LEMMA ArriveIInv ==
  ASSUME IInv, TypeOK', TablesGrow, NEW p \in Procs, Arrive(p)
  PROVE  TableInv' /\ \A q \in Procs : ProcInv(q)'
<1> USE DEF At, Go, Finish, db, locals, history
<1> TypeOK /\ TableInv /\ ProcInv(p)
  BY DEF IInv
<1>1. \E c : Accept(p, c) /\ ((\E r : Finish(p, r)) \/ (\E l : Go(p, l)))
  BY DEF Arrive, Register, Login, GetProfile, RefreshSession, Logout, LogoutAnyway
<1>2. UNCHANGED <<users, sessions, delivered, acked, got, owner, newTok>>
  BY <1>1 DEF Accept
<1>3. TableInv'
  BY <1>2, TableInvFrame
<1>4. ASSUME NEW q \in Procs, q # p PROVE ProcInv(q)'
  <2>1. SameLocals(q)
    BY <1>1, <1>4 DEF Accept, TypeOK, SameLocals
  <2> QED
    BY <2>1, ProcInvFrame DEF IInv
<1>5. ProcInv(p)'
  <2>1. pc[p] = "idle" /\ reply[p] = None
        /\ (newTok[p] # None => newTok[p].exp >= RefreshTTL)
    BY <1>1 DEF Accept, ProcInv, RequestInv, LocalInv
  <2> "OK" # None /\ "InvalidCredentials" # None
    BY ServiceAssumption DEF Replies
  <2> USE DEF TypeOK, Accept, ProcInv, RequestInv, LocalInv, SpentInv, Getting,
              AboutUser, AboutToken
  <2>2. ASSUME NEW e \in Emails \union {None}, NEW n \in Usernames,
               NEW w \in Passwords, Register(p, e, n, w)
        PROVE  ProcInv(p)'
    BY <1>2, <2>1, <2>2 DEF Register
  <2>3. ASSUME NEW e \in Emails, NEW w \in Passwords, Login(p, e, w)
        PROVE  ProcInv(p)'
    BY <1>2, <2>1, <2>3 DEF Login
  <2>4. ASSUME NEW id \in Ids \union {None}, GetProfile(p, id)
        PROVE  ProcInv(p)'
    BY <1>2, <2>1, <2>4 DEF GetProfile
  <2>5. ASSUME NEW tok \in Presentable, RefreshSession(p, tok)
        PROVE  ProcInv(p)'
    <3>1. /\ call'[p] = AboutToken("RefreshSession", tok, Revoked(tok))
          /\ \/ pc'[p] = "session" /\ reply'[p] = None /\ tok # None
             \/ pc'[p] = "done" /\ reply'[p] = "InvalidCredentials"
      BY <2>1, <2>5 DEF RefreshSession, Verify
    <3>2. RequestInv(p)'
      BY <3>1
    <3>3. LocalInv(p)'
      BY <1>2, <2>1, <3>1
    <3>4. SpentInv(p)'
      <4> HIDE DEF TypeOK, ProcInv, RequestInv, LocalInv, Accept
      <4>1. Revoked(tok) => Revoked(tok)'
        BY <1>2 DEF Revoked
      <4> QED
        BY <3>1, <4>1
    <3> QED
      BY <3>2, <3>3, <3>4
  <2>6. ASSUME NEW tok \in Presentable, Logout(p, tok)
        PROVE  ProcInv(p)'
    BY <1>2, <2>1, <2>6 DEF Logout, LogoutAnyway
  <2> QED
    BY <2>2, <2>3, <2>4, <2>5, <2>6 DEF Arrive
<1> QED
  BY <1>3, <1>4, <1>5

\* The clock, cache expiry and a crash keep the invariant.
LEMMA EnvironmentIInv ==
  ASSUME IInv, TypeOK', TablesGrow,
         Tick \/ (\E k \in Keys : Expire(k)) \/ Crash \/ UNCHANGED vars
  PROVE  TableInv' /\ \A q \in Procs : ProcInv(q)'
<1> USE DEF db, locals, history
<1>1. UNCHANGED <<users, sessions, delivered, acked>>
  BY DEF Tick, Expire, Crash, vars
<1>2. TableInv'
  BY <1>1, TableInvFrame DEF IInv
<1>3. CASE Tick \/ (\E k \in Keys : Expire(k)) \/ UNCHANGED vars
  <2>1. \A q \in Procs : SameLocals(q)
    BY <1>3 DEF Tick, Expire, vars, SameLocals
  <2> QED
    BY <1>2, <2>1, ProcInvFrame DEF IInv
<1>4. CASE Crash
  BY <1>2, <1>4, ServiceAssumption
     DEF Crash, NoRequest, AboutToken, ProcInv, RequestInv, LocalInv, SpentInv,
         Getting, Replies
<1> QED
  BY <1>3, <1>4

\* Every step keeps the invariant.
LEMMA NextIInv == IInv /\ [Next]_vars => IInv'
<1> SUFFICES ASSUME IInv, [Next]_vars PROVE IInv'
  OBVIOUS
<1>1. TablesGrow
  BY NextTablesGrow
<1>2. ASSUME NEW p \in Procs, Arrive(p) PROVE IInv'
  BY <1>1, <1>2, ArriveTypeOK, ArriveIInv DEF IInv
<1>3. ASSUME NEW p \in Procs, Step(p) PROVE IInv'
  <2>1. TypeOK'
    BY <1>3, StepTypeOK
  <2>2. TableInv'
    BY <1>1, <1>3, <2>1, StepTableInv
  <2>3. ASSUME NEW q \in Procs PROVE ProcInv(q)'
    BY <1>1, <1>3, <2>1, StepProcInv, StepOthers
  <2> QED
    BY <2>1, <2>2, <2>3 DEF IInv
<1>4. CASE Tick \/ (\E k \in Keys : Expire(k)) \/ Crash
  BY <1>1, <1>4, EnvironmentTypeOK, EnvironmentIInv DEF IInv
<1>5. CASE UNCHANGED vars
  <2>1. TypeOK'
    BY <1>5 DEF IInv, TypeOK, RepositoryTypeOK, vars
  <2> QED
    BY <1>1, <1>5, <2>1, EnvironmentIInv DEF IInv
<1> QED
  BY <1>2, <1>3, <1>4, <1>5 DEF Next

(***************************************************************************)
(* Theorems                                                                *)
(***************************************************************************)

\* The invariant holds in every reachable state.
LEMMA Inductive == Spec => []IInv
BY InitIInv, NextIInv, PTL DEF Spec

\* Every variable of the service keeps its type.
THEOREM TypeCorrect == Spec => []TypeOK
<1>1. IInv => TypeOK
  BY DEF IInv
<1> QED
  BY <1>1, Inductive, PTL

\* RefreshSession never leaves the token it was given usable next to the one it
\* issued: the parent of every rotated session is revoked.
THEOREM RotationSafe == Spec => []RotationRevokesParent
<1>1. IInv => RotationRevokesParent
  BY DEF IInv, TableInv
<1> QED
  BY <1>1, Inductive, PTL

\* Session rows and tokens name the same existing user, and a row outlives its
\* token.
THEOREM SessionBinding == Spec => []SessionMatchesToken
<1>1. IInv => SessionMatchesToken
  BY DEF IInv, TableInv
<1> QED
  BY <1>1, Inductive, PTL

\* A token revoked before RefreshSession is called is never exchanged.
THEOREM RevokedNeverExchanged == Spec => []NoReuseAfterRevoke
<1>1. IInv => NoReuseAfterRevoke
  BY DEF IInv, ProcInv, SpentInv, NoReuseAfterRevoke
<1> QED
  BY <1>1, Inductive, PTL

\* Tokens handed out and registrations confirmed stay in the tables, whatever
\* crashes or fails afterwards.
THEOREM AcknowledgementsHold == Spec => []AcknowledgedIsStored
<1>1. IInv => AcknowledgedIsStored
  BY DEF IInv, TableInv
<1> QED
  BY <1>1, Inductive, PTL

\* No step takes a session back or makes a revoked one usable.
THEOREM SessionsAge == Spec => SessionsOnlyAge
<1>1. IInv /\ [Next]_vars =>
        [\A t \in Token : sessions[t] # None =>
           /\ sessions'[t] # None
           /\ sessions'[t].user = sessions[t].user
           /\ sessions[t].revoked => sessions'[t].revoked]_vars
  BY NextTablesGrow DEF TablesGrow
<1> QED
  BY <1>1, Inductive, PTL DEF Spec, SessionsOnlyAge

(***************************************************************************)
(* Refinement                                                              *)
(***************************************************************************)

status == [t \in Token |-> IF sessions[t] = None THEN "absent"
                           ELSE IF sessions[t].revoked THEN "revoked"
                           ELSE "live"]
origin == [t \in Token |-> IF sessions[t] = None THEN None ELSE sessions[t].from]

\* All that any step does to the sessions table.
LEMMA SessionSteps ==
  ASSUME IInv, [Next]_vars
  PROVE  \/ sessions' = sessions
         \/ \E tok \in Token : sessions[tok] # None /\ RevokeSession(tok)
         \/ \E tok \in Token, s \in Session :
              /\ sessions[tok] = None /\ CreateSession(tok, s)
              /\ ~s.revoked
              /\ s.from # None => Revoked(s.from)
<1> USE DEF db, At
<1>1. CASE \E p \in Procs : Arrive(p)
  BY <1>1 DEF Arrive, Register, Login, GetProfile, RefreshSession, Logout, LogoutAnyway, Accept
<1>2. CASE Tick \/ (\E k \in Keys : Expire(k)) \/ Crash \/ UNCHANGED vars
  BY <1>2 DEF Tick, Expire, Crash, vars
<1>3. ASSUME NEW p \in Procs, Revoke(p)
      PROVE  sessions' = sessions
             \/ \E tok \in Token : sessions[tok] # None /\ RevokeSession(tok)
  BY <1>3 DEF Revoke, IInv, ProcInv, LocalInv, TypeOK, Request
<1>4. ASSUME NEW p \in Procs, Insert(p)
      PROVE  sessions' = sessions
             \/ \E tok \in Token, s \in Session :
                  /\ sessions[tok] = None /\ CreateSession(tok, s)
                  /\ ~s.revoked
                  /\ s.from # None => Revoked(s.from)
  <2>1. newTok[p] \in Token /\ (call[p].tok # None => Revoked(call[p].tok))
    BY <1>4 DEF Insert, IInv, ProcInv, LocalInv, RequestInv, TypeOK
  <2>2. \A x \in RowExpiries(p) :
          [user |-> owner[p], exp |-> x, revoked |-> FALSE,
           from |-> call[p].tok] \in Session
    BY <1>4, NewSessionType DEF Insert, IInv, ProcInv
  <2> QED
    BY <1>4, <2>1, <2>2 DEF Insert, SessionInsertable
<1>5. ASSUME NEW p \in Procs, Step(p), ~Revoke(p), ~Insert(p)
      PROVE  sessions' = sessions
  BY <1>5 DEF Step, CacheGet, Lookup, Query, Fill, Land, Resume, Create,
              Invalidate, FindSession, Generate, Emit, Deliver
<1> QED
  BY <1>1, <1>2, <1>3, <1>4, <1>5 DEF Next

\* Under the refinement mapping each step of the service is a step of
\* SessionLifecycle or a stutter.
LEMMA RefinedStep ==
  ASSUME IInv, [Next]_vars
  PROVE  [Lifecycle!Next]_<<status, origin>>
<1> RepositoryTypeOK /\ TableInv
  BY DEF IInv, TypeOK
<1>1. CASE sessions' = sessions
  BY <1>1 DEF status, origin
<1>2. ASSUME NEW tok \in Token, sessions[tok] # None, RevokeSession(tok)
      PROVE  [Lifecycle!Next]_<<status, origin>>
  <2>1. origin' = origin
    BY <1>2, RevokeSessionRow DEF origin
  <2>2. status' = [status EXCEPT ![tok] = "revoked"]
    BY <1>2, RevokeSessionRow DEF status
  <2>3. status[tok] = "live" \/ status[tok] = "revoked"
    BY <1>2 DEF status
  <2>4. CASE status[tok] = "live"
    BY <2>1, <2>2, <2>4 DEF Lifecycle!Next, Lifecycle!Revoke, status, origin
  <2>5. CASE status[tok] = "revoked"
    BY <2>1, <2>2, <2>5 DEF status
  <2> QED
    BY <2>3, <2>4, <2>5
<1>3. ASSUME NEW tok \in Token, NEW s \in Session, sessions[tok] = None,
             CreateSession(tok, s), ~s.revoked, s.from # None => Revoked(s.from)
      PROVE  [Lifecycle!Next]_<<status, origin>>
  <2>1. sessions' = [sessions EXCEPT ![tok] = s] /\ s # None
    BY <1>3, NoneIsNoSession DEF CreateSession
  <2>2. status' = [status EXCEPT ![tok] = "live"] /\ status[tok] = "absent"
    BY <1>3, <2>1 DEF status, RepositoryTypeOK
  <2>3. origin' = [origin EXCEPT ![tok] = s.from] /\ origin[tok] = None
    BY <1>3, <2>1 DEF origin, RepositoryTypeOK
  <2>4. CASE s.from = None
    <3>1. origin' = origin
      BY <2>3, <2>4 DEF origin
    <3> QED
      BY <2>2, <3>1 DEF Lifecycle!Next, Lifecycle!Open, status, origin
  <2>5. CASE s.from # None
    <3>1. s.from \in Token /\ status[s.from] = "revoked"
      BY <1>3, <2>5 DEF Session, Revoked, status
    <3>2. Lifecycle!Rotate(s.from, tok)
      BY <2>2, <2>3, <3>1, Zenon DEF Lifecycle!Rotate, status, origin
    <3> QED
      BY <3>1, <3>2, Zenon DEF Lifecycle!Next
  <2> QED
    BY <2>4, <2>5
<1> QED
  BY <1>1, <1>2, <1>3, SessionSteps

\* The service implements SessionLifecycle: every behaviour of its handlers,
\* seen in the sessions table, issues and revokes tokens as that specification
\* allows.
THEOREM Refinement == Spec => ImplementsLifecycle
<1>1. Init => Lifecycle!Init
  BY DEF Init, Lifecycle!Init
<1>2. IInv /\ [Next]_vars => [Lifecycle!Next]_<<status, origin>>
  BY RefinedStep
<1> QED
  BY <1>1, <1>2, Inductive, PTL
     DEF Spec, ImplementsLifecycle, Lifecycle!Spec, status, origin
====
